----------------------------- MODULE DeliveryProofs -----------------------------
(***************************************************************************)
(* The right to deliver a notification is duplicated by nobody but the     *)
(* Redis client, and what follows from that: none is sent before its time. *)
(***************************************************************************)
EXTENDS NotificationInvariant, NotificationProofs

NobodyCarries(n) ==
    /\ \A h \in Handlers : ~HandlerCarries(h, n)
    /\ ~RowCarries(n)
    /\ \A t \in Tickers : ~TickerCarries(t, n)
    /\ \A i \in Unread(QueueOf[n]) : ~EntryCarries(i, n)
    /\ \A w \in Workers : ~WorkerCarries(w, n)

LEMMA NoCarriers ==
    ASSUME NEW n
    PROVE  Carriers(n) = {} <=> NobodyCarries(n)
BY DEF Carriers, NobodyCarries

LEMMA Members ==
    ASSUME NEW n
    PROVE  /\ \A h \in Handlers : HandlerCarries(h, n) => <<"request", h>> \in Carriers(n)
           /\ RowCarries(n) => <<"row", n>> \in Carriers(n)
           /\ \A t \in Tickers : TickerCarries(t, n) => <<"ticker", t>> \in Carriers(n)
           /\ \A i \in Unread(QueueOf[n]) : EntryCarries(i, n) => <<"entry", i>> \in Carriers(n)
           /\ \A w \in Workers : WorkerCarries(w, n) => <<"worker", w>> \in Carriers(n)
BY DEF Carriers

LEMMA Places ==
    \A a, b, n :
        /\ <<"request", a>> # <<"row", n>> /\ <<"request", a>> # <<"ticker", b>>
        /\ <<"request", a>> # <<"entry", b>> /\ <<"request", a>> # <<"worker", b>>
        /\ <<"row", n>> # <<"ticker", b>> /\ <<"row", n>> # <<"entry", b>>
        /\ <<"row", n>> # <<"worker", b>> /\ <<"ticker", a>> # <<"entry", b>>
        /\ <<"ticker", a>> # <<"worker", b>> /\ <<"entry", a>> # <<"worker", b>>
        /\ <<"request", a>> = <<"request", b>> => a = b
        /\ <<"ticker", a>> = <<"ticker", b>> => a = b
        /\ <<"entry", a>> = <<"entry", b>> => a = b
        /\ <<"worker", a>> = <<"worker", b>> => a = b
OBVIOUS

\* A single carrier is of one kind, and the only one of that kind.
LEMMA SoleRequest ==
    ASSUME NEW n, \A p, q \in Carriers(n) : p = q,
           NEW h \in Handlers, HandlerCarries(h, n)
    PROVE  /\ \A g \in Handlers : HandlerCarries(g, n) => g = h
           /\ ~RowCarries(n)
           /\ \A t \in Tickers : ~TickerCarries(t, n)
           /\ \A i \in Unread(QueueOf[n]) : ~EntryCarries(i, n)
           /\ \A w \in Workers : ~WorkerCarries(w, n)
<1>1. \A p \in Carriers(n) : p = <<"request", h>>
  BY Members
<1> QED
  BY <1>1, Members, Places

LEMMA SoleRow ==
    ASSUME NEW n, \A p, q \in Carriers(n) : p = q, RowCarries(n)
    PROVE  /\ \A h \in Handlers : ~HandlerCarries(h, n)
           /\ \A t \in Tickers : ~TickerCarries(t, n)
           /\ \A i \in Unread(QueueOf[n]) : ~EntryCarries(i, n)
           /\ \A w \in Workers : ~WorkerCarries(w, n)
<1>1. \A p \in Carriers(n) : p = <<"row", n>>
  BY Members
<1> QED
  BY <1>1, Members, Places

LEMMA SoleTicker ==
    ASSUME NEW n, \A p, q \in Carriers(n) : p = q,
           NEW t \in Tickers, TickerCarries(t, n)
    PROVE  /\ \A h \in Handlers : ~HandlerCarries(h, n)
           /\ ~RowCarries(n)
           /\ \A s \in Tickers : TickerCarries(s, n) => s = t
           /\ \A i \in Unread(QueueOf[n]) : ~EntryCarries(i, n)
           /\ \A w \in Workers : ~WorkerCarries(w, n)
<1>1. \A p \in Carriers(n) : p = <<"ticker", t>>
  BY Members
<1> QED
  BY <1>1, Members, Places

LEMMA SoleEntry ==
    ASSUME NEW n, \A p, q \in Carriers(n) : p = q,
           NEW i \in Unread(QueueOf[n]), EntryCarries(i, n)
    PROVE  /\ \A h \in Handlers : ~HandlerCarries(h, n)
           /\ ~RowCarries(n)
           /\ \A t \in Tickers : ~TickerCarries(t, n)
           /\ \A j \in Unread(QueueOf[n]) : EntryCarries(j, n) => j = i
           /\ \A w \in Workers : ~WorkerCarries(w, n)
<1>1. \A p \in Carriers(n) : p = <<"entry", i>>
  BY Members
<1> QED
  BY <1>1, Members, Places

LEMMA SoleWorker ==
    ASSUME NEW n, \A p, q \in Carriers(n) : p = q,
           NEW w \in Workers, WorkerCarries(w, n)
    PROVE  /\ \A h \in Handlers : ~HandlerCarries(h, n)
           /\ ~RowCarries(n)
           /\ \A t \in Tickers : ~TickerCarries(t, n)
           /\ \A i \in Unread(QueueOf[n]) : ~EntryCarries(i, n)
           /\ \A v \in Workers : WorkerCarries(v, n) => v = w
<1>1. \A p \in Carriers(n) : p = <<"worker", w>>
  BY Members
<1> QED
  BY <1>1, Members, Places

\* A step that gives the right to nobody new leaves at most one carrier.
LEMMA CarriersShrink ==
    ASSUME NEW n,
           \A h \in Handlers : HandlerCarries(h, n)' => HandlerCarries(h, n),
           RowCarries(n)' => RowCarries(n),
           \A t \in Tickers : TickerCarries(t, n)' => TickerCarries(t, n),
           \A i \in Unread(QueueOf[n])' : EntryCarries(i, n)' =>
              i \in Unread(QueueOf[n]) /\ EntryCarries(i, n),
           \A w \in Workers : WorkerCarries(w, n)' => WorkerCarries(w, n)
    PROVE  Carriers(n)' \subseteq Carriers(n)
BY DEF Carriers

\* What a step leaves of the carriers of n when it gives the right to nobody:
\* whoever still has it has it with the same message.
Shrinks(n) ==
    /\ \A h \in Handlers : HandlerCarries(h, n)' => HandlerCarries(h, n)
    /\ RowCarries(n)' => RowCarries(n)
    /\ \A t \in Tickers : \A m \in TickerHolds(t)' : m.n = n => m \in TickerHolds(t)
    /\ \A i \in Unread(QueueOf[n])' : EntryCarries(i, n)' =>
          /\ i \in Unread(QueueOf[n])
          /\ EntryCarries(i, n)
          /\ stream'[QueueOf[n]][i] = stream[QueueOf[n]][i]
    /\ \A w \in Workers : WorkerCarries(w, n)' =>
          /\ WorkerCarries(w, n)
          /\ worker'[w].pc = worker[w].pc
          /\ Held(w)' = Held(w)

\* The changes of a row that no carrier minds.
RowHarmless(n) ==
    /\ received'[n] = received[n]
    /\ db'[n].attempts = db[n].attempts
    /\ db'[n].nextRetryAt # "null" => db[n].nextRetryAt # "null"
    /\ db'[n].providerMessageID => db[n].providerMessageID
    /\ \/ db'[n].status \in {"processing", "queued", "cancelled"}
       \/ db'[n].status = db[n].status /\ (db[n].status = "absent" => db'[n] = db[n])

\* What a step may do with the right to attempt n: keep it where it is or drop it,
\* or hand it from one carrier to another; it makes one only for a new row.
Passes(n) ==
    \/ Shrinks(n) /\ RowHarmless(n)
    \/ Consistent(n)' /\ (NobodyCarries(n) => ~Exists(n))

LEMMA ConsistentShrinks ==
    ASSUME NEW n \in Notifications, Consistent(n), Shrinks(n), RowHarmless(n)
    PROVE  Consistent(n)'
<1>1. \A t \in Tickers : TickerCarries(t, n)' => TickerCarries(t, n)
  BY DEF Shrinks, TickerCarries
<1>2. Carriers(n)' \subseteq Carriers(n)
  BY <1>1, CarriersShrink DEF Shrinks
<1>3. \A p, q \in Carriers(n)' : p = q
  BY <1>2 DEF Consistent
<1>4. \A m : m.n = n /\ Current(m) => Current(m)'
  BY DEF Current, RowHarmless
<1>5. db'[n].status = "absent" \/ db'[n].providerMessageID => Carriers(n)' = {}
  BY <1>2 DEF Consistent, RowHarmless
<1>6. \A h \in Handlers : HandlerCarries(h, n)' => db'[n].attempts = 0 /\ received'[n] = 0
  BY DEF Consistent, RowHarmless, Shrinks
<1>7. RowCarries(n)' => db'[n].attempts < MaxAttempts /\ received'[n] <= db'[n].attempts
  BY DEF Consistent, RowHarmless, Shrinks
<1>8. \A t \in Tickers : \A m \in TickerHolds(t)' : m.n = n => Current(m)'
  BY <1>4 DEF Consistent, Shrinks
<1>9. \A i \in Unread(QueueOf[n])' : EntryCarries(i, n)' => Current(stream[QueueOf[n]][i])'
  <2> SUFFICES ASSUME NEW i \in Unread(QueueOf[n])', EntryCarries(i, n)'
               PROVE  Current(stream[QueueOf[n]][i])'
    OBVIOUS
  <2>1. Current(stream[QueueOf[n]][i]) /\ stream[QueueOf[n]][i].n = n
    BY DEF Consistent, Shrinks, EntryCarries
  <2>2. stream'[QueueOf[n]][i] = stream[QueueOf[n]][i]
    BY DEF Shrinks
  <2> QED
    BY <2>1, <2>2 DEF Current, RowHarmless
<1>10. \A w \in Workers : WorkerCarries(w, n)' => WorkerConsistent(w)'
  <2> SUFFICES ASSUME NEW w \in Workers, WorkerCarries(w, n)'
               PROVE  WorkerConsistent(w)'
    OBVIOUS
  <2>1. /\ WorkerConsistent(w)
        /\ Held(w).n = n
        /\ worker'[w].pc = worker[w].pc
        /\ Held(w)' = Held(w)
    BY DEF Consistent, Shrinks, WorkerCarries
  <2> QED
    BY <2>1 DEF WorkerConsistent, Current, Attempted, Counted, RowHarmless
<1> QED
  BY <1>3, <1>5, <1>6, <1>7, <1>8, <1>9, <1>10 DEF Consistent, RowHarmless

LEMMA ConsistentPasses ==
    ASSUME NEW n \in Notifications, Consistent(n), Passes(n)
    PROVE  Consistent(n)'
BY ConsistentShrinks DEF Passes

\* The places that a step leaves alone.
LEMMA WorkersStay ==
    ASSUME TypeOK, UNCHANGED <<worker, lastDelivered>>,
           UNCHANGED stream \/ \E m \in Message : Added(m)
    PROVE  \A w \in Workers : \A n : WorkerCarries(w, n)' =>
              WorkerCarries(w, n) /\ worker'[w].pc = worker[w].pc /\ Held(w)' = Held(w)
<1> SUFFICES ASSUME NEW w \in Workers, NEW n, WorkerCarries(w, n)'
             PROVE  Held(w)' = Held(w)
  BY DEF WorkerCarries
<1>1. Serves[w] \in Queues /\ worker[w].pos \in 1 .. lastDelivered[Serves[w]]
  BY WorkerAssumption DEF TypeOK, WorkerCarries, Delivering
<1>2. worker[w].pos \in DOMAIN stream[Serves[w]]
  BY <1>1 DEF TypeOK
<1>3. stream'[Serves[w]][worker[w].pos] = stream[Serves[w]][worker[w].pos]
  BY <1>1, <1>2, EnqueueType
<1> QED
  BY <1>3 DEF Held

LEMMA EntriesStay ==
    ASSUME UNCHANGED <<stream, lastDelivered>>, NEW n
    PROVE  \A i \in Unread(QueueOf[n])' : EntryCarries(i, n)' =>
              /\ i \in Unread(QueueOf[n])
              /\ EntryCarries(i, n)
              /\ stream'[QueueOf[n]][i] = stream[QueueOf[n]][i]
BY DEF Unread, EntryCarries

\* The one entry that an XADD adds.
LEMMA EnqueueOnce ==
    ASSUME TypeOK, NEW m \in Message, Added(m), NEW n \in Notifications
    PROVE  \A i \in Unread(QueueOf[n])' : EntryCarries(i, n)' =>
              \/ /\ i \in Unread(QueueOf[n])
                 /\ EntryCarries(i, n)
                 /\ stream'[QueueOf[n]][i] = stream[QueueOf[n]][i]
              \/ /\ m.n = n
                 /\ i = Len(stream[QueueOf[n]]) + 1
                 /\ stream'[QueueOf[n]][i] = m
<1> SUFFICES ASSUME NEW i \in Unread(QueueOf[n])', EntryCarries(i, n)'
             PROVE  \/ /\ i \in Unread(QueueOf[n])
                       /\ EntryCarries(i, n)
                       /\ stream'[QueueOf[n]][i] = stream[QueueOf[n]][i]
                    \/ /\ m.n = n
                       /\ i = Len(stream[QueueOf[n]]) + 1
                       /\ stream'[QueueOf[n]][i] = m
  OBVIOUS
<1>1. QueueOf[n] \in Queues /\ QueueOf[m.n] \in Queues
  BY QueueAssumption DEF Message
<1>2. stream' = [stream EXCEPT ![QueueOf[m.n]] = Append(stream[QueueOf[m.n]], m)]
  BY DEF Added
<1>3. lastDelivered' = lastDelivered
  BY DEF Added
<1>4. stream[QueueOf[n]] \in Seq(Message) /\ lastDelivered[QueueOf[n]] \in Nat
  BY <1>1 DEF TypeOK
<1>5. CASE QueueOf[n] # QueueOf[m.n]
  <2>1. stream'[QueueOf[n]] = stream[QueueOf[n]]
    BY <1>1, <1>2, <1>5 DEF TypeOK
  <2> QED
    BY <1>3, <2>1 DEF Unread, EntryCarries
<1>6. CASE QueueOf[n] = QueueOf[m.n]
  <2>1. stream'[QueueOf[n]] = Append(stream[QueueOf[n]], m)
    BY <1>1, <1>2, <1>6 DEF TypeOK
  <2>2. i \in (lastDelivered[QueueOf[n]] + 1) .. (Len(stream[QueueOf[n]]) + 1)
    BY <1>3, <1>4, <2>1 DEF Unread
  <2>3. CASE i = Len(stream[QueueOf[n]]) + 1
    BY <1>4, <2>1, <2>3 DEF EntryCarries
  <2>4. CASE i # Len(stream[QueueOf[n]]) + 1
    <3>1. i \in 1 .. Len(stream[QueueOf[n]]) /\ i \in Unread(QueueOf[n])
      BY <1>4, <2>2, <2>4 DEF Unread
    <3>2. stream'[QueueOf[n]][i] = stream[QueueOf[n]][i]
      BY <1>4, <2>1, <3>1
    <3> QED
      BY <3>1, <3>2 DEF EntryCarries
  <2> QED
    BY <2>3, <2>4
<1> QED
  BY <1>5, <1>6

--------------------------------------------------------------------------------
(***************************************************************************)
(* Who carries the right after a step that passes it on.                   *)
(***************************************************************************)
LEMMA OnlyRequestOrRow ==
    ASSUME NEW n \in Notifications, NEW h \in Handlers,
           \A g \in Handlers : HandlerCarries(g, n)' => g = h /\ ~RowCarries(n)',
           \A t \in Tickers : ~TickerCarries(t, n)',
           \A i \in Unread(QueueOf[n])' : ~EntryCarries(i, n)',
           \A w \in Workers : ~WorkerCarries(w, n)',
           db'[n].status # "absent", ~db'[n].providerMessageID,
           db'[n].attempts = 0, received'[n] = 0
    PROVE  Consistent(n)'
<1>1. \A p \in Carriers(n)' : \/ p = <<"request", h>> /\ ~RowCarries(n)'
                              \/ p = <<"row", n>> /\ \A g \in Handlers : ~HandlerCarries(g, n)'
  BY DEF Carriers
<1>2. \A p, q \in Carriers(n)' : p = q
  <2>1. CASE RowCarries(n)'
    BY <1>1, <2>1
  <2>2. CASE ~RowCarries(n)'
    <3>1. \A p \in Carriers(n)' : p = <<"request", h>>
      BY <2>2 DEF Carriers
    <3> QED
      BY <3>1
  <2> QED
    BY <2>1, <2>2
<1>3. \A t \in Tickers : \A m \in TickerHolds(t)' : m.n # n
  BY DEF TickerCarries
<1>4. MaxAttempts \in Nat \ {0}
  BY NotificationAssumption
<1> QED
  BY <1>2, <1>3, <1>4 DEF Consistent

LEMMA OnlyTicker ==
    ASSUME NEW n \in Notifications, NEW t \in Tickers,
           \A h \in Handlers : ~HandlerCarries(h, n)',
           ~RowCarries(n)',
           \A s \in Tickers : TickerCarries(s, n)' => s = t,
           \A m \in TickerHolds(t)' : m.n = n => Current(m)',
           \A i \in Unread(QueueOf[n])' : ~EntryCarries(i, n)',
           \A w \in Workers : ~WorkerCarries(w, n)',
           db'[n].status # "absent", ~db'[n].providerMessageID,
           db'[n].attempts <= MaxAttempts, received'[n] <= MaxAttempts
    PROVE  Consistent(n)'
<1>1. \A p \in Carriers(n)' : p = <<"ticker", t>>
  BY DEF Carriers
<1>2. \A p, q \in Carriers(n)' : p = q
  BY <1>1
<1>3. \A s \in Tickers : \A m \in TickerHolds(s)' : m.n = n => Current(m)'
  BY DEF TickerCarries
<1> QED
  BY <1>2, <1>3 DEF Consistent

LEMMA OnlyEntry ==
    ASSUME NEW n \in Notifications, NEW i,
           \A h \in Handlers : ~HandlerCarries(h, n)',
           ~RowCarries(n)',
           \A t \in Tickers : ~TickerCarries(t, n)',
           \A j \in Unread(QueueOf[n])' : EntryCarries(j, n)' =>
              j = i /\ Current(stream[QueueOf[n]][i])',
           \A w \in Workers : ~WorkerCarries(w, n)',
           db'[n].status # "absent", ~db'[n].providerMessageID,
           db'[n].attempts <= MaxAttempts, received'[n] <= MaxAttempts
    PROVE  Consistent(n)'
<1>1. \A p \in Carriers(n)' : p = <<"entry", i>>
  BY DEF Carriers
<1>2. \A p, q \in Carriers(n)' : p = q
  BY <1>1
<1>3. \A t \in Tickers : \A m \in TickerHolds(t)' : m.n # n
  BY DEF TickerCarries
<1> QED
  BY <1>2, <1>3 DEF Consistent

LEMMA OnlyWorkerOrRow ==
    ASSUME NEW n \in Notifications, NEW w \in Workers,
           \A h \in Handlers : ~HandlerCarries(h, n)',
           RowCarries(n)' => /\ db'[n].attempts < MaxAttempts
                             /\ received'[n] <= db'[n].attempts
                             /\ ~WorkerCarries(w, n)'
                             /\ ~db'[n].providerMessageID,
           \A t \in Tickers : ~TickerCarries(t, n)',
           \A i \in Unread(QueueOf[n])' : ~EntryCarries(i, n)',
           \A v \in Workers : WorkerCarries(v, n)' => v = w,
           WorkerCarries(w, n)' => WorkerConsistent(w)' /\ ~db'[n].providerMessageID,
           db'[n].status # "absent",
           db'[n].attempts <= MaxAttempts, received'[n] <= MaxAttempts
    PROVE  Consistent(n)'
<1>1. \A p, q \in Carriers(n)' : p = q
  <2>1. CASE RowCarries(n)'
    <3>1. \A p \in Carriers(n)' : p = <<"row", n>>
      BY <2>1 DEF Carriers
    <3> QED
      BY <3>1
  <2>2. CASE ~RowCarries(n)'
    <3>1. \A p \in Carriers(n)' : p = <<"worker", w>>
      BY <2>2 DEF Carriers
    <3> QED
      BY <3>1
  <2> QED
    BY <2>1, <2>2
<1>2. db'[n].providerMessageID => Carriers(n)' = {}
  <2> SUFFICES ASSUME db'[n].providerMessageID PROVE Carriers(n)' = {}
    OBVIOUS
  <2>1. ~RowCarries(n)' /\ \A v \in Workers : ~WorkerCarries(v, n)'
    OBVIOUS
  <2> QED
    BY <2>1 DEF Carriers
<1>3. \A t \in Tickers : \A m \in TickerHolds(t)' : m.n # n
  BY DEF TickerCarries
<1> QED
  BY <1>1, <1>2, <1>3 DEF Consistent

--------------------------------------------------------------------------------
(***************************************************************************)
(* Requests.                                                               *)
(***************************************************************************)
\* A request that goes on without giving the right to anybody.
LEMMA HandlerKeeps ==
    ASSUME IInv, NEW h \in Handlers, NEW x,
           UNCHANGED <<stream, lastDelivered, received, ticker, worker>>,
           handler' = [handler EXCEPT ![h] = x],
           x.todo \ Scheduled \subseteq handler[h].todo \ Scheduled,
           \A n \in Notifications : RowHarmless(n) /\ (RowCarries(n)' => RowCarries(n)),
           NEW n \in Notifications
    PROVE  Shrinks(n) /\ RowHarmless(n)
<1>1. \A g \in Handlers : HandlerCarries(g, n)' => HandlerCarries(g, n)
  BY DEF HandlerCarries, IInv, TypeOK
<1>2. \A t \in Tickers : \A m \in TickerHolds(t)' : m.n = n => m \in TickerHolds(t)
  BY DEF TickerHolds
<1>3. \A w \in Workers : WorkerCarries(w, n)' =>
         WorkerCarries(w, n) /\ worker'[w].pc = worker[w].pc /\ Held(w)' = Held(w)
  BY WorkersStay DEF IInv
<1> QED
  BY <1>1, <1>2, <1>3, EntriesStay DEF Shrinks

LEMMA SameRow ==
    ASSUME NEW n \in Notifications, db'[n] = db[n], received'[n] = received[n]
    PROVE  RowHarmless(n) /\ (RowCarries(n)' => RowCarries(n))
BY DEF RowHarmless, RowCarries

\* UpdateStatus to "queued", or Cancel: the row is nobody's to claim any more.
LEMMA RowLeaves ==
    ASSUME TypeOK, NEW m \in Notifications, NEW status \in {"queued", "cancelled"},
           \/ db' = db
           \/ UpdateStatus(m, status, FALSE)
           \/ db' = [db EXCEPT ![m].status = status],
           received' = received,
           NEW n \in Notifications
    PROVE  RowHarmless(n) /\ (RowCarries(n)' => RowCarries(n))
<1>1. CASE n # m
  BY <1>1, SameRow DEF UpdateStatus, TypeOK
<1>2. CASE db' = db
  BY <1>2, SameRow
<1>3. CASE n = m /\ db' # db
  <2>1. db \in [Notifications -> Row] /\ db[n] \in Row
    BY DEF TypeOK
  <2>2. \/ db'[n] = [db[n] EXCEPT !.status = status,
                               !.providerMessageID = @ \/ FALSE]
        \/ db'[n] = [db[n] EXCEPT !.status = status]
    BY <1>3, <2>1 DEF UpdateStatus
  <2>3. /\ db'[n].status = status
        /\ db'[n].attempts = db[n].attempts
        /\ db'[n].nextRetryAt = db[n].nextRetryAt
    BY <2>1, <2>2 DEF Row
  <2>4. db'[n].providerMessageID => db[n].providerMessageID
    BY <2>1, <2>2 DEF Row
  <2> QED
    BY <1>3, <2>3, <2>4 DEF RowHarmless, RowCarries
<1> QED
  BY <1>1, <1>2, <1>3

\* The insert concerns the rows of its batch, which is empty when it fails.
LEMMA PersistForms ==
    ASSUME IInv, NEW h \in Handlers, HandlerPersist(h),
           UNCHANGED <<received, ticker, worker, ctx>>
    PROVE  \E batch \in SUBSET Notifications :
              /\ batch = {} \/ (CanInsert(batch) /\ CreateBatch(batch))
              /\ handler'[h].todo \subseteq batch
              /\ \A g \in Handlers : g # h => handler'[g] = handler[g]
              /\ \A n \in Notifications \ batch :
                    db'[n] = db[n] /\ Shrinks(n) /\ RowHarmless(n)
<1>1. PICK batch \in SUBSET Notifications \ {{}}, o \in RequestOutcomes :
         /\ CanInsert(batch)
         /\ IF Applied(o) THEN CreateBatch(batch) ELSE UNCHANGED db
         /\ IF Returned(o)
            THEN handler' = [handler EXCEPT ![h] = [pc   |-> "broadcastPending",
                                                    todo |-> batch,
                                                    cur  |-> Nil]]
            ELSE UNCHANGED handler
  BY DEF HandlerPersist
<1>2. PICK new : new = IF Applied(o) THEN batch ELSE {}
  OBVIOUS
<1>3. /\ TypeOK
      /\ handler \in [Handlers -> HandlerState]
      /\ handler[h].todo = {}
      /\ UNCHANGED <<stream, lastDelivered, worker, ticker, received>>
  BY DEF HandlerPersist, queueVars, IInv, TypeOK, RequestConsistent
<1>4. Applied(o) \/ ~Returned(o)
  BY DEF Applied, Returned
<1>5. new \in SUBSET Notifications
  BY <1>1, <1>2
<1>6. new = {} \/ (CanInsert(new) /\ CreateBatch(new))
  BY <1>1, <1>2
<1>7. handler'[h].todo \subseteq new
  BY <1>1, <1>2, <1>3, <1>4
<1>8. \A g \in Handlers : g # h => handler'[g] = handler[g]
  BY <1>1, <1>3
<1>9. ASSUME NEW n \in Notifications \ new
      PROVE  db'[n] = db[n] /\ Shrinks(n) /\ RowHarmless(n)
  <2>1. db'[n] = db[n]
    BY <1>1, <1>2, <1>9 DEF CreateBatch
  <2>2. \A g \in Handlers : HandlerCarries(g, n)' => HandlerCarries(g, n)
    BY <1>7, <1>8, <1>9 DEF HandlerCarries
  <2>3. RowHarmless(n) /\ (RowCarries(n)' => RowCarries(n))
    BY <1>3, <2>1, SameRow
  <2>4. \A t \in Tickers : TickerHolds(t)' = TickerHolds(t)
    BY <1>3 DEF TickerHolds
  <2>5. \A w \in Workers : WorkerCarries(w, n)' =>
           WorkerCarries(w, n) /\ worker'[w].pc = worker[w].pc /\ Held(w)' = Held(w)
    BY <1>3, WorkersStay
  <2> QED
    BY <1>3, <2>1, <2>2, <2>3, <2>4, <2>5, EntriesStay DEF Shrinks
<1> QED
  BY <1>5, <1>6, <1>7, <1>8, <1>9

LEMMA PersistStep ==
    ASSUME IInv, NEW h \in Handlers, HandlerPersist(h), NEW n \in Notifications,
           UNCHANGED <<received, ticker, worker, ctx>>, resent[n] = 0
    PROVE  Passes(n)
<1>1. PICK batch \in SUBSET Notifications :
         /\ batch = {} \/ (CanInsert(batch) /\ CreateBatch(batch))
         /\ handler'[h].todo \subseteq batch
         /\ \A g \in Handlers : g # h => handler'[g] = handler[g]
         /\ \A k \in Notifications \ batch :
               db'[k] = db[k] /\ Shrinks(k) /\ RowHarmless(k)
  BY PersistForms
<1>2. /\ TypeOK
      /\ Consistent(n)
      /\ UNCHANGED <<stream, lastDelivered, worker, ticker, received>>
  BY DEF HandlerPersist, queueVars, IInv
<1>3. \A t \in Tickers : TickerHolds(t)' = TickerHolds(t)
  BY <1>2 DEF TickerHolds
<1>4. \A w \in Workers : WorkerCarries(w, n)' =>
         WorkerCarries(w, n) /\ worker'[w].pc = worker[w].pc /\ Held(w)' = Held(w)
  BY <1>2, WorkersStay
<1>5. \A i \in Unread(QueueOf[n])' : EntryCarries(i, n)' =>
         /\ i \in Unread(QueueOf[n])
         /\ EntryCarries(i, n)
         /\ stream'[QueueOf[n]][i] = stream[QueueOf[n]][i]
  BY <1>2, EntriesStay
<1>7. CASE n \notin batch
  BY <1>1, <1>7 DEF Passes
<1>8. CASE n \in batch
  <2>1. db[n].status = "absent"
    BY <1>1, <1>8 DEF CanInsert, Exists
  <2>2. NobodyCarries(n) /\ received[n] = 0
    BY <1>2, <2>1, NoCarriers DEF Consistent
  <2>3. db'[n] = NewNotification(n)
    BY <1>1, <1>8 DEF CreateBatch
  <2>4. /\ db'[n].status = "pending"
        /\ db'[n].attempts = 0
        /\ ~db'[n].providerMessageID
        /\ db'[n].scheduledAt # "null" => n \in Scheduled
    BY <2>3 DEF NewNotification
  <2>5. \A g \in Handlers : HandlerCarries(g, n)' => g = h /\ n \notin Scheduled
    BY <1>1, <2>2 DEF HandlerCarries, NobodyCarries
  <2>6. RowCarries(n)' => n \in Scheduled
    BY <2>4 DEF RowCarries
  <2>7. \A t \in Tickers : ~TickerCarries(t, n)'
    BY <1>3, <2>2 DEF NobodyCarries, TickerCarries
  <2>8. \A i \in Unread(QueueOf[n])' : ~EntryCarries(i, n)'
    BY <1>5, <2>2 DEF NobodyCarries
  <2>9. \A w \in Workers : ~WorkerCarries(w, n)'
    BY <1>4, <2>2 DEF NobodyCarries
  <2>10. \A g \in Handlers : HandlerCarries(g, n)' => g = h /\ ~RowCarries(n)'
    BY <2>5, <2>6
  <2>11. received'[n] = 0
    BY <1>2, <2>2
  <2>12. Consistent(n)'
    BY <2>4, <2>7, <2>8, <2>9, <2>10, <2>11, OnlyRequestOrRow
  <2> QED
    BY <2>1, <2>12 DEF Passes, Exists
<1> QED
  BY <1>7, <1>8

\* The entry of an XADD is the only carrier of its notification, when whoever
\* added it was the only one before and has given it up.
LEMMA EntryAlone ==
    ASSUME IInv, NEW m \in Message, Added(m), Current(m),
           UNCHANGED <<db, received, worker>>,
           NEW n \in Notifications, m.n = n, resent[n] = 0,
           db[n].status # "absent", ~db[n].providerMessageID,
           ~RowCarries(n),
           \A i \in Unread(QueueOf[n]) : ~EntryCarries(i, n),
           \A w \in Workers : ~WorkerCarries(w, n),
           \A h \in Handlers : ~HandlerCarries(h, n)',
           \A t \in Tickers : ~TickerCarries(t, n)'
    PROVE  Consistent(n)'
<1>1. TypeOK /\ Consistent(n)
  BY DEF IInv
<1>2. PICK i : i = Len(stream[QueueOf[n]]) + 1
  OBVIOUS
<1>3. \A j \in Unread(QueueOf[n])' : EntryCarries(j, n)' =>
         j = i /\ stream'[QueueOf[n]][i] = m
  BY <1>1, <1>2, EnqueueOnce
<1>4. \A j \in Unread(QueueOf[n])' : EntryCarries(j, n)' =>
         j = i /\ Current(stream[QueueOf[n]][i])'
  <2> SUFFICES ASSUME NEW j \in Unread(QueueOf[n])', EntryCarries(j, n)'
               PROVE  j = i /\ Current(stream[QueueOf[n]][i])'
    OBVIOUS
  <2>1. j = i /\ stream'[QueueOf[n]][i] = m
    BY <1>3
  <2>2. db' = db /\ received' = received
    OBVIOUS
  <2> QED
    BY <2>1, <2>2 DEF Current
<1>5. \A w \in Workers : ~WorkerCarries(w, n)'
  BY <1>1, WorkersStay DEF Added
<1>6. ~RowCarries(n)'
  BY DEF RowCarries
<1>7. db'[n].attempts <= MaxAttempts /\ received'[n] <= MaxAttempts
  BY <1>1 DEF Consistent
<1>8. db'[n].status # "absent" /\ ~db'[n].providerMessageID
  OBVIOUS
<1> QED
  BY <1>4, <1>5, <1>6, <1>7, <1>8, OnlyEntry

\* ... and everybody else's carriers are as they were.
LEMMA EntryOfAnother ==
    ASSUME IInv, NEW m \in Message, Added(m), UNCHANGED <<db, received, worker>>,
           NEW n \in Notifications, n # m.n,
           \A h \in Handlers : HandlerCarries(h, n)' => HandlerCarries(h, n),
           \A t \in Tickers : TickerHolds(t)' \subseteq TickerHolds(t)
    PROVE  Shrinks(n) /\ RowHarmless(n)
<1>1. TypeOK
  BY DEF IInv
<1>2. RowHarmless(n) /\ (RowCarries(n)' => RowCarries(n))
  BY SameRow
<1>3. \A w \in Workers : WorkerCarries(w, n)' =>
         WorkerCarries(w, n) /\ worker'[w].pc = worker[w].pc /\ Held(w)' = Held(w)
  BY <1>1, WorkersStay DEF Added
<1>4. \A i \in Unread(QueueOf[n])' : EntryCarries(i, n)' =>
         /\ i \in Unread(QueueOf[n])
         /\ EntryCarries(i, n)
         /\ stream'[QueueOf[n]][i] = stream[QueueOf[n]][i]
  BY <1>1, EnqueueOnce
<1> QED
  BY <1>2, <1>3, <1>4 DEF Shrinks

\* The XADD of a request adds an entry of one notification, or none.
LEMMA HandlerEnqueueForms ==
    ASSUME IInv, NEW h \in Handlers, HandlerEnqueue(h),
           UNCHANGED <<received, ticker, worker, ctx>>
    PROVE  \E k \in handler[h].todo \ Scheduled :
              /\ handler'[h].todo = handler[h].todo \ {k}
              /\ \A g \in Handlers : g # h => handler'[g] = handler[g]
              /\ UNCHANGED <<db, worker, ticker, received, resent>>
              /\ \/ UNCHANGED <<stream, lastDelivered>>
                 \/ Added([n |-> k, attempts |-> 0])
              /\ \A n \in Notifications :
                    n # k \/ UNCHANGED stream => Shrinks(n) /\ RowHarmless(n)
<1>1. PICK k \in handler[h].todo, o \in EnqueueOutcomes(RequestOutcomes) :
         /\ IF Applied(o) THEN Enqueue([n |-> k, attempts |-> 0]) ELSE UNCHANGED queueVars
         /\ handler' = [handler EXCEPT ![h] =
               IF Returned(o)
               THEN [pc |-> "markQueued", todo |-> handler[h].todo \ {k}, cur |-> k]
               ELSE Continue(handler[h].todo \ {k})]
  BY DEF HandlerEnqueue
<1>2. /\ TypeOK
      /\ UNCHANGED <<db, worker, ticker, received, resent>>
      /\ handler[h].pc = "enqueue"
      /\ handler \in [Handlers -> HandlerState]
  BY <1>1 DEF HandlerEnqueue, IInv, TypeOK, Enqueue, queueVars
<1>3. k \in Notifications /\ k \notin Scheduled /\ [n |-> k, attempts |-> 0] \in Message
  BY <1>2 DEF IInv, RequestConsistent, HandlerState, Message
<1>4. handler'[h].todo = handler[h].todo \ {k}
  BY <1>1, <1>2 DEF Continue, IdleHandler
<1>5. \A g \in Handlers : g # h => handler'[g] = handler[g]
  BY <1>1, <1>2
<1>6. UNCHANGED <<stream, lastDelivered>> \/ Added([n |-> k, attempts |-> 0])
  BY <1>1, EnqueueAdds DEF queueVars
<1>7. \A t \in Tickers : TickerHolds(t)' = TickerHolds(t)
  BY <1>2 DEF TickerHolds
<1>8. UNCHANGED lastDelivered
  BY <1>6 DEF Added
<1>9. ASSUME NEW n \in Notifications, n # k \/ UNCHANGED stream
      PROVE  Shrinks(n) /\ RowHarmless(n)
  <2>1. \A g \in Handlers : HandlerCarries(g, n)' => HandlerCarries(g, n)
    BY <1>4, <1>5 DEF HandlerCarries
  <2>2. CASE UNCHANGED stream
    <3>1. RowHarmless(n) /\ (RowCarries(n)' => RowCarries(n))
      BY <1>2, SameRow
    <3>2. \A w \in Workers : WorkerCarries(w, n)' =>
             WorkerCarries(w, n) /\ worker'[w].pc = worker[w].pc /\ Held(w)' = Held(w)
      BY <1>2, <1>8, <2>2, WorkersStay
    <3> QED
      BY <1>7, <1>8, <2>1, <2>2, <3>1, <3>2, EntriesStay DEF Shrinks
  <2>3. CASE n # k /\ Added([n |-> k, attempts |-> 0])
    <3>1. PICK m : m = [n |-> k, attempts |-> 0]
      OBVIOUS
    <3>2. m \in Message /\ Added(m) /\ n # m.n
      BY <1>3, <2>3, <3>1
    <3> QED
      BY <1>2, <1>7, <2>1, <3>2, EntryOfAnother
  <2> QED
    BY <1>6, <1>9, <2>2, <2>3
<1> QED
  BY <1>2, <1>3, <1>4, <1>5, <1>6, <1>9

LEMMA HandlerEnqueueStep ==
    ASSUME IInv, NEW h \in Handlers, HandlerEnqueue(h), NEW n \in Notifications,
           UNCHANGED <<received, ticker, worker, ctx>>, resent[n] = 0
    PROVE  Passes(n)
<1>1. PICK k \in handler[h].todo \ Scheduled :
         /\ handler'[h].todo = handler[h].todo \ {k}
         /\ \A g \in Handlers : g # h => handler'[g] = handler[g]
         /\ UNCHANGED <<db, worker, ticker, received, resent>>
         /\ \/ UNCHANGED <<stream, lastDelivered>>
            \/ Added([n |-> k, attempts |-> 0])
         /\ \A i \in Notifications :
               i # k \/ UNCHANGED stream => Shrinks(i) /\ RowHarmless(i)
  BY HandlerEnqueueForms
<1> DEFINE m == [n |-> k, attempts |-> 0]
<1>2. TypeOK /\ handler \in [Handlers -> HandlerState]
  BY DEF IInv, TypeOK
<1>3. k \in Notifications /\ k \notin Scheduled /\ m \in Message
  BY <1>2 DEF HandlerState, Message
<1>8. \A t \in Tickers : TickerHolds(t)' = TickerHolds(t)
  BY <1>1 DEF TickerHolds
<1>10. CASE n # k \/ UNCHANGED stream
  BY <1>1, <1>10 DEF Passes
<1>11. CASE n = k /\ Added(m)
  <2>1. n = k /\ Added(m)
    BY <1>11
  <2>3. Passes(n)
    <3>1. HandlerCarries(h, k)
      BY <1>3 DEF HandlerCarries
    <3>2. Consistent(k)
      BY <1>3, <2>1 DEF IInv
    <3>3. \A p, q \in Carriers(k) : p = q
      BY <3>2 DEF Consistent
    <3>4. /\ \A g \in Handlers : HandlerCarries(g, k) => g = h
          /\ ~RowCarries(k)
          /\ \A t \in Tickers : ~TickerCarries(t, k)
          /\ \A i \in Unread(QueueOf[k]) : ~EntryCarries(i, k)
          /\ \A w \in Workers : ~WorkerCarries(w, k)
      BY <3>1, <3>3, SoleRequest
    <3>5. Carriers(k) # {}
      BY <3>1, Members
    <3>6. /\ db[k].status # "absent" /\ ~db[k].providerMessageID
          /\ db[k].attempts = 0 /\ received[k] = 0
      BY <3>1, <3>2, <3>5 DEF Consistent
    <3>7. Current(m)
      BY <3>6, NotificationAssumption DEF Current
    <3>8. \A g \in Handlers : ~HandlerCarries(g, k)'
      BY <1>1, <3>4 DEF HandlerCarries
    <3>9. \A t \in Tickers : ~TickerCarries(t, k)'
      BY <1>8, <3>4 DEF TickerCarries
    <3>10. m.n = k
      OBVIOUS
    <3>11. Consistent(n)'
      <4> HIDE DEF m
      <4> QED
        BY <1>1, <1>3, <2>1, <3>4, <3>6, <3>7, <3>8, <3>9, <3>10, EntryAlone
    <3> QED
      BY <2>1, <3>1, <3>11 DEF Passes, NobodyCarries
  <2> QED
    BY <2>3
<1> QED
  BY <1>1, <1>10, <1>11

\* An XADD that the Redis client is about to send again touches one notification.
LEMMA HandlerResendForms ==
    ASSUME IInv, NEW h \in Handlers, HandlerResend(h),
           UNCHANGED <<received, ticker, worker, ctx>>
    PROVE  \E k \in handler[h].todo :
              /\ EnqueueUnanswered([n |-> k, attempts |-> 0])
              /\ \A g \in Handlers : handler'[g].todo = handler[g].todo
              /\ UNCHANGED <<db, worker, ticker, received>>
              /\ \A n \in Notifications : n # k => Shrinks(n) /\ RowHarmless(n)
<1>1. PICK k \in handler[h].todo :
         /\ EnqueueUnanswered([n |-> k, attempts |-> 0])
         /\ handler' = [handler EXCEPT ![h].cur = k]
  BY DEF HandlerResend
<1>2. PICK m : m = [n |-> k, attempts |-> 0]
  OBVIOUS
<1>3. /\ TypeOK
      /\ UNCHANGED <<db, worker, ticker, received>>
      /\ handler \in [Handlers -> HandlerState]
  BY DEF HandlerResend, IInv, TypeOK
<1>4. k \in Notifications /\ m \in Message /\ m.n = k
  BY <1>2, <1>3 DEF HandlerState, Message
<1>6. Added(m)
  BY <1>1, <1>2, EnqueueAdds
<1>7. \A g \in Handlers : handler'[g].todo = handler[g].todo
  BY <1>1, <1>3 DEF HandlerState
<1>8. ASSUME NEW n \in Notifications, n # k
      PROVE  Shrinks(n) /\ RowHarmless(n)
  <2>1. \A g \in Handlers : HandlerCarries(g, n)' => HandlerCarries(g, n)
    BY <1>7 DEF HandlerCarries
  <2>2. \A t \in Tickers : TickerHolds(t)' = TickerHolds(t)
    BY <1>3 DEF TickerHolds
  <2> QED
    BY <1>3, <1>4, <1>6, <1>8, <2>1, <2>2, EntryOfAnother
<1> QED
  BY <1>1, <1>3, <1>7, <1>8

LEMMA HandlerResendStep ==
    ASSUME IInv, NEW h \in Handlers, HandlerResend(h), NEW n \in Notifications,
           UNCHANGED <<received, ticker, worker, ctx>>, resent'[n] = 0
    PROVE  Shrinks(n) /\ RowHarmless(n)
<1>1. PICK k \in handler[h].todo :
         /\ EnqueueUnanswered([n |-> k, attempts |-> 0])
         /\ \A i \in Notifications : i # k => Shrinks(i) /\ RowHarmless(i)
  BY HandlerResendForms
<1>2. resent \in [Notifications -> Nat] /\ k \in Notifications
  BY DEF IInv, TypeOK, HandlerState
<1> QED
  BY <1>1, <1>2 DEF EnqueueUnanswered

\* The steps of a request that give the right to nobody.
LEMMA HandlerOtherStep ==
    ASSUME IInv, NEW h \in Handlers,
           \/ HandlerBroadcastPending(h) \/ HandlerMarkQueued(h)
           \/ HandlerBroadcastQueued(h) \/ HandlerCancel(h)
           \/ HandlerBroadcastCancelled(h) \/ HandlerDisconnect(h),
           UNCHANGED <<received, ticker, worker, ctx>>, NEW n \in Notifications
    PROVE  Shrinks(n) /\ RowHarmless(n)
<1>1. /\ TypeOK
      /\ UNCHANGED <<stream, lastDelivered, received, ticker, worker>>
  BY DEF IInv, queueVars, HandlerBroadcastPending, HandlerMarkQueued,
         HandlerBroadcastQueued, HandlerCancel, HandlerBroadcastCancelled, HandlerDisconnect
<1>2. handler \in [Handlers -> HandlerState] /\ handler[h] \in HandlerState
  BY <1>1 DEF TypeOK
<1>3. \A rest : Continue(rest).todo = rest
  BY DEF Continue, IdleHandler
<1>4. \E x : /\ handler' = [handler EXCEPT ![h] = x]
             /\ x.todo \ Scheduled \subseteq handler[h].todo \ Scheduled
  <2>1. CASE HandlerBroadcastPending(h)
    <3>1. handler' = [handler EXCEPT ![h] = Continue(handler[h].todo \ Scheduled)]
      BY <2>1 DEF HandlerBroadcastPending
    <3>2. Continue(handler[h].todo \ Scheduled).todo \ Scheduled
             \subseteq handler[h].todo \ Scheduled
      BY <1>3
    <3> QED
      BY <3>1, <3>2
  <2>2. CASE HandlerMarkQueued(h)
    <3>1. PICK o : handler' = [handler EXCEPT ![h] =
                     IF Returned(o) THEN [@ EXCEPT !.pc = "broadcastQueued"]
                                    ELSE Continue(@.todo)]
      BY <2>2 DEF HandlerMarkQueued
    <3>2. [handler[h] EXCEPT !.pc = "broadcastQueued"].todo = handler[h].todo
      BY <1>2 DEF HandlerState
    <3> QED
      BY <1>3, <3>1, <3>2
  <2>3. CASE HandlerBroadcastQueued(h)
    BY <1>3, <2>3 DEF HandlerBroadcastQueued
  <2>4. CASE HandlerCancel(h)
    <3>1. PICK k, o : IF Returned(o)
                      THEN handler' = [handler EXCEPT ![h] = [pc   |-> "broadcastCancelled",
                                                              todo |-> {},
                                                              cur  |-> k]]
                      ELSE UNCHANGED handler
      BY <2>4 DEF HandlerCancel
    <3>2. handler = [handler EXCEPT ![h] = handler[h]]
      BY <1>2
    <3> QED
      BY <3>1, <3>2
  <2>5. CASE HandlerBroadcastCancelled(h) \/ HandlerDisconnect(h)
    <3>1. handler' = [handler EXCEPT ![h] = IdleHandler]
      BY <2>5 DEF HandlerBroadcastCancelled, HandlerDisconnect
    <3>2. IdleHandler.todo \ Scheduled \subseteq handler[h].todo \ Scheduled
      BY DEF IdleHandler
    <3> QED
      BY <3>1, <3>2
  <2> QED
    BY <2>1, <2>2, <2>3, <2>4, <2>5
<1>5. \E m \in Notifications, status \in {"queued", "cancelled"} :
         \/ db' = db
         \/ UpdateStatus(m, status, FALSE)
         \/ db' = [db EXCEPT ![m].status = status]
  <2>1. CASE HandlerMarkQueued(h)
    <3>1. handler[h].cur \in Notifications
      BY <1>1, <1>2, <2>1 DEF TypeOK, HandlerState, HandlerMarkQueued
    <3>2. UpdateStatus(handler[h].cur, "queued", FALSE) \/ db' = db
      BY <2>1 DEF HandlerMarkQueued
    <3> QED
      BY <3>1, <3>2
  <2>2. CASE HandlerCancel(h)
    BY <2>2 DEF HandlerCancel, Cancel
  <2>3. CASE db' = db
    BY <2>3
  <2> QED
    BY <2>1, <2>2, <2>3 DEF HandlerBroadcastPending, HandlerBroadcastQueued,
                            HandlerBroadcastCancelled, HandlerDisconnect
<1>6. \A k \in Notifications : RowHarmless(k) /\ (RowCarries(k)' => RowCarries(k))
  BY <1>1, <1>5, RowLeaves
<1> QED
  BY <1>1, <1>4, <1>6, HandlerKeeps

LEMMA HandlerPasses ==
    ASSUME IInv, NEW h \in Handlers, HandlerNext(h), NEW n \in Notifications,
           resent[n] = 0, resent'[n] = 0
    PROVE  Passes(n)
BY PersistStep, HandlerEnqueueStep, HandlerResendStep, HandlerOtherStep
   DEF Passes, HandlerNext, HandlerStep, HandlerProceed

\* What a request has still to enqueue stays unscheduled, and it ends with nothing.
LEMMA RequestsConsistent ==
    ASSUME IInv, NEW h \in Handlers, HandlerNext(h)
    PROVE  \A g \in Handlers : RequestConsistent(handler'[g])
<1>1. /\ handler \in [Handlers -> HandlerState]
      /\ \A g \in Handlers : RequestConsistent(handler[g])
  BY DEF IInv, TypeOK
<1>2. \A rest : rest \cap Scheduled = {} => RequestConsistent(Continue(rest))
  BY DEF Continue, IdleHandler, RequestConsistent
<1>3. RequestConsistent(IdleHandler)
  BY DEF IdleHandler, RequestConsistent
<1>4. \E x : (handler' = handler \/ handler' = [handler EXCEPT ![h] = x]) /\ RequestConsistent(x)
  <2>1. CASE HandlerPersist(h)
    <3>1. PICK batch, o : IF Returned(o)
                          THEN handler' = [handler EXCEPT ![h] = [pc   |-> "broadcastPending",
                                                                  todo |-> batch,
                                                                  cur  |-> Nil]]
                          ELSE UNCHANGED handler
      BY <2>1 DEF HandlerPersist
    <3> QED
      BY <1>3, <3>1 DEF RequestConsistent
  <2>2. CASE HandlerBroadcastPending(h)
    BY <1>2, <2>2 DEF HandlerBroadcastPending
  <2>3. CASE HandlerEnqueue(h)
    <3>1. PICK k, o : handler' = [handler EXCEPT ![h] =
             IF Returned(o)
             THEN [pc |-> "markQueued", todo |-> handler[h].todo \ {k}, cur |-> k]
             ELSE Continue(handler[h].todo \ {k})]
      BY <2>3 DEF HandlerEnqueue
    <3>2. (handler[h].todo \ {k}) \cap Scheduled = {}
      BY <1>1, <2>3 DEF HandlerEnqueue, RequestConsistent
    <3>3. /\ RequestConsistent([pc |-> "markQueued", todo |-> handler[h].todo \ {k}, cur |-> k])
          /\ RequestConsistent(Continue(handler[h].todo \ {k}))
      BY <1>2, <3>2 DEF RequestConsistent
    <3>4. CASE Returned(o)
      BY <3>1, <3>3, <3>4
    <3>5. CASE ~Returned(o)
      BY <3>1, <3>3, <3>5
    <3> QED
      BY <3>4, <3>5
  <2>4. CASE HandlerMarkQueued(h)
    <3>1. PICK o : handler' = [handler EXCEPT ![h] =
                     IF Returned(o) THEN [@ EXCEPT !.pc = "broadcastQueued"]
                                    ELSE Continue(@.todo)]
      BY <2>4 DEF HandlerMarkQueued
    <3>2. handler[h].todo \cap Scheduled = {}
      BY <1>1, <2>4 DEF HandlerMarkQueued, RequestConsistent
    <3>3. RequestConsistent([handler[h] EXCEPT !.pc = "broadcastQueued"])
      BY <1>1, <3>2 DEF HandlerState, RequestConsistent
    <3> QED
      BY <1>2, <3>1, <3>2, <3>3
  <2>5. CASE HandlerBroadcastQueued(h)
    <3>1. handler' = [handler EXCEPT ![h] = Continue(handler[h].todo)]
      BY <2>5 DEF HandlerBroadcastQueued
    <3>2. RequestConsistent(Continue(handler[h].todo))
      BY <1>1, <1>2, <2>5 DEF HandlerBroadcastQueued, RequestConsistent
    <3> QED
      BY <3>1, <3>2
  <2>6. CASE HandlerCancel(h)
    <3>1. PICK k, o : IF Returned(o)
                      THEN handler' = [handler EXCEPT ![h] = [pc   |-> "broadcastCancelled",
                                                              todo |-> {},
                                                              cur  |-> k]]
                      ELSE UNCHANGED handler
      BY <2>6 DEF HandlerCancel
    <3> QED
      BY <1>3, <3>1 DEF RequestConsistent
  <2>7. CASE HandlerBroadcastCancelled(h) \/ HandlerDisconnect(h)
    BY <1>3, <2>7 DEF HandlerBroadcastCancelled, HandlerDisconnect
  <2>8. CASE HandlerResend(h)
    <3>1. PICK k : handler' = [handler EXCEPT ![h].cur = k]
      BY <2>8 DEF HandlerResend
    <3>2. PICK x : x = [handler[h] EXCEPT !.cur = k]
      OBVIOUS
    <3>3. handler' = [handler EXCEPT ![h] = x]
      BY <3>1, <3>2
    <3>4. x.pc = handler[h].pc /\ x.todo = handler[h].todo
      BY <1>1, <3>2 DEF HandlerState
    <3>5. RequestConsistent(x)
      BY <1>1, <3>4 DEF RequestConsistent
    <3> QED
      BY <3>3, <3>5
  <2> QED
    BY <2>1, <2>2, <2>3, <2>4, <2>5, <2>6, <2>7, <2>8
       DEF HandlerNext, HandlerStep, HandlerProceed
<1> QED
  BY <1>1, <1>4

--------------------------------------------------------------------------------
(***************************************************************************)
(* Tickers.                                                                *)
(***************************************************************************)
\* What a ticker's step leaves alone.
LEMMA TickerFrame ==
    ASSUME TypeOK, UNCHANGED <<stream, lastDelivered, worker, handler>>, NEW n \in Notifications
    PROVE  /\ \A h \in Handlers : HandlerCarries(h, n)' => HandlerCarries(h, n)
           /\ \A i \in Unread(QueueOf[n])' : EntryCarries(i, n)' =>
                 /\ i \in Unread(QueueOf[n])
                 /\ EntryCarries(i, n)
                 /\ stream'[QueueOf[n]][i] = stream[QueueOf[n]][i]
           /\ \A w \in Workers : WorkerCarries(w, n)' =>
                 WorkerCarries(w, n) /\ worker'[w].pc = worker[w].pc /\ Held(w)' = Held(w)
<1>1. \A h \in Handlers : HandlerCarries(h, n)' => HandlerCarries(h, n)
  BY DEF HandlerCarries
<1> QED
  BY <1>1, EntriesStay, WorkersStay

LEMMA MarkedRow ==
    ASSUME TypeOK, NEW batch \in SUBSET Notifications, MarkFetched(batch),
           received' = received, NEW n \in Notifications
    PROVE  /\ RowHarmless(n) /\ (RowCarries(n)' => RowCarries(n))
           /\ n \in batch => /\ db'[n].status = "queued"
                             /\ db'[n].attempts = db[n].attempts
                             /\ db'[n].providerMessageID = db[n].providerMessageID
<1>1. CASE n \notin batch
  BY <1>1, SameRow DEF MarkFetched
<1>2. CASE n \in batch
  <2>1. db[n] \in Row /\ db'[n] = [db[n] EXCEPT !.status = "queued"]
    BY <1>2 DEF MarkFetched, TypeOK
  <2>2. /\ db'[n].status = "queued"
        /\ db'[n].attempts = db[n].attempts
        /\ db'[n].nextRetryAt = db[n].nextRetryAt
        /\ db'[n].providerMessageID = db[n].providerMessageID
    BY <2>1 DEF Row
  <2> QED
    BY <2>2 DEF RowHarmless, RowCarries
<1> QED
  BY <1>1, <1>2

\* A fetch concerns the rows it claims, and what it does not return is lost.
LEMMA FetchForms ==
    ASSUME IInv, NEW t \in Tickers, NEW ready \in SUBSET Notifications, Fetch(t, ready),
           UNCHANGED <<announced, received, handler, worker, ctx>>
    PROVE  \E batch \in SUBSET ready :
              /\ batch = {} \/ (/\ MarkFetched(batch)
                                /\ ticker' = [ticker EXCEPT ![t].todo = Fetched(batch)]
                                /\ TickerHolds(t)' = Fetched(batch))
              /\ TickerHolds(t) = {}
              /\ \A s \in Tickers : s # t => TickerHolds(s)' = TickerHolds(s)
              /\ UNCHANGED <<stream, lastDelivered, worker, handler, received, resent>>
              /\ \A n \in Notifications \ batch : Shrinks(n) /\ RowHarmless(n)
<1>1. PICK batch \in SUBSET ready \ {{}}, o \in RequestOutcomes :
         /\ IF Applied(o) THEN MarkFetched(batch) ELSE UNCHANGED db
         /\ IF Returned(o)
            THEN ticker' = [ticker EXCEPT ![t].todo = Fetched(batch)]
            ELSE UNCHANGED ticker
  BY DEF Fetch
<1>2. PICK new : new = IF Returned(o) THEN batch ELSE {}
  OBVIOUS
<1>3. /\ TypeOK
      /\ batch \in SUBSET Notifications
      /\ ticker \in [Tickers -> TickerState]
      /\ UNCHANGED <<stream, lastDelivered, worker, handler, received, resent>>
  BY DEF Fetch, queueVars, IInv, TypeOK
<1>4. TickerHolds(t) = {}
  BY <1>3 DEF Fetch, Waiting, IdleTicker, TickerHolds
<1>5. Applied(o) \/ ~Returned(o)
  BY DEF Applied, Returned
<1>6. /\ new \in SUBSET ready
      /\ new = {} \/ (/\ MarkFetched(new)
                      /\ ticker' = [ticker EXCEPT ![t].todo = Fetched(new)])
  BY <1>1, <1>2, <1>5
<1>7. ticker' = [ticker EXCEPT ![t].todo = Fetched(new)] => TickerHolds(t)' = Fetched(new)
  <2> SUFFICES ASSUME ticker' = [ticker EXCEPT ![t].todo = Fetched(new)]
               PROVE  TickerHolds(t)' = Fetched(new)
    OBVIOUS
  <2>1. TickerHolds(t)' = Fetched(new) \cup ({ticker[t].cur} \ {Nil})
    BY <1>3 DEF TickerHolds, TickerState
  <2> QED
    BY <1>4, <2>1 DEF TickerHolds
<1>8. \A s \in Tickers : s # t => TickerHolds(s)' = TickerHolds(s)
  BY <1>1, <1>3 DEF TickerHolds
<1>9. ASSUME NEW n \in Notifications \ new
      PROVE  Shrinks(n) /\ RowHarmless(n)
  <2>1. RowHarmless(n) /\ (RowCarries(n)' => RowCarries(n))
    BY <1>1, <1>3, MarkedRow, SameRow
  <2>2. \A m \in TickerHolds(t)' : m.n = n => m \in TickerHolds(t)
    <3>1. CASE Returned(o)
      <4>1. TickerHolds(t)' = Fetched(new) /\ n \notin new
        BY <1>1, <1>2, <1>7, <1>9, <3>1
      <4> QED
        BY <4>1 DEF Fetched
    <3>2. CASE ~Returned(o)
      BY <1>1, <3>2 DEF TickerHolds
    <3> QED
      BY <3>1, <3>2
  <2> QED
    BY <1>3, <1>8, <2>1, <2>2, TickerFrame DEF Shrinks
<1> QED
  BY <1>3, <1>4, <1>6, <1>7, <1>8, <1>9

LEMMA FetchStep ==
    ASSUME IInv, NEW t \in Tickers, NEW ready, Fetch(t, ready), NEW n \in Notifications,
           \A k \in ready : k \in Notifications /\ RowCarries(k),
           UNCHANGED <<announced, received, handler, worker, ctx>>, resent[n] = 0
    PROVE  Passes(n)
<1>1. PICK batch \in SUBSET ready :
         /\ batch = {} \/ (/\ MarkFetched(batch)
                           /\ ticker' = [ticker EXCEPT ![t].todo = Fetched(batch)]
                           /\ TickerHolds(t)' = Fetched(batch))
         /\ TickerHolds(t) = {}
         /\ \A s \in Tickers : s # t => TickerHolds(s)' = TickerHolds(s)
         /\ UNCHANGED <<stream, lastDelivered, worker, handler, received, resent>>
         /\ \A i \in Notifications \ batch : Shrinks(i) /\ RowHarmless(i)
  <2>1. ready \in SUBSET Notifications
    OBVIOUS
  <2> QED
    BY <2>1, FetchForms
<1>2. /\ TypeOK
      /\ Consistent(n)
      /\ batch \in SUBSET Notifications
      /\ ticker \in [Tickers -> TickerState]
  BY DEF IInv, TypeOK
<1>6. CASE n \notin batch
  BY <1>1, <1>6 DEF Passes
<1>7. CASE n \in batch
  <2>1. /\ MarkFetched(batch)
        /\ ticker' = [ticker EXCEPT ![t].todo = Fetched(batch)]
    BY <1>1, <1>7
  <2>2. RowCarries(n)
    BY <1>7
  <2>3. \A p, q \in Carriers(n) : p = q
    BY <1>2 DEF Consistent
  <2>4. /\ \A h \in Handlers : ~HandlerCarries(h, n)
        /\ \A s \in Tickers : ~TickerCarries(s, n)
        /\ \A i \in Unread(QueueOf[n]) : ~EntryCarries(i, n)
        /\ \A w \in Workers : ~WorkerCarries(w, n)
    BY <2>2, <2>3, SoleRow
  <2>5. Carriers(n) # {}
    BY <2>2, Members
  <2>6. ~db[n].providerMessageID
    BY <1>2, <2>5 DEF Consistent
  <2>7. db[n].attempts < MaxAttempts /\ received[n] <= db[n].attempts
    BY <1>2, <2>2 DEF Consistent
  <2>8. /\ db'[n].status = "queued"
        /\ db'[n].attempts = db[n].attempts
        /\ ~db'[n].providerMessageID
    BY <1>1, <1>2, <1>7, <2>1, <2>6, MarkedRow
  <2>9. ~RowCarries(n)'
    BY <2>8 DEF RowCarries
  <2>10. TickerHolds(t)' = Fetched(batch)
    BY <1>1, <1>7
  <2>11. \A s \in Tickers : TickerCarries(s, n)' => s = t
    BY <1>1, <2>4 DEF TickerCarries
  <2>12. \A m \in TickerHolds(t)' : m.n = n => Current(m)'
    <3> SUFFICES ASSUME NEW m \in TickerHolds(t)', m.n = n PROVE Current(m)'
      OBVIOUS
    <3>1. m.attempts = db[n].attempts
      BY <2>10 DEF Fetched
    <3>2. received'[n] = received[n]
      BY <1>1
    <3> QED
      BY <2>7, <2>8, <3>1, <3>2 DEF Current
  <2>13. /\ \A h \in Handlers : ~HandlerCarries(h, n)'
         /\ \A i \in Unread(QueueOf[n])' : ~EntryCarries(i, n)'
         /\ \A w \in Workers : ~WorkerCarries(w, n)'
    BY <1>1, <1>2, <2>4, TickerFrame
  <2>14. /\ db'[n].attempts <= MaxAttempts
         /\ received'[n] <= MaxAttempts
         /\ db'[n].status # "absent"
    BY <1>1, <1>2, <2>8 DEF Consistent
  <2>15. Consistent(n)'
    BY <2>8, <2>9, <2>11, <2>12, <2>13, <2>14, OnlyTicker
  <2> QED
    BY <2>2, <2>15 DEF Passes, NobodyCarries
<1> QED
  BY <1>6, <1>7

\* A ready row carries the right.
LEMMA ReadyCarries ==
    /\ \A k \in ScheduledReady : k \in Notifications /\ RowCarries(k)
    /\ \A k \in RetryReady : k \in Notifications /\ RowCarries(k)
BY DEF ScheduledReady, RetryReady, RowCarries

LEMMA TickerMarkStep ==
    ASSUME IInv, NEW t \in Tickers, TickerMarkQueued(t) \/ TickerExit(t),
           UNCHANGED <<announced, received, handler, worker, ctx>>, NEW n \in Notifications
    PROVE  Shrinks(n) /\ RowHarmless(n)
<1>1. /\ TypeOK
      /\ ticker \in [Tickers -> TickerState]
      /\ ticker[t] \in TickerState
      /\ UNCHANGED <<stream, lastDelivered, worker, handler, received>>
  BY DEF TickerMarkQueued, TickerExit, queueVars, IInv, TypeOK
<1>2. \A s \in Tickers : TickerHolds(s)' \subseteq TickerHolds(s)
  <2>1. CASE TickerExit(t)
    BY <1>1, <2>1 DEF TickerExit, TickerHolds, TickerState
  <2>2. CASE TickerMarkQueued(t)
    <3>1. PICK m \in ticker[t].todo : \E c \in {m, Nil} :
             ticker' = [ticker EXCEPT ![t].todo = ticker[t].todo \ {m}, ![t].cur = c]
      BY <2>2 DEF TickerMarkQueued
    <3>2. PICK c \in {m, Nil} :
             ticker' = [ticker EXCEPT ![t].todo = ticker[t].todo \ {m}, ![t].cur = c]
      BY <3>1
    <3>3. ticker'[t].todo = ticker[t].todo \ {m} /\ ticker'[t].cur = c
      BY <1>1, <3>2 DEF TickerState
    <3>4. \A s \in Tickers : s # t => ticker'[s] = ticker[s]
      BY <1>1, <3>2
    <3> QED
      BY <3>2, <3>3, <3>4 DEF TickerHolds
  <2> QED
    BY <2>1, <2>2
<1>3. RowHarmless(n) /\ (RowCarries(n)' => RowCarries(n))
  <2>1. CASE TickerMarkQueued(t)
    <3>1. PICK m \in ticker[t].todo : UpdateStatus(m.n, "queued", FALSE) \/ db' = db
      BY <2>1 DEF TickerMarkQueued
    <3>2. m.n \in Notifications
      BY <1>1 DEF TickerState, Message
    <3> QED
      BY <1>1, <3>1, <3>2, RowLeaves, SameRow
  <2>2. CASE TickerExit(t)
    BY <1>1, <2>2, SameRow DEF TickerExit
  <2> QED
    BY <2>1, <2>2
<1> QED
  BY <1>1, <1>2, <1>3, TickerFrame DEF Shrinks

\* The XADD of a ticker adds an entry of the notification it works on, or none.
LEMMA TickerEnqueueForms ==
    ASSUME IInv, NEW t \in Tickers, TickerEnqueue(t), NEW m, m = ticker[t].cur,
           UNCHANGED <<announced, received, handler, worker, ctx>>
    PROVE  /\ m \in Message /\ m.n \in Notifications
           /\ TickerHolds(t)' = ticker[t].todo
           /\ TickerHolds(t) = ticker[t].todo \cup {m}
           /\ \A s \in Tickers : s # t => TickerHolds(s)' = TickerHolds(s)
           /\ UNCHANGED <<db, worker, handler, received, resent>>
           /\ UNCHANGED <<stream, lastDelivered>> \/ Added(m)
           /\ \A n \in Notifications :
                 n # m.n \/ UNCHANGED stream => Shrinks(n) /\ RowHarmless(n)
<1>1. PICK o \in EnqueueOutcomes(Outcomes(ProcessOf[t])) :
         IF Applied(o) THEN Enqueue(m) ELSE UNCHANGED queueVars
  BY DEF TickerEnqueue
<1>2. /\ TypeOK
      /\ ticker \in [Tickers -> TickerState]
      /\ ticker[t] \in TickerState
      /\ m # Nil
      /\ ticker' = [ticker EXCEPT ![t].cur = Nil]
      /\ UNCHANGED <<db, worker, handler, received, resent>>
  BY <1>1 DEF TickerEnqueue, IInv, TypeOK, Enqueue, queueVars
<1>3. m \in Message /\ m.n \in Notifications
  BY <1>2 DEF TickerState, Message
<1>4. /\ TickerHolds(t)' = ticker[t].todo
      /\ TickerHolds(t) = ticker[t].todo \cup {m}
      /\ \A s \in Tickers : s # t => TickerHolds(s)' = TickerHolds(s)
  BY <1>2 DEF TickerHolds, TickerState
<1>5. UNCHANGED <<stream, lastDelivered>> \/ Added(m)
  BY <1>1, EnqueueAdds DEF queueVars
<1>6. UNCHANGED lastDelivered
  BY <1>5 DEF Added
<1>7. ASSUME NEW n \in Notifications, n # m.n \/ UNCHANGED stream
      PROVE  Shrinks(n) /\ RowHarmless(n)
  <2>1. \A h \in Handlers : HandlerCarries(h, n)' => HandlerCarries(h, n)
    BY <1>2 DEF HandlerCarries
  <2>2. \A s \in Tickers : TickerHolds(s)' \subseteq TickerHolds(s)
    BY <1>4
  <2>3. CASE UNCHANGED stream
    <3>1. RowHarmless(n) /\ (RowCarries(n)' => RowCarries(n))
      BY <1>2, SameRow
    <3> QED
      BY <1>2, <1>6, <2>2, <2>3, <3>1, TickerFrame DEF Shrinks
  <2>4. CASE n # m.n /\ Added(m)
    BY <1>2, <1>3, <2>1, <2>2, <2>4, EntryOfAnother
  <2> QED
    BY <1>5, <1>7, <2>3, <2>4
<1> QED
  BY <1>2, <1>3, <1>4, <1>5, <1>7

LEMMA TickerEnqueueStep ==
    ASSUME IInv, NEW t \in Tickers, TickerEnqueue(t), NEW n \in Notifications,
           UNCHANGED <<announced, received, handler, worker, ctx>>, resent[n] = 0
    PROVE  Passes(n)
<1>0. PICK m : m = ticker[t].cur
  OBVIOUS
<1>1. /\ m \in Message /\ m.n \in Notifications
      /\ TickerHolds(t)' = ticker[t].todo
      /\ TickerHolds(t) = ticker[t].todo \cup {m}
      /\ \A s \in Tickers : s # t => TickerHolds(s)' = TickerHolds(s)
      /\ UNCHANGED <<db, worker, handler, received, resent>>
      /\ UNCHANGED <<stream, lastDelivered>> \/ Added(m)
      /\ \A i \in Notifications :
            i # m.n \/ UNCHANGED stream => Shrinks(i) /\ RowHarmless(i)
  BY <1>0, TickerEnqueueForms
<1>2. /\ Consistent(n)
      /\ ticker[t] \in TickerState
  BY DEF IInv, TypeOK
<1>8. CASE n # m.n \/ UNCHANGED stream
  BY <1>1, <1>8 DEF Passes
<1>9. CASE n = m.n /\ Added(m)
  <2>1. n = m.n /\ Added(m)
    BY <1>9
  <2>3. Passes(n)
    <3>1. TickerCarries(t, n) /\ m \in TickerHolds(t)
      BY <1>1, <2>1 DEF TickerCarries
    <3>2. \A p, q \in Carriers(n) : p = q
      BY <1>2 DEF Consistent
    <3>3. /\ \A h \in Handlers : ~HandlerCarries(h, n)
          /\ ~RowCarries(n)
          /\ \A s \in Tickers : TickerCarries(s, n) => s = t
          /\ \A i \in Unread(QueueOf[n]) : ~EntryCarries(i, n)
          /\ \A w \in Workers : ~WorkerCarries(w, n)
      BY <3>1, <3>2, SoleTicker
    <3>4. Carriers(n) # {}
      BY <3>1, Members
    <3>5. db[n].status # "absent" /\ ~db[n].providerMessageID
      BY <1>2, <3>4 DEF Consistent
    <3>6. \A k \in TickerHolds(t) : k.n = n => Current(k)
      BY <1>2 DEF Consistent
    <3>7. Current(m)
      BY <2>1, <3>1, <3>6
    <3>8. \A k \in ticker[t].todo : k.n # n
      <4> SUFFICES ASSUME NEW k \in ticker[t].todo, k.n = n PROVE FALSE
        OBVIOUS
      <4>1. k.attempts = m.attempts
        BY <1>1, <2>1, <3>6, <3>7 DEF Current
      <4>2. k \in Message
        BY <1>2 DEF TickerState
      <4>3. k = m
        BY <1>1, <2>1, <4>1, <4>2 DEF Message
      <4> QED
        BY <1>0, <4>3 DEF IInv
    <3>9. \A s \in Tickers : ~TickerCarries(s, n)'
      BY <1>1, <3>3, <3>8 DEF TickerCarries
    <3>10. \A h \in Handlers : ~HandlerCarries(h, n)'
      BY <1>1, <3>3 DEF HandlerCarries
    <3>11. Consistent(n)'
      BY <1>1, <2>1, <3>3, <3>5, <3>7, <3>9, <3>10, EntryAlone
    <3> QED
      BY <3>1, <3>11 DEF Passes, NobodyCarries
  <2> QED
    BY <2>3
<1> QED
  BY <1>1, <1>8, <1>9

LEMMA TickerResendForms ==
    ASSUME IInv, NEW t \in Tickers, TickerResend(t), NEW m, m = ticker[t].cur,
           UNCHANGED <<announced, received, handler, worker, ctx>>
    PROVE  /\ m \in Message /\ m.n \in Notifications
           /\ m \in TickerHolds(t)
           /\ EnqueueUnanswered(m)
           /\ UNCHANGED <<db, worker, handler, ticker, received>>
           /\ \A n \in Notifications : n # m.n => Shrinks(n) /\ RowHarmless(n)
<1>2. /\ TypeOK
      /\ ticker[t] \in TickerState
      /\ m # Nil
      /\ EnqueueUnanswered(m)
      /\ UNCHANGED <<db, worker, handler, ticker, received>>
  BY DEF TickerResend, IInv, TypeOK
<1>3. m \in Message /\ m.n \in Notifications /\ m \in TickerHolds(t)
  BY <1>2 DEF TickerState, Message, TickerHolds
<1>5. Added(m)
  BY <1>2, EnqueueAdds
<1>6. \A n : \A h \in Handlers : HandlerCarries(h, n)' => HandlerCarries(h, n)
  BY <1>2 DEF HandlerCarries
<1>7. \A s \in Tickers : TickerHolds(s)' \subseteq TickerHolds(s)
  BY <1>2 DEF TickerHolds
<1>8. \A n \in Notifications : n # m.n => Shrinks(n) /\ RowHarmless(n)
  BY <1>2, <1>3, <1>5, <1>6, <1>7, EntryOfAnother
<1> QED
  BY <1>2, <1>3, <1>8

LEMMA TickerResendStep ==
    ASSUME IInv, NEW t \in Tickers, TickerResend(t), NEW n \in Notifications,
           UNCHANGED <<announced, received, handler, worker, ctx>>, resent'[n] = 0
    PROVE  Shrinks(n) /\ RowHarmless(n)
<1>1. PICK m : m = ticker[t].cur
  OBVIOUS
<1>2. /\ m.n \in Notifications
      /\ EnqueueUnanswered(m)
      /\ n # m.n => Shrinks(n) /\ RowHarmless(n)
  BY <1>1, TickerResendForms
<1>3. resent \in [Notifications -> Nat]
  BY DEF IInv, TypeOK
<1> QED
  BY <1>2, <1>3 DEF EnqueueUnanswered

LEMMA TickerPasses ==
    ASSUME IInv, NEW t \in Tickers, TickerNext(t), NEW n \in Notifications,
           resent[n] = 0, resent'[n] = 0
    PROVE  Passes(n)
BY FetchStep, ReadyCarries, TickerMarkStep, TickerEnqueueStep, TickerResendStep
   DEF Passes, TickerNext, TickerStep, TickerFetchScheduled, TickerFetchRetry

\* The message a ticker works on is no longer among those it has to enqueue.
LEMMA TickerCurrent ==
    ASSUME IInv, NEW t \in Tickers, TickerNext(t)
    PROVE  \A s \in Tickers : ticker'[s].cur \notin ticker'[s].todo
<1>1. /\ ticker \in [Tickers -> TickerState]
      /\ ticker[t] \in TickerState
      /\ \A s \in Tickers : ticker[s].cur \notin ticker[s].todo
  BY DEF IInv, TypeOK
<1>2. Nil \notin ticker[t].todo
  BY <1>1, SchedulerAssumption DEF TickerState
<1>3. ASSUME NEW ready, Fetch(t, ready), \A k \in ready : k \in Notifications
      PROVE  \A s \in Tickers : ticker'[s].cur \notin ticker'[s].todo
  <2>1. PICK batch \in SUBSET ready :
           \/ ticker' = [ticker EXCEPT ![t].todo = Fetched(batch)]
           \/ ticker' = ticker
    BY <1>3 DEF Fetch
  <2>2. ticker[t].cur = Nil
    BY <1>3 DEF Fetch, Waiting, IdleTicker
  <2>3. Fetched(batch) \subseteq Message
    BY <1>3 DEF Fetched, Message, IInv, TypeOK, Row
  <2>4. Nil \notin Fetched(batch)
    BY <2>3, SchedulerAssumption
  <2> QED
    BY <1>1, <2>1, <2>2, <2>4 DEF TickerState
<1>4. CASE TickerMarkQueued(t)
  <2>1. PICK m \in ticker[t].todo : \E c \in {m, Nil} :
           ticker' = [ticker EXCEPT ![t].todo = ticker[t].todo \ {m}, ![t].cur = c]
    BY <1>4 DEF TickerMarkQueued
  <2>2. PICK c \in {m, Nil} :
           ticker' = [ticker EXCEPT ![t].todo = ticker[t].todo \ {m}, ![t].cur = c]
    BY <2>1
  <2>3. ticker'[t].todo = ticker[t].todo \ {m} /\ ticker'[t].cur = c
    BY <1>1, <2>2 DEF TickerState
  <2>4. \A s \in Tickers : s # t => ticker'[s] = ticker[s]
    BY <1>1, <2>2
  <2> QED
    BY <1>1, <1>2, <2>2, <2>3, <2>4
<1>5. CASE TickerEnqueue(t)
  BY <1>1, <1>2, <1>5 DEF TickerEnqueue, TickerState
<1>6. CASE TickerExit(t) \/ TickerResend(t)
  BY <1>1, <1>6 DEF TickerExit, TickerResend, TickerState
<1> QED
  BY <1>3, <1>4, <1>5, <1>6
     DEF TickerNext, TickerStep, TickerFetchScheduled, TickerFetchRetry, ScheduledReady, RetryReady

--------------------------------------------------------------------------------
(***************************************************************************)
(* Workers.                                                                *)
(***************************************************************************)
\* A worker that delivers is the only carrier of what it delivers.
LEMMA WorkerAlone ==
    ASSUME IInv, NEW w \in Workers, worker[w].pc \in Delivering,
           NEW n, n = Held(w).n, resent[n] = 0
    PROVE  /\ n \in Notifications
           /\ Held(w) \in Message
           /\ WorkerCarries(w, n)
           /\ Consistent(n)
           /\ \A h \in Handlers : ~HandlerCarries(h, n)
           /\ ~RowCarries(n)
           /\ \A t \in Tickers : ~TickerCarries(t, n)
           /\ \A i \in Unread(QueueOf[n]) : ~EntryCarries(i, n)
           /\ \A v \in Workers : WorkerCarries(v, n) => v = w
           /\ db[n].status # "absent"
           /\ ~db[n].providerMessageID
           /\ WorkerConsistent(w)
<1>1. Held(w) \in Message
  BY HeldType DEF IInv, Delivering
<1>2. n \in Notifications /\ Consistent(n)
  BY <1>1 DEF Message, IInv
<1>3. WorkerCarries(w, n)
  BY DEF WorkerCarries
<1>4. (\A p, q \in Carriers(n) : p = q) /\ Carriers(n) # {}
  BY <1>2, <1>3, Members DEF Consistent
<1>5. /\ db[n].status # "absent"
      /\ ~db[n].providerMessageID
      /\ WorkerConsistent(w)
  BY <1>2, <1>3, <1>4 DEF Consistent
<1>6. /\ \A h \in Handlers : ~HandlerCarries(h, n)
      /\ ~RowCarries(n)
      /\ \A t \in Tickers : ~TickerCarries(t, n)
      /\ \A i \in Unread(QueueOf[n]) : ~EntryCarries(i, n)
      /\ \A v \in Workers : WorkerCarries(v, n) => v = w
  BY <1>3, <1>4, SoleWorker
<1> QED
  BY <1>1, <1>2, <1>3, <1>5, <1>6

\* A step of a worker: what everybody holds but that worker, and what the worker
\* itself holds of other notifications.
LEMMA WorkerFrame ==
    ASSUME IInv, NEW w \in Workers,
           UNCHANGED <<stream, lastDelivered, handler, ticker>>,
           NEW next, \/ worker' = [worker EXCEPT ![w].pc = next]
                     \/ worker' = [worker EXCEPT ![w] = IdleWorker],
           NEW n \in Notifications
    PROVE  /\ \A h \in Handlers : HandlerCarries(h, n)' => HandlerCarries(h, n)
           /\ \A t \in Tickers : TickerHolds(t)' = TickerHolds(t)
           /\ \A v \in Workers : WorkerCarries(v, n)' =>
                 Held(v)' = Held(v) /\ (v # w => WorkerCarries(v, n) /\ worker'[v].pc = worker[v].pc)
<1>1. /\ worker \in [Workers -> WorkerState]
      /\ worker[w] \in WorkerState
  BY DEF IInv, TypeOK
<1>2. \A h \in Handlers : HandlerCarries(h, n)' => HandlerCarries(h, n)
  BY DEF HandlerCarries
<1>3. \A t \in Tickers : TickerHolds(t)' = TickerHolds(t)
  BY DEF TickerHolds
<1>4. \A v \in Workers : v # w => worker'[v] = worker[v]
  BY <1>1
<1>5. worker'[w].pc \in Delivering => worker'[w].pos = worker[w].pos
  BY <1>1 DEF WorkerState, IdleWorker, Delivering
<1>6. \A v \in Workers : WorkerCarries(v, n)' =>
         Held(v)' = Held(v) /\ (v # w => WorkerCarries(v, n) /\ worker'[v].pc = worker[v].pc)
  BY <1>4, <1>5 DEF WorkerCarries, Held
<1> QED
  BY <1>2, <1>3, <1>6

LEMMA WorkerElsewhere ==
    ASSUME IInv, NEW w \in Workers,
           UNCHANGED <<stream, lastDelivered, handler, ticker>>,
           NEW next, \/ worker' = [worker EXCEPT ![w].pc = next]
                     \/ worker' = [worker EXCEPT ![w] = IdleWorker],
           NEW n \in Notifications, n # Held(w).n,
           db'[n] = db[n], received'[n] = received[n]
    PROVE  Shrinks(n) /\ RowHarmless(n)
<1>1. \A v \in Workers : WorkerCarries(v, n)' =>
         Held(v)' = Held(v) /\ (v # w => WorkerCarries(v, n) /\ worker'[v].pc = worker[v].pc)
  BY WorkerFrame
<1>2. \A v \in Workers : WorkerCarries(v, n)' =>
         WorkerCarries(v, n) /\ worker'[v].pc = worker[v].pc /\ Held(v)' = Held(v)
  BY <1>1 DEF WorkerCarries
<1>3. RowHarmless(n) /\ (RowCarries(n)' => RowCarries(n))
  BY SameRow
<1>4. /\ \A h \in Handlers : HandlerCarries(h, n)' => HandlerCarries(h, n)
      /\ \A t \in Tickers : TickerHolds(t)' = TickerHolds(t)
  BY WorkerFrame
<1> QED
  BY <1>2, <1>3, <1>4, EntriesStay DEF Shrinks

\* A step of a worker that delivers, and the notification it holds.
LEMMA WorkerMoves ==
    ASSUME IInv, NEW w \in Workers, worker[w].pc \in Delivering,
           UNCHANGED <<stream, lastDelivered, handler, ticker>>,
           NEW next, \/ worker' = [worker EXCEPT ![w].pc = next]
                     \/ worker' = [worker EXCEPT ![w] = IdleWorker],
           NEW n \in Notifications, n = Held(w).n, resent[n] = 0,
           db'[n].status # "absent",
           db'[n].attempts <= MaxAttempts,
           received'[n] <= MaxAttempts,
           RowCarries(n)' => /\ db'[n].attempts < MaxAttempts
                             /\ received'[n] <= db'[n].attempts
                             /\ worker'[w].pc \notin Delivering
                             /\ ~db'[n].providerMessageID,
           worker'[w].pc \in Delivering => WorkerConsistent(w)' /\ ~db'[n].providerMessageID
    PROVE  Passes(n)
<1>1. /\ \A h \in Handlers : ~HandlerCarries(h, n)
      /\ \A t \in Tickers : ~TickerCarries(t, n)
      /\ \A i \in Unread(QueueOf[n]) : ~EntryCarries(i, n)
      /\ \A v \in Workers : WorkerCarries(v, n) => v = w
  BY WorkerAlone
<1>2. /\ \A h \in Handlers : HandlerCarries(h, n)' => HandlerCarries(h, n)
      /\ \A t \in Tickers : TickerHolds(t)' = TickerHolds(t)
      /\ \A v \in Workers : WorkerCarries(v, n)' => (v # w => WorkerCarries(v, n))
  BY WorkerFrame
<1>3. /\ \A h \in Handlers : ~HandlerCarries(h, n)'
      /\ \A t \in Tickers : ~TickerCarries(t, n)'
      /\ \A i \in Unread(QueueOf[n])' : ~EntryCarries(i, n)'
  BY <1>1, <1>2, EntriesStay DEF TickerCarries
<1>4. \A v \in Workers : WorkerCarries(v, n)' => v = w
  BY <1>1, <1>2
<1>5. WorkerCarries(w, n)' => worker'[w].pc \in Delivering
  BY DEF WorkerCarries
<1>6. Consistent(n)'
  BY <1>3, <1>4, <1>5, OnlyWorkerOrRow
<1>7. WorkerCarries(w, n)
  BY DEF WorkerCarries
<1> QED
  BY <1>6, <1>7 DEF Passes, NobodyCarries

\* MarkProcessing, MarkDelivered and MarkFailed.
LEMMA RowUpdateStep ==
    ASSUME IInv, NEW w \in Workers, worker[w].pc \in Delivering,
           NEW status \in {"processing", "delivered", "failed"}, NEW p \in BOOLEAN, NEW next,
           RowUpdate(w, status, p, next),
           UNCHANGED <<stream, lastDelivered, handler, ticker, received>>,
           next \in Delivering =>
              next = "takeToken" /\ status = "processing" /\ ~p /\ Current(Held(w)),
           status = "failed" => Counted(Held(w)) /\ ~p /\ next \notin Delivering,
           NEW n \in Notifications, n = Held(w).n, resent[n] = 0
    PROVE  Passes(n)
<1>1. PICK o \in Outcomes(ProcessOf[w]) :
           /\ IF Applied(o) THEN UpdateStatus(Held(w).n, status, p) ELSE UNCHANGED db
           /\ IF Returned(o) THEN Goto(w, next) ELSE Return(w)
  BY DEF RowUpdate
<1>2. PICK k : k = Held(w).n
  OBVIOUS
<1>3. /\ k \in Notifications
      /\ ~RowCarries(k)
      /\ db[k].status # "absent"
      /\ ~db[k].providerMessageID
      /\ db[k].attempts <= MaxAttempts /\ received[k] <= MaxAttempts
  BY <1>2, WorkerAlone DEF Consistent
<1>4. TypeOK /\ worker \in [Workers -> WorkerState] /\ worker[w] \in WorkerState
  BY DEF IInv, TypeOK
<1>5. worker' = [worker EXCEPT ![w].pc = next] \/ worker' = [worker EXCEPT ![w] = IdleWorker]
  BY <1>1 DEF Goto, Return
<1>6. worker'[w].pc \in Delivering =>
         /\ Applied(o)
         /\ next \in Delivering
         /\ worker'[w].pc = next
         /\ worker'[w].pos = worker[w].pos
  BY <1>1, <1>4 DEF Goto, Return, IdleWorker, Delivering, Applied, Returned, WorkerState
<1>8. CASE db' = db /\ ~Applied(o)
  <2>1. ~RowCarries(k)'
    BY <1>3, <1>8 DEF RowCarries
  <2> QED
    BY <1>2, <1>3, <1>5, <1>6, <1>8, <2>1, WorkerMoves
<1>9. CASE Applied(o)
  <2>1. /\ db'[k].status = status
        /\ db'[k].attempts = db[k].attempts
        /\ db'[k].nextRetryAt = db[k].nextRetryAt
        /\ db'[k].providerMessageID <=> p
        /\ received'[k] = received[k]
    BY <1>1, <1>2, <1>3, <1>4, <1>9, UpdatedRow DEF Statuses
  <2>2. RowCarries(k)' => /\ db'[k].attempts < MaxAttempts
                          /\ received'[k] <= db'[k].attempts
                          /\ worker'[w].pc \notin Delivering
                          /\ ~db'[k].providerMessageID
    <3> SUFFICES ASSUME RowCarries(k)'
                 PROVE  /\ db'[k].attempts < MaxAttempts
                        /\ received'[k] <= db'[k].attempts
                        /\ worker'[w].pc \notin Delivering
                        /\ ~db'[k].providerMessageID
      OBVIOUS
    <3>1. status = "failed" /\ db[k].nextRetryAt # "null"
      BY <2>1 DEF RowCarries
    <3>2. Counted(Held(w)) /\ ~p /\ worker'[w].pc \notin Delivering
      BY <1>6, <3>1
    <3> QED
      BY <1>2, <2>1, <3>1, <3>2 DEF Counted
  <2>3. worker'[w].pc \in Delivering => WorkerConsistent(w)' /\ ~db'[k].providerMessageID
    <3> SUFFICES ASSUME worker'[w].pc \in Delivering
                 PROVE  WorkerConsistent(w)' /\ ~db'[k].providerMessageID
      OBVIOUS
    <3>1. /\ worker'[w].pc = "takeToken"
          /\ worker'[w].pos = worker[w].pos
          /\ status = "processing"
          /\ ~p
          /\ Current(Held(w))
      BY <1>6
    <3>2. Held(w)' = Held(w)
      BY <3>1 DEF Held
    <3> QED
      BY <1>2, <2>1, <3>1, <3>2 DEF WorkerConsistent, Current
  <2>4. db'[k].status # "absent"
    BY <2>1
  <2> QED
    BY <1>2, <1>3, <1>5, <2>1, <2>2, <2>3, <2>4, WorkerMoves
<1> QED
  BY <1>1, <1>8, <1>9

LEMMA TakeTokenStep ==
    ASSUME IInv, NEW w \in Workers, WorkerTakeToken(w), UNCHANGED <<handler, ticker, ctx>>,
           NEW n \in Notifications, n = Held(w).n, resent[n] = 0
    PROVE  Passes(n)
<1>1. /\ UNCHANGED <<stream, lastDelivered, handler, ticker, db, received>>
      /\ worker[w].pc = "takeToken"
      /\ worker[w].pc \in Delivering
  BY DEF WorkerTakeToken, queueVars, Delivering
<1>2. TypeOK /\ worker \in [Workers -> WorkerState] /\ worker[w] \in WorkerState
  BY DEF IInv, TypeOK
<1>3. \/ worker' = [worker EXCEPT ![w].pc = "send"]
      \/ worker' = [worker EXCEPT ![w] = IdleWorker]
  BY DEF WorkerTakeToken, Goto, Return
<1>4. PICK k : k = Held(w).n
  OBVIOUS
<1>5. /\ k \in Notifications
      /\ ~RowCarries(k)
      /\ db[k].status # "absent"
      /\ ~db[k].providerMessageID
      /\ db[k].attempts <= MaxAttempts /\ received[k] <= MaxAttempts
      /\ WorkerConsistent(w)
  BY <1>1, <1>4, WorkerAlone DEF Consistent
<1>6. ~RowCarries(k)'
  BY <1>1, <1>5 DEF RowCarries
<1>7. worker'[w].pc \in Delivering => WorkerConsistent(w)'
  <2> SUFFICES ASSUME worker'[w].pc \in Delivering PROVE WorkerConsistent(w)'
    OBVIOUS
  <2>1. worker'[w].pc = "send" /\ worker'[w].pos = worker[w].pos
    BY <1>2, <1>3 DEF WorkerState, IdleWorker, Delivering
  <2>2. Held(w)' = Held(w)
    BY <1>1, <2>1 DEF Held
  <2> QED
    BY <1>1, <1>5, <2>1, <2>2 DEF WorkerConsistent, Current
<1> QED
  BY <1>1, <1>3, <1>4, <1>5, <1>6, <1>7, WorkerMoves

LEMMA SendStep ==
    ASSUME IInv, NEW w \in Workers, WorkerSend(w), UNCHANGED <<handler, ticker, ctx>>,
           NEW n \in Notifications, n = Held(w).n, resent[n] = 0
    PROVE  Passes(n)
<1>1. /\ UNCHANGED <<stream, lastDelivered, handler, ticker, db>>
      /\ worker[w].pc = "send"
      /\ worker[w].pc \in Delivering
  BY DEF WorkerSend, queueVars, Delivering
<1>2. /\ worker \in [Workers -> WorkerState]
      /\ worker[w] \in WorkerState
      /\ received \in [Notifications -> Nat]
      /\ db \in [Notifications -> Row]
  BY DEF IInv, TypeOK
<1>3. PICK k : k = Held(w).n
  OBVIOUS
<1>4. PICK next \in {"markDelivered", "increment"} :
         /\ received' = received \/ received' = [received EXCEPT ![k] = @ + 1]
         /\ worker' = [worker EXCEPT ![w].pc = next]
  BY <1>3 DEF WorkerSend, Goto
<1>5. /\ k \in Notifications
      /\ Held(w) \in Message
      /\ ~RowCarries(k)
      /\ db[k].status # "absent"
      /\ ~db[k].providerMessageID
      /\ db[k].attempts <= MaxAttempts
      /\ WorkerConsistent(w)
  BY <1>1, <1>3, WorkerAlone DEF Consistent
<1>6. ~RowCarries(k)'
  BY <1>1, <1>5 DEF RowCarries
<1>7. /\ Current(Held(w))
      /\ db[k].status \in {"processing", "queued", "cancelled"}
  BY <1>1, <1>3, <1>5 DEF WorkerConsistent
<1>8. received'[k] \in Nat /\ received'[k] <= received[k] + 1
  BY <1>2, <1>4, <1>5
<1>9. received[k] \in Nat /\ db[k].attempts \in Nat /\ MaxAttempts \in Nat
  BY <1>2, <1>5, NotificationAssumption DEF Row
<1>10. /\ Held(w).attempts = db[k].attempts
       /\ Held(w).attempts < MaxAttempts
       /\ received[k] <= Held(w).attempts
  BY <1>3, <1>7 DEF Current
<1>11. received'[k] <= Held(w).attempts + 1 /\ received'[k] <= MaxAttempts
  BY <1>8, <1>9, <1>10
<1>12. /\ worker'[w].pc = next
       /\ worker'[w].pos = worker[w].pos
       /\ Held(w)' = Held(w)
  BY <1>1, <1>2, <1>4 DEF WorkerState, Held
<1>13. WorkerConsistent(w)'
  BY <1>1, <1>3, <1>7, <1>10, <1>11, <1>12 DEF WorkerConsistent, Attempted
<1> QED
  BY <1>1, <1>3, <1>4, <1>5, <1>6, <1>11, <1>13, WorkerMoves

LEMMA IncrementStep ==
    ASSUME IInv, NEW w \in Workers, WorkerIncrement(w), UNCHANGED <<handler, ticker, ctx>>,
           NEW n \in Notifications, n = Held(w).n, resent[n] = 0
    PROVE  Passes(n)
<1>1. /\ UNCHANGED <<stream, lastDelivered, handler, ticker, received>>
      /\ worker[w].pc = "increment"
      /\ worker[w].pc \in Delivering
  BY DEF WorkerIncrement, queueVars, Delivering
<1>2. /\ TypeOK
      /\ worker \in [Workers -> WorkerState]
      /\ worker[w] \in WorkerState
      /\ received \in [Notifications -> Nat]
      /\ db \in [Notifications -> Row]
  BY DEF IInv, TypeOK
<1>3. PICK k : k = Held(w).n
  OBVIOUS
<1>4. PICK o \in Outcomes(ProcessOf[w]) :
         /\ IF Applied(o)
            THEN IncrementAttempts(k, IF Retriable(Held(w)) THEN "future" ELSE "null")
            ELSE UNCHANGED db
         /\ IF Returned(o) THEN Goto(w, "markFailed") ELSE Return(w)
  BY <1>3 DEF WorkerIncrement
<1>5. /\ k \in Notifications
      /\ Held(w) \in Message
      /\ ~RowCarries(k)
      /\ ~db[k].providerMessageID
      /\ db[k].attempts <= MaxAttempts /\ received[k] <= MaxAttempts
      /\ WorkerConsistent(w)
  BY <1>1, <1>3, WorkerAlone DEF Consistent
<1>6. /\ Attempted(Held(w))
      /\ db[k].status \in {"processing", "queued", "cancelled"}
  BY <1>1, <1>3, <1>5 DEF WorkerConsistent
<1>7. received[k] \in Nat /\ db[k].attempts \in Nat /\ MaxAttempts \in Nat
  BY <1>2, <1>5, NotificationAssumption DEF Row
<1>8. /\ Held(w).attempts = db[k].attempts
      /\ db[k].attempts < MaxAttempts
      /\ received[k] <= db[k].attempts + 1
  BY <1>3, <1>6 DEF Attempted
<1>9. \/ worker' = [worker EXCEPT ![w].pc = "markFailed"]
      \/ worker' = [worker EXCEPT ![w] = IdleWorker]
  BY <1>4 DEF Goto, Return
<1>10. worker'[w].pc \in Delivering =>
          /\ Applied(o)
          /\ worker'[w].pc = "markFailed"
          /\ worker'[w].pos = worker[w].pos
  BY <1>2, <1>4 DEF Goto, Return, IdleWorker, Delivering, Applied, Returned, WorkerState
<1>11. CASE ~Applied(o)
  <2>1. db' = db
    BY <1>4, <1>11
  <2>2. ~RowCarries(k)' /\ worker'[w].pc \notin Delivering
    BY <1>5, <1>10, <1>11, <2>1 DEF RowCarries
  <2> QED
    BY <1>1, <1>3, <1>5, <1>6, <1>9, <2>1, <2>2, WorkerMoves
<1>12. CASE Applied(o)
  <2>1. PICK at \in Instants : /\ at # "null" => Retriable(Held(w))
                               /\ IncrementAttempts(k, at)
    BY <1>4, <1>12 DEF Instants
  <2>2. /\ db'[k].status = db[k].status
        /\ db'[k].attempts = db[k].attempts + 1
        /\ db'[k].nextRetryAt = at
        /\ db'[k].providerMessageID = db[k].providerMessageID
        /\ \A m \in Notifications : m # k => db'[m] = db[m]
    BY <1>2, <1>5, <2>1, IncrementedRow
  <2>3. ~RowCarries(k)'
    BY <1>6, <2>2 DEF RowCarries
  <2>4. db'[k].attempts <= MaxAttempts /\ received'[k] <= db'[k].attempts
    BY <1>1, <1>7, <1>8, <2>2
  <2>5. db'[k].nextRetryAt # "null" => db'[k].attempts < MaxAttempts
    BY <1>8, <2>1, <2>2 DEF Retriable
  <2>6. worker'[w].pc \in Delivering => WorkerConsistent(w)'
    <3> SUFFICES ASSUME worker'[w].pc \in Delivering PROVE WorkerConsistent(w)'
      OBVIOUS
    <3>1. worker'[w].pc = "markFailed" /\ Held(w)' = Held(w)
      BY <1>1, <1>10 DEF Held
    <3> QED
      BY <1>3, <1>6, <1>8, <2>2, <2>4, <2>5, <3>1 DEF WorkerConsistent, Counted
  <2>7. received'[k] <= MaxAttempts /\ db'[k].status # "absent"
    BY <1>1, <1>5, <1>6, <2>2
  <2> QED
    BY <1>1, <1>3, <1>5, <1>9, <2>2, <2>3, <2>4, <2>6, <2>7, WorkerMoves
<1> QED
  BY <1>11, <1>12

LEMMA MarkStep ==
    ASSUME IInv, NEW w \in Workers,
           WorkerMarkProcessing(w) \/ WorkerMarkDelivered(w) \/ WorkerMarkFailed(w),
           UNCHANGED <<handler, ticker, ctx>>,
           NEW n \in Notifications, n = Held(w).n, resent[n] = 0
    PROVE  Passes(n)
<1>1. UNCHANGED <<stream, lastDelivered, handler, ticker, received>>
  BY DEF WorkerMarkProcessing, WorkerMarkDelivered, WorkerMarkFailed, queueVars
<1>2. CASE WorkerMarkProcessing(w)
  <2>1. worker[w].pc = "markProcessing" /\ worker[w].pc \in Delivering
    BY <1>2 DEF WorkerMarkProcessing, Delivering
  <2>2. Current(Held(w))
    BY <2>1, WorkerAlone DEF WorkerConsistent
  <2>3. RowUpdate(w, "processing", FALSE, "takeToken")
    BY <1>2 DEF WorkerMarkProcessing
  <2> QED
    BY <1>1, <2>1, <2>2, <2>3, RowUpdateStep
<1>3. CASE WorkerMarkDelivered(w)
  <2>1. worker[w].pc \in Delivering /\ "ackDelivered" \notin Delivering
    BY <1>3 DEF WorkerMarkDelivered, Delivering
  <2>2. RowUpdate(w, "delivered", TRUE, "ackDelivered")
    BY <1>3 DEF WorkerMarkDelivered
  <2> QED
    BY <1>1, <2>1, <2>2, RowUpdateStep
<1>4. CASE WorkerMarkFailed(w)
  <2>1. /\ worker[w].pc = "markFailed"
        /\ worker[w].pc \in Delivering
        /\ "ackFailed" \notin Delivering
    BY <1>4 DEF WorkerMarkFailed, Delivering
  <2>2. Counted(Held(w))
    BY <2>1, WorkerAlone DEF WorkerConsistent
  <2>3. RowUpdate(w, "failed", FALSE, "ackFailed")
    BY <1>4 DEF WorkerMarkFailed
  <2> QED
    BY <1>1, <2>1, <2>2, <2>3, RowUpdateStep
<1> QED
  BY <1>2, <1>3, <1>4

\* The five calls of a delivery, and a notification the worker does not hold.
LEMMA OtherStep ==
    ASSUME IInv, NEW w \in Workers,
           \/ WorkerMarkProcessing(w) \/ WorkerMarkDelivered(w) \/ WorkerMarkFailed(w)
           \/ WorkerTakeToken(w) \/ WorkerSend(w) \/ WorkerIncrement(w),
           UNCHANGED <<handler, ticker, ctx>>, NEW n \in Notifications, n # Held(w).n
    PROVE  Shrinks(n) /\ RowHarmless(n)
<1>1. /\ TypeOK
      /\ UNCHANGED <<stream, lastDelivered, handler, ticker>>
      /\ worker[w].pc \notin {"idle", "exited"}
  BY DEF IInv, WorkerMarkProcessing, WorkerMarkDelivered, WorkerMarkFailed, WorkerTakeToken,
         WorkerSend, WorkerIncrement, queueVars
<1>2. Held(w).n \in Notifications
  BY <1>1, HeldType
<1>3. \E next : \/ worker' = [worker EXCEPT ![w].pc = next]
                \/ worker' = [worker EXCEPT ![w] = IdleWorker]
  BY DEF WorkerMarkProcessing, WorkerMarkDelivered, WorkerMarkFailed, WorkerTakeToken,
         WorkerSend, WorkerIncrement, RowUpdate, Goto, Return
<1>4. received'[n] = received[n]
  <2>1. CASE WorkerSend(w)
    <3>1. received' = received \/ received' = [received EXCEPT ![Held(w).n] = @ + 1]
      BY <2>1 DEF WorkerSend
    <3> QED
      BY <1>1, <3>1 DEF TypeOK
  <2>2. CASE UNCHANGED received
    BY <2>2
  <2> QED
    BY <2>1, <2>2 DEF WorkerMarkProcessing, WorkerMarkDelivered, WorkerMarkFailed,
                      WorkerTakeToken, WorkerIncrement
<1>5. db'[n] = db[n]
  <2>1. CASE \E status \in {"processing", "delivered", "failed"}, p \in BOOLEAN :
                UpdateStatus(Held(w).n, status, p)
    BY <1>1, <1>2, <2>1, UpdatedRow DEF Statuses
  <2>2. CASE \E at \in Instants : IncrementAttempts(Held(w).n, at)
    BY <1>1, <1>2, <2>2, IncrementedRow
  <2>3. CASE db' = db
    BY <2>3
  <2> QED
    BY <2>1, <2>2, <2>3 DEF WorkerMarkProcessing, WorkerMarkDelivered, WorkerMarkFailed,
                      RowUpdate, WorkerTakeToken, WorkerSend, WorkerIncrement, Instants
<1> QED
  BY <1>1, <1>3, <1>4, <1>5, WorkerElsewhere

LEMMA AckStep ==
    ASSUME IInv, NEW w \in Workers, WorkerAck(w) \/ WorkerExit(w),
           UNCHANGED <<handler, ticker, ctx>>, NEW n \in Notifications
    PROVE  Shrinks(n) /\ RowHarmless(n)
<1>1. /\ UNCHANGED <<stream, lastDelivered, handler, ticker, received, db>>
      /\ worker' = [worker EXCEPT ![w].pc = "exited"]
            \/ worker' = [worker EXCEPT ![w] = IdleWorker]
  BY DEF WorkerAck, WorkerExit, Ack, queueVars, Goto, Return
<1>2. worker \in [Workers -> WorkerState]
  BY DEF IInv, TypeOK
<1>3. \A v \in Workers : WorkerCarries(v, n)' =>
         WorkerCarries(v, n) /\ worker'[v].pc = worker[v].pc /\ Held(v)' = Held(v)
  <2> SUFFICES ASSUME NEW v \in Workers, WorkerCarries(v, n)'
               PROVE  worker'[v] = worker[v]
    BY <1>1 DEF WorkerCarries, Held
  <2>1. worker'[w].pc \notin Delivering
    BY <1>1, <1>2 DEF WorkerState, IdleWorker, Delivering
  <2>2. v # w
    BY <2>1 DEF WorkerCarries
  <2> QED
    BY <1>1, <1>2, <2>2
<1>4. \A h \in Handlers : HandlerCarries(h, n)' => HandlerCarries(h, n)
  BY <1>1 DEF HandlerCarries
<1>5. \A t \in Tickers : TickerHolds(t)' = TickerHolds(t)
  BY <1>1 DEF TickerHolds
<1>6. RowHarmless(n) /\ (RowCarries(n)' => RowCarries(n))
  BY <1>1, SameRow
<1> QED
  BY <1>1, <1>3, <1>4, <1>5, <1>6, EntriesStay DEF Shrinks

\* What a worker reads, and what everybody else keeps.
LEMMA DequeueForms ==
    ASSUME IInv, NEW w \in Workers, WorkerDequeue(w), UNCHANGED <<handler, ticker, ctx>>,
           NEW q, q = Serves[w], NEW i, i = lastDelivered[q] + 1, NEW m, m = stream[q][i]
    PROVE  /\ q \in Queues /\ i \in DOMAIN stream[q] /\ m \in Message /\ QueueOf[m.n] = q
           /\ worker[w].pc = "idle"
           /\ UNCHANGED <<handler, ticker, db, received, resent, stream>>
           /\ \/ worker' = worker
              \/ /\ Dequeue(q)
                 /\ worker' = [worker EXCEPT ![w] = [pc |-> "markProcessing", pos |-> i]]
           /\ \A n \in Notifications :
                 n # m.n \/ worker' = worker => Shrinks(n) /\ RowHarmless(n)
<1>0. q \in Queues
  BY WorkerAssumption
<1>1. PICK o \in RequestOutcomes :
         /\ IF Applied(o) THEN Dequeue(q) ELSE UNCHANGED queueVars
         /\ IF Returned(o)
            THEN worker' = [worker EXCEPT ![w] = [pc  |-> "markProcessing",
                                                  pos |-> lastDelivered[q] + 1]]
            ELSE UNCHANGED worker
  BY <1>0 DEF WorkerDequeue
<1>2. /\ TypeOK
      /\ worker \in [Workers -> WorkerState]
      /\ lastDelivered \in [Queues -> Nat]
      /\ stream \in [Queues -> Seq(Message)]
      /\ worker[w].pc = "idle"
      /\ lastDelivered[q] < Len(stream[q])
      /\ UNCHANGED <<handler, ticker, db, received, resent>>
  BY <1>0, <1>1 DEF IInv, TypeOK, WorkerDequeue, HasNew, Dequeue, queueVars
<1>3. stream' = stream
  BY <1>1 DEF Dequeue, queueVars
<1>4. Applied(o) \/ ~Returned(o)
  BY DEF Applied, Returned
<1>7. i \in DOMAIN stream[q] /\ m \in Message /\ QueueOf[m.n] = q
  BY <1>0, <1>2 DEF TypeOK
<1>8. \/ worker' = worker
      \/ /\ Dequeue(q)
         /\ worker' = [worker EXCEPT ![w] = [pc |-> "markProcessing", pos |-> i]]
  BY <1>1, <1>4
<1>9. ASSUME NEW n \in Notifications, n # m.n \/ worker' = worker
      PROVE  Shrinks(n) /\ RowHarmless(n)
  <2>8. QueueOf[n] \in Queues
    BY QueueAssumption
  <2>9. \A j \in Unread(QueueOf[n])' : j \in Unread(QueueOf[n])
    <3>1. lastDelivered'[QueueOf[n]] \in Nat
          /\ lastDelivered[QueueOf[n]] <= lastDelivered'[QueueOf[n]]
      <4>1. \/ lastDelivered' = [lastDelivered EXCEPT ![q] = lastDelivered[q] + 1]
            \/ lastDelivered' = lastDelivered
        BY <1>1 DEF Dequeue, queueVars
      <4> QED
        BY <1>2, <2>8, <4>1
    <3>2. Len(stream[QueueOf[n]]) \in Nat /\ lastDelivered[QueueOf[n]] \in Nat
      BY <1>2, <2>8
    <3> QED
      BY <1>3, <3>1, <3>2 DEF Unread
  <2>10. \A h \in Handlers : HandlerCarries(h, n)' => HandlerCarries(h, n)
    BY <1>2 DEF HandlerCarries
  <2>11. \A t \in Tickers : TickerHolds(t)' = TickerHolds(t)
    BY <1>2 DEF TickerHolds
  <2>12. RowHarmless(n) /\ (RowCarries(n)' => RowCarries(n))
    BY <1>2, SameRow
  <2>13. \A v \in Workers : v # w /\ WorkerCarries(v, n)' =>
           WorkerCarries(v, n) /\ worker'[v].pc = worker[v].pc /\ Held(v)' = Held(v)
    BY <1>1, <1>2, <1>3 DEF WorkerCarries, Held
  <2>14. ~WorkerCarries(w, n)'
    <3>1. CASE worker' = worker
      <4>1. worker'[w].pc \notin Delivering
        BY <1>2, <3>1 DEF Delivering
      <4> QED
        BY <4>1 DEF WorkerCarries
    <3>2. CASE worker' # worker /\ n # m.n
      <4>1. worker'[w].pos = i
        BY <1>2, <1>8, <3>2
      <4>2. Held(w)' = m
        BY <1>0, <1>3, <4>1 DEF Held
      <4> QED
        BY <3>2, <4>2 DEF WorkerCarries
    <3> QED
      BY <1>9, <3>1, <3>2
  <2>15. \A j \in Unread(QueueOf[n])' : EntryCarries(j, n)' =>
           /\ j \in Unread(QueueOf[n])
           /\ EntryCarries(j, n)
           /\ stream'[QueueOf[n]][j] = stream[QueueOf[n]][j]
    BY <1>3, <2>9 DEF EntryCarries
  <2>16. Shrinks(n)
    BY <2>10, <2>11, <2>12, <2>13, <2>14, <2>15 DEF Shrinks
  <2> QED
    BY <2>12, <2>16
<1> QED
  BY <1>0, <1>2, <1>3, <1>7, <1>8, <1>9

LEMMA DequeueStep ==
    ASSUME IInv, NEW w \in Workers, WorkerDequeue(w), UNCHANGED <<handler, ticker, ctx>>,
           NEW n \in Notifications, resent[n] = 0
    PROVE  Passes(n)
<1>0. PICK q : q = Serves[w]
  OBVIOUS
<1>5. PICK i : i = lastDelivered[q] + 1
  OBVIOUS
<1>6. PICK m : m = stream[q][i]
  OBVIOUS
<1>1. /\ q \in Queues /\ i \in DOMAIN stream[q] /\ m \in Message /\ QueueOf[m.n] = q
      /\ worker[w].pc = "idle"
      /\ UNCHANGED <<handler, ticker, db, received, resent, stream>>
      /\ \/ worker' = worker
         \/ /\ Dequeue(q)
            /\ worker' = [worker EXCEPT ![w] = [pc |-> "markProcessing", pos |-> i]]
      /\ \A k \in Notifications :
            k # m.n \/ worker' = worker => Shrinks(k) /\ RowHarmless(k)
  BY <1>0, <1>5, <1>6, DequeueForms
<1>2. /\ TypeOK
      /\ Consistent(n)
      /\ worker \in [Workers -> WorkerState]
      /\ lastDelivered \in [Queues -> Nat]
      /\ stream \in [Queues -> Seq(Message)]
      /\ UNCHANGED <<handler, ticker, db, received>>
  BY <1>1 DEF IInv, TypeOK
<1>3. stream' = stream
  BY <1>1
<1>10. \A h \in Handlers : HandlerCarries(h, n)' => HandlerCarries(h, n)
  BY <1>2 DEF HandlerCarries
<1>11. \A t \in Tickers : TickerHolds(t)' = TickerHolds(t)
  BY <1>2 DEF TickerHolds
<1>12. RowHarmless(n) /\ (RowCarries(n)' => RowCarries(n))
  BY <1>2, SameRow
<1>14. CASE n # m.n \/ worker' = worker
  BY <1>1, <1>14 DEF Passes
<1>15. CASE n = m.n /\ worker' # worker
  <2>1. /\ Dequeue(q)
        /\ worker' = [worker EXCEPT ![w] = [pc |-> "markProcessing", pos |-> i]]
    BY <1>1, <1>15
  <2>2. QueueOf[n] = q
    BY <1>1, <1>15
  <2>3. i \in Unread(QueueOf[n]) /\ EntryCarries(i, n)
    BY <1>1, <1>2, <1>5, <1>6, <1>15, <2>2 DEF Unread, EntryCarries
  <2>4. \A x, y \in Carriers(n) : x = y
    BY <1>2 DEF Consistent
  <2>5. /\ \A h \in Handlers : ~HandlerCarries(h, n)
        /\ ~RowCarries(n)
        /\ \A t \in Tickers : ~TickerCarries(t, n)
        /\ \A j \in Unread(QueueOf[n]) : EntryCarries(j, n) => j = i
        /\ \A v \in Workers : ~WorkerCarries(v, n)
    BY <2>3, <2>4, SoleEntry
  <2>6. Carriers(n) # {}
    BY <2>3, Members
  <2>7. /\ db[n].status # "absent" /\ ~db[n].providerMessageID
        /\ db[n].attempts <= MaxAttempts /\ received[n] <= MaxAttempts
    BY <1>2, <2>6 DEF Consistent
  <2>8. Current(m)
    BY <1>2, <1>6, <2>2, <2>3 DEF Consistent
  <2>9. /\ \A h \in Handlers : ~HandlerCarries(h, n)'
        /\ ~RowCarries(n)'
        /\ \A v \in Workers : WorkerCarries(v, n)' => v = w
    <3>1. \A v \in Workers : v # w /\ WorkerCarries(v, n)' => WorkerCarries(v, n)
      BY <1>2, <1>3, <2>1 DEF WorkerCarries, Held
    <3> QED
      BY <1>10, <1>12, <2>5, <3>1
  <2>10. \A t \in Tickers : ~TickerCarries(t, n)'
    BY <1>11, <2>5 DEF TickerCarries
  <2>11. \A j \in Unread(QueueOf[n])' : ~EntryCarries(j, n)'
    <3> SUFFICES ASSUME NEW j \in Unread(QueueOf[n])', EntryCarries(j, n)'
                 PROVE  FALSE
      OBVIOUS
    <3>2. lastDelivered'[q] = i /\ lastDelivered[q] \in Nat
      BY <1>1, <1>2, <1>5, <2>1 DEF Dequeue
    <3>3. Len(stream'[q]) \in Nat
      BY <1>1, <1>2, <1>3
    <3>4. j \in Unread(QueueOf[n]) /\ j # i
      BY <1>3, <1>5, <2>2, <3>2, <3>3 DEF Unread
    <3> QED
      BY <1>3, <2>5, <3>4 DEF EntryCarries
  <2>12. worker'[w].pc = "markProcessing" /\ worker'[w].pos = i
    BY <1>2, <2>1
  <2>13. Held(w)' = m
    BY <1>0, <1>3, <1>6, <2>12 DEF Held
  <2>14. WorkerConsistent(w)'
    BY <1>2, <1>15, <2>8, <2>12, <2>13 DEF WorkerConsistent, Current
  <2>15. /\ db'[n].status # "absent" /\ ~db'[n].providerMessageID
         /\ db'[n].attempts <= MaxAttempts /\ received'[n] <= MaxAttempts
    BY <1>2, <2>7
  <2>16. Consistent(n)'
    BY <2>9, <2>10, <2>11, <2>14, <2>15, OnlyWorkerOrRow
  <2> QED
    BY <2>3, <2>16 DEF Passes, NobodyCarries
<1> QED
  BY <1>14, <1>15

LEMMA WorkerPasses ==
    ASSUME IInv, NEW w \in Workers, WorkerNext(w), NEW n \in Notifications, resent[n] = 0
    PROVE  Passes(n)
BY DequeueStep, MarkStep, TakeTokenStep, SendStep, IncrementStep, OtherStep, AckStep
   DEF Passes, WorkerNext, WorkerStep

--------------------------------------------------------------------------------
(***************************************************************************)
(* The process, and time.                                                  *)
(***************************************************************************)
LEMMA TimeStep ==
    ASSUME IInv, NEW k \in Notifications, TimePasses(k), NEW n \in Notifications,
           ~Exists(n) => db[n] = NoRow
    PROVE  Shrinks(n) /\ RowHarmless(n)
<1>1. /\ TypeOK
      /\ db \in [Notifications -> Row]
      /\ UNCHANGED <<stream, lastDelivered, received, worker, handler, ticker>>
  BY DEF IInv, TypeOK, TimePasses, queueVars
<1>2. RowHarmless(n) /\ (RowCarries(n)' => RowCarries(n))
  <2>1. CASE n # k
    BY <1>1, <2>1, SameRow DEF TimePasses, ScheduledTimeArrives, RetryTimeArrives
  <2>2. CASE n = k /\ ScheduledTimeArrives(k)
    <3>1. db'[n] = [db[n] EXCEPT !.scheduledAt = "past"] /\ db[n].scheduledAt = "future"
      BY <1>1, <2>2 DEF ScheduledTimeArrives
    <3> QED
      BY <1>1, <2>2, <3>1 DEF ScheduledTimeArrives, Exists, Row, RowHarmless, RowCarries
  <2>3. CASE n = k /\ RetryTimeArrives(k)
    <3>1. db'[n] = [db[n] EXCEPT !.nextRetryAt = "past"] /\ db[n].nextRetryAt = "future"
      BY <1>1, <2>3 DEF RetryTimeArrives
    <3>2. db[n].status # "absent"
      BY <1>1, <3>1 DEF Exists, NoRow
    <3> QED
      BY <1>1, <3>1, <3>2 DEF Row, RowHarmless, RowCarries
  <2> QED
    BY <2>1, <2>2, <2>3 DEF TimePasses
<1>3. \A t \in Tickers : TickerHolds(t)' = TickerHolds(t)
  BY <1>1 DEF TickerHolds
<1> QED
  BY <1>1, <1>2, <1>3, TickerFrame DEF Shrinks

LEMMA ProcessStep ==
    ASSUME IInv, (\E p \in Processes : Shutdown(p) \/ StartProcess(p)) \/ UNCHANGED vars,
           NEW n \in Notifications
    PROVE  Shrinks(n) /\ RowHarmless(n)
<1>1. /\ TypeOK
      /\ UNCHANGED <<stream, lastDelivered, received, db>>
  BY DEF IInv, Shutdown, StartProcess, vars, queueVars
<1>2. RowHarmless(n) /\ (RowCarries(n)' => RowCarries(n))
  BY <1>1, SameRow
<1>3. /\ \A h \in Handlers : handler'[h] = handler[h] \/ handler'[h] = IdleHandler
      /\ \A t \in Tickers : ticker'[t] = ticker[t] \/ ticker'[t] = IdleTicker
      /\ \A w \in Workers : worker'[w] = worker[w] \/ worker'[w] = IdleWorker
  BY DEF Shutdown, StartProcess, vars
<1>4. \A h \in Handlers : HandlerCarries(h, n)' => HandlerCarries(h, n)
  BY <1>3 DEF IdleHandler, HandlerCarries
<1>5. \A t \in Tickers : \A m \in TickerHolds(t)' : m \in TickerHolds(t)
  BY <1>3 DEF IdleTicker, TickerHolds
<1>6. \A w \in Workers : WorkerCarries(w, n)' =>
         /\ WorkerCarries(w, n)
         /\ worker'[w].pc = worker[w].pc
         /\ Held(w)' = Held(w)
  BY <1>1, <1>3 DEF IdleWorker, WorkerCarries, Delivering, Held
<1> QED
  BY <1>1, <1>2, <1>4, <1>5, <1>6, EntriesStay DEF Shrinks

--------------------------------------------------------------------------------
LEMMA IInvInit == Init => IInv
<1> SUFFICES ASSUME Init PROVE IInv
  OBVIOUS
<1>1. TypeOK
  BY TypeInit
<1>2. \A h \in Handlers : RequestConsistent(handler[h])
  BY DEF Init, IdleHandler, RequestConsistent
<1>3. \A t \in Tickers : ticker[t].cur \notin ticker[t].todo
  BY DEF Init, IdleTicker
<1>4. \A n \in Notifications : Consistent(n)
  <2> SUFFICES ASSUME NEW n \in Notifications PROVE Consistent(n)
    OBVIOUS
  <2>1. db[n] = NoRow /\ received[n] = 0
    BY DEF Init
  <2>2. \A h \in Handlers : ~HandlerCarries(h, n)
    BY DEF Init, IdleHandler, HandlerCarries
  <2>3. ~RowCarries(n)
    BY <2>1 DEF RowCarries, NoRow
  <2>4. \A t \in Tickers : TickerHolds(t) = {}
    BY DEF Init, IdleTicker, TickerHolds
  <2>5. \A i \in Unread(QueueOf[n]) : ~EntryCarries(i, n)
    BY QueueAssumption DEF Init, Unread
  <2>6. \A w \in Workers : ~WorkerCarries(w, n)
    BY DEF Init, IdleWorker, WorkerCarries, Delivering
  <2>7. Carriers(n) = {}
    BY <2>2, <2>3, <2>4, <2>5, <2>6, NoCarriers DEF NobodyCarries, TickerCarries
  <2>8. db[n].attempts <= MaxAttempts /\ received[n] <= MaxAttempts
    BY <2>1, NotificationAssumption DEF NoRow
  <2> QED
    BY <2>1, <2>2, <2>3, <2>4, <2>5, <2>6, <2>7, <2>8 DEF Consistent
<1> QED
  BY <1>1, <1>2, <1>3, <1>4 DEF IInv

\* The Redis client only ever sends again.
LEMMA ResentGrows ==
    ASSUME TypeOK, [Next]_vars, NEW n \in Notifications
    PROVE  resent[n] <= resent'[n]
<1>1. resent \in [Notifications -> Nat] /\ resent[n] \in Nat
  BY DEF TypeOK
<1>2. \A m : EnqueueUnanswered(m) => resent'[n] \in {resent[n], resent[n] + 1}
  BY <1>1 DEF EnqueueUnanswered
<1>3. resent'[n] \in {resent[n], resent[n] + 1}
  <2>1. CASE UNCHANGED resent
    BY <2>1
  <2>2. ASSUME NEW h \in Handlers, HandlerNext(h)
        PROVE  resent'[n] \in {resent[n], resent[n] + 1}
    <3>1. HandlerResend(h) \/ UNCHANGED resent
      BY <2>2 DEF HandlerNext, HandlerStep, HandlerProceed, HandlerPersist, HandlerCancel,
         HandlerBroadcastPending, HandlerEnqueue, Enqueue, HandlerMarkQueued,
         HandlerBroadcastQueued, HandlerBroadcastCancelled, HandlerDisconnect, queueVars
    <3> QED
      BY <1>2, <3>1 DEF HandlerResend
  <2>3. ASSUME NEW t \in Tickers, TickerNext(t)
        PROVE  resent'[n] \in {resent[n], resent[n] + 1}
    <3>1. TickerResend(t) \/ UNCHANGED resent
      BY <2>3 DEF TickerNext, TickerStep, TickerFetchScheduled, TickerFetchRetry, Fetch,
         TickerMarkQueued, TickerEnqueue, Enqueue, TickerExit, queueVars
    <3> QED
      BY <1>2, <3>1 DEF TickerResend
  <2>4. CASE \E w \in Workers : WorkerNext(w)
    BY <2>4 DEF WorkerNext, WorkerStep, WorkerDequeue, Dequeue, WorkerMarkProcessing,
       WorkerTakeToken, WorkerSend, WorkerMarkDelivered, WorkerIncrement, WorkerMarkFailed,
       WorkerAck, Ack, WorkerExit, queueVars
  <2> QED
    BY <2>1, <2>2, <2>3, <2>4 DEF Next, vars, TimePasses, Shutdown, Restart, Crash,
       StartProcess, queueVars
<1> QED
  BY <1>1, <1>3

\* Every step passes the right on, keeps it or drops it, unless the Redis client
\* doubles it.
LEMMA RightPasses ==
    ASSUME IInv, [Next]_vars, NEW n \in Notifications, resent'[n] = 0
    PROVE  resent[n] = 0 /\ Passes(n)
<1>1. resent[n] = 0
  <2>1. resent[n] \in Nat /\ resent[n] <= resent'[n]
    BY ResentGrows DEF IInv, TypeOK
  <2> QED
    BY <2>1
<1>2. ~Exists(n) => db[n] = NoRow
  BY <1>1 DEF IInv, Consistent, Exists
<1> QED
  BY <1>1, <1>2, HandlerPasses, TickerPasses, WorkerPasses, TimeStep, ProcessStep
     DEF Passes, Next, Restart, Crash

LEMMA IInvStep ==
    ASSUME IInv, [Next]_vars
    PROVE  IInv'
<1>1. TypeOK'
  BY TypeStep DEF IInv
<1>2. \A n \in Notifications : resent'[n] = 0 => Consistent(n)'
  BY RightPasses, ConsistentPasses DEF IInv
<1>3. \A h \in Handlers : RequestConsistent(handler'[h])
  <2>1. CASE UNCHANGED handler
    BY <2>1 DEF IInv
  <2>2. CASE \E h \in Handlers : HandlerNext(h)
    BY <2>2, RequestsConsistent
  <2>3. CASE \E p \in Processes : StartProcess(p)
    BY <2>3 DEF StartProcess, IdleHandler, IInv, RequestConsistent
  <2> QED
    BY <2>1, <2>2, <2>3
       DEF Next, TickerNext, WorkerNext, TimePasses, Shutdown, Restart, Crash, vars
<1>4. \A t \in Tickers : ticker'[t].cur \notin ticker'[t].todo
  <2>1. CASE UNCHANGED ticker
    BY <2>1 DEF IInv
  <2>2. CASE \E t \in Tickers : TickerNext(t)
    BY <2>2, TickerCurrent
  <2>3. CASE \E p \in Processes : StartProcess(p)
    BY <2>3 DEF StartProcess, IdleTicker, IInv
  <2> QED
    BY <2>1, <2>2, <2>3
       DEF Next, HandlerNext, WorkerNext, TimePasses, Shutdown, Restart, Crash, vars
<1> QED
  BY <1>1, <1>2, <1>3, <1>4 DEF IInv, RequestConsistent

\* The invariant behind the delivery properties holds of every execution, whatever
\* fails.
THEOREM IInvCorrect == Spec => []IInv
<1>1. IInv /\ [Next]_vars => IInv'
  BY IInvStep
<1> QED
  BY <1>1, IInvInit, PTL DEF Spec

--------------------------------------------------------------------------------
(***************************************************************************)
(* No delivery before its time.  Underway is only entered from a row whose *)
(* times have come, and a time is set only where it is not.                *)
(***************************************************************************)
\* What a step keeps of the times in a row.
TimesKept(n) ==
    /\ db'[n].scheduledAt = db[n].scheduledAt
    /\ db'[n].nextRetryAt = db[n].nextRetryAt
    /\ db'[n].status = "pending" => db[n].status = "pending"

\* Such a step, when it takes the right out of the row only in time.
Timely(n) == TimesKept(n) /\ (Underway(n)' => Underway(n) \/ ~Early(n))

LEMMA TimelyKeepsDue ==
    ASSUME NEW n, resent[n] = 0, resent'[n] = 0, Due(n), Timely(n)
    PROVE  Due(n)'
BY DEF Due, Timely, TimesKept, Early

LEMMA UpdateKeepsTimes ==
    ASSUME TypeOK, NEW m \in Notifications, NEW status \in Statuses \ {"pending"},
           NEW p \in BOOLEAN,
           \/ db' = db
           \/ UpdateStatus(m, status, p)
           \/ db' = [db EXCEPT ![m].status = status],
           NEW n \in Notifications
    PROVE  TimesKept(n)
<1>1. db \in [Notifications -> Row] /\ db[n] \in Row
  BY DEF TypeOK
<1>2. CASE db'[n] = db[n]
  BY <1>2 DEF TimesKept
<1>3. CASE n = m /\ db' # db
  <2>1. \/ db'[n] = [db[n] EXCEPT !.status = status,
                               !.providerMessageID = @ \/ p]
        \/ db'[n] = [db[n] EXCEPT !.status = status]
    BY <1>1, <1>3 DEF UpdateStatus
  <2>2. /\ db'[n].status = status
        /\ db'[n].scheduledAt = db[n].scheduledAt
        /\ db'[n].nextRetryAt = db[n].nextRetryAt
    BY <1>1, <2>1 DEF Row
  <2> QED
    BY <2>2 DEF TimesKept
<1>4. n # m => db'[n] = db[n]
  BY <1>1 DEF UpdateStatus
<1> QED
  BY <1>2, <1>3, <1>4

LEMMA FetchKeepsTimes ==
    ASSUME TypeOK, NEW batch \in SUBSET Notifications, MarkFetched(batch) \/ db' = db,
           NEW n \in Notifications
    PROVE  TimesKept(n)
<1>1. db[n] \in Row /\ (db'[n] = db[n] \/ db'[n] = [db[n] EXCEPT !.status = "queued"])
  BY DEF MarkFetched, TypeOK
<1> QED
  BY <1>1 DEF Row, TimesKept

LEMMA ShrinksUnderway ==
    ASSUME NEW n, Shrinks(n), Underway(n)'
    PROVE  Underway(n)
<1>1. \A t \in Tickers : TickerCarries(t, n)' => TickerCarries(t, n)
  BY DEF Shrinks, TickerCarries
<1> QED
  BY <1>1 DEF Shrinks, Underway

\* Requests: a new row that a request enqueues by itself has no time to wait for.
LEMMA PersistDue ==
    ASSUME IInv, NEW h \in Handlers, HandlerPersist(h),
           UNCHANGED <<received, ticker, worker, ctx>>, NEW n \in Notifications,
           resent[n] = 0, resent'[n] = 0, Due(n)
    PROVE  Due(n)'
<1>1. PICK batch \in SUBSET Notifications, o \in RequestOutcomes :
         /\ CanInsert(batch)
         /\ IF Applied(o) THEN CreateBatch(batch) ELSE UNCHANGED db
         /\ IF Returned(o)
            THEN handler' = [handler EXCEPT ![h] = [pc   |-> "broadcastPending",
                                                    todo |-> batch,
                                                    cur  |-> Nil]]
            ELSE UNCHANGED handler
  BY DEF HandlerPersist
<1>2. /\ TypeOK
      /\ Consistent(n)
      /\ handler \in [Handlers -> HandlerState]
      /\ UNCHANGED <<stream, lastDelivered, worker, ticker>>
  BY DEF IInv, TypeOK, HandlerPersist, queueVars
<1>3. \A t \in Tickers : TickerCarries(t, n)' => TickerCarries(t, n)
  BY <1>2 DEF TickerCarries, TickerHolds
<1>4. /\ \A i \in Unread(QueueOf[n])' : EntryCarries(i, n)' =>
            i \in Unread(QueueOf[n]) /\ EntryCarries(i, n)
      /\ \A w \in Workers : WorkerCarries(w, n)' =>
            WorkerCarries(w, n) /\ worker'[w].pc = worker[w].pc
  BY <1>2, EntriesStay, WorkersStay
<1>5. \A g \in Handlers : HandlerCarries(g, n)' =>
         HandlerCarries(g, n) \/ (n \in batch \ Scheduled /\ Returned(o))
  BY <1>1, <1>2 DEF HandlerCarries
<1>6. Applied(o) \/ ~Returned(o)
  BY DEF Applied, Returned
<1>7. CASE n \in batch /\ Applied(o)
  <2>1. db'[n] = NewNotification(n)
    BY <1>1, <1>7 DEF CreateBatch
  <2>2. ~Exists(n)
    BY <1>1, <1>7 DEF CanInsert
  <2>3. Carriers(n) = {}
    BY <1>2, <2>2 DEF Consistent, Exists
  <2>4. NobodyCarries(n)
    BY <2>3, NoCarriers
  <2>5. n \in Scheduled => ~Underway(n)'
    BY <1>3, <1>4, <1>5, <2>4 DEF Underway, NobodyCarries
  <2>6. db'[n].nextRetryAt = "null" /\ (n \notin Scheduled => db'[n].scheduledAt = "null")
    BY <2>1 DEF NewNotification
  <2> QED
    BY <2>5, <2>6 DEF Due, Early
<1>8. CASE ~(n \in batch /\ Applied(o))
  <2>1. db'[n] = db[n]
    BY <1>1, <1>8 DEF CreateBatch
  <2>2. Underway(n)' => Underway(n)
    BY <1>3, <1>4, <1>5, <1>6, <1>8 DEF Underway
  <2> QED
    BY <2>1, <2>2, TimelyKeepsDue DEF Timely, TimesKept
<1> QED
  BY <1>7, <1>8

LEMMA HandlerEnqueueTimely ==
    ASSUME IInv, NEW h \in Handlers, HandlerEnqueue(h),
           UNCHANGED <<received, ticker, worker, ctx>>, NEW n \in Notifications
    PROVE  Timely(n)
<1>1. PICK k \in handler[h].todo, o \in EnqueueOutcomes(RequestOutcomes) :
         /\ IF Applied(o) THEN Enqueue([n |-> k, attempts |-> 0]) ELSE UNCHANGED queueVars
         /\ handler' = [handler EXCEPT ![h] =
               IF Returned(o)
               THEN [pc |-> "markQueued", todo |-> handler[h].todo \ {k}, cur |-> k]
               ELSE Continue(handler[h].todo \ {k})]
  BY DEF HandlerEnqueue
<1>2. /\ TypeOK
      /\ handler \in [Handlers -> HandlerState]
      /\ handler[h] \in HandlerState
      /\ RequestConsistent(handler[h])
      /\ handler[h].pc = "enqueue"
      /\ UNCHANGED <<db, worker, ticker, received>>
  BY DEF IInv, TypeOK, HandlerEnqueue
<1>3. TimesKept(n)
  BY <1>2 DEF TimesKept
<1>4. CASE n = k
  <2>1. HandlerCarries(h, n)
    BY <1>1, <1>2, <1>4 DEF HandlerCarries, RequestConsistent
  <2> QED
    BY <1>3, <2>1 DEF Timely, Underway
<1>5. CASE n # k
  <2>1. \A g \in Handlers : HandlerCarries(g, n)' => HandlerCarries(g, n)
    BY <1>1, <1>2 DEF HandlerCarries, Continue, IdleHandler
  <2>2. \A t \in Tickers : TickerHolds(t)' = TickerHolds(t)
    BY <1>2 DEF TickerHolds
  <2>3. PICK m : m = [n |-> k, attempts |-> 0]
    OBVIOUS
  <2>4. m \in Message /\ m.n = k
    BY <1>1, <1>2, <2>3 DEF HandlerState, Message
  <2>5. Added(m) \/ UNCHANGED queueVars
    BY <1>1, <2>3, EnqueueAdds
  <2>6. CASE Added(m)
    BY <1>2, <1>3, <1>5, <2>1, <2>2, <2>4, <2>6, EntryOfAnother, ShrinksUnderway DEF Timely
  <2>7. CASE UNCHANGED queueVars
    <3>1. RowHarmless(n) /\ (RowCarries(n)' => RowCarries(n))
      BY <1>2, SameRow
    <3>2. \A w \in Workers : WorkerCarries(w, n)' =>
             WorkerCarries(w, n) /\ worker'[w].pc = worker[w].pc /\ Held(w)' = Held(w)
      BY <1>2, <2>7, WorkersStay DEF queueVars
    <3>3. \A i \in Unread(QueueOf[n])' : EntryCarries(i, n)' =>
             /\ i \in Unread(QueueOf[n])
             /\ EntryCarries(i, n)
             /\ stream'[QueueOf[n]][i] = stream[QueueOf[n]][i]
      BY <2>7, EntriesStay DEF queueVars
    <3>4. Shrinks(n)
      BY <2>1, <2>2, <3>1, <3>2, <3>3 DEF Shrinks
    <3> QED
      BY <1>3, <3>4, ShrinksUnderway DEF Timely
  <2> QED
    BY <2>5, <2>6, <2>7
<1> QED
  BY <1>4, <1>5

LEMMA HandlerDue ==
    ASSUME IInv, NEW h \in Handlers, HandlerNext(h),
           NEW n \in Notifications, resent[n] = 0, resent'[n] = 0, Due(n)
    PROVE  Due(n)'
<1>1. UNCHANGED <<received, ticker, worker, ctx>>
  BY DEF HandlerNext
<1>2. CASE HandlerPersist(h)
  BY <1>1, <1>2, PersistDue
<1>3. CASE HandlerEnqueue(h)
  BY <1>1, <1>3, HandlerEnqueueTimely, TimelyKeepsDue
<1>4. ASSUME \/ HandlerBroadcastPending(h) \/ HandlerMarkQueued(h)
             \/ HandlerBroadcastQueued(h) \/ HandlerCancel(h)
             \/ HandlerBroadcastCancelled(h) \/ HandlerDisconnect(h) \/ HandlerResend(h)
      PROVE  Due(n)'
  <2>1. Shrinks(n)
    BY <1>1, <1>4, HandlerOtherStep, HandlerResendStep
  <2>2. TypeOK /\ handler[h] \in HandlerState
    BY DEF IInv, TypeOK
  <2>3. {"queued", "cancelled"} \subseteq Statuses \ {"pending"} /\ FALSE \in BOOLEAN
    BY DEF Statuses
  <2>4. TimesKept(n)
    <3>1. CASE db' = db
      BY <3>1 DEF TimesKept
    <3>2. CASE HandlerMarkQueued(h)
      <4>1. UpdateStatus(handler[h].cur, "queued", FALSE) \/ db' = db
        BY <3>2 DEF HandlerMarkQueued
      <4>2. handler[h].cur \in Notifications
        BY <2>2, <3>2 DEF HandlerMarkQueued, TypeOK, HandlerState
      <4> QED
        BY <2>2, <2>3, <4>1, <4>2, UpdateKeepsTimes
    <3>3. CASE HandlerCancel(h)
      <4>1. PICK m \in Notifications : db' = [db EXCEPT ![m].status = "cancelled"] \/ db' = db
        BY <3>3 DEF HandlerCancel, Cancel
      <4> QED
        BY <2>2, <2>3, <4>1, UpdateKeepsTimes
    <3> QED
      BY <1>4, <3>1, <3>2, <3>3
         DEF HandlerBroadcastPending, HandlerBroadcastQueued, HandlerBroadcastCancelled,
             HandlerDisconnect, HandlerResend
  <2> QED
    BY <2>1, <2>4, ShrinksUnderway, TimelyKeepsDue DEF Timely
<1> QED
  BY <1>2, <1>3, <1>4 DEF HandlerNext, HandlerStep, HandlerProceed

\* Tickers: a fetch takes rows only whose times have come.
LEMMA FetchTimely ==
    ASSUME IInv, NEW t \in Tickers, NEW ready, Fetch(t, ready),
           \A k \in ready : k \in Notifications /\ ~Early(k),
           UNCHANGED <<announced, received, handler, worker, ctx>>, NEW n \in Notifications
    PROVE  Timely(n)
<1>1. PICK batch \in SUBSET ready \ {{}}, o \in RequestOutcomes :
         /\ IF Applied(o) THEN MarkFetched(batch) ELSE UNCHANGED db
         /\ IF Returned(o)
            THEN ticker' = [ticker EXCEPT ![t].todo = Fetched(batch)]
            ELSE UNCHANGED ticker
  BY DEF Fetch
<1>2. /\ TypeOK
      /\ batch \in SUBSET Notifications
      /\ ticker \in [Tickers -> TickerState]
      /\ UNCHANGED <<stream, lastDelivered, worker, handler>>
  BY DEF Fetch, queueVars, IInv, TypeOK
<1>3. TimesKept(n)
  BY <1>1, <1>2, FetchKeepsTimes
<1>4. n \notin batch => \A m \in Fetched(batch) : m.n # n
  BY DEF Fetched
<1>5. n \notin batch => \A s \in Tickers : TickerCarries(s, n)' => TickerCarries(s, n)
  BY <1>1, <1>2, <1>4 DEF TickerCarries, TickerHolds, TickerState
<1>6. n \notin batch => (Underway(n)' => Underway(n))
  BY <1>2, <1>5, TickerFrame DEF Underway
<1> QED
  BY <1>3, <1>6 DEF Timely

\* A row that is ready has come to all its times.
LEMMA ReadyNotEarly ==
    ASSUME TypeOK, \A n \in Notifications : Due(n)
    PROVE  /\ \A k \in ScheduledReady : k \in Notifications /\ ~Early(k)
           /\ \A k \in RetryReady : k \in Notifications /\ ~Early(k)
<1>1. \A n \in Notifications : resent[n] = 0 \/ resent[n] > 0
  BY DEF TypeOK
<1> QED
  BY <1>1 DEF ScheduledReady, RetryReady, Due, Early

LEMMA TickerEnqueueTimely ==
    ASSUME IInv, NEW t \in Tickers, TickerEnqueue(t),
           UNCHANGED <<announced, received, handler, worker, ctx>>, NEW n \in Notifications
    PROVE  Timely(n)
<1>1. PICK m : m = ticker[t].cur
  OBVIOUS
<1>2. /\ TypeOK
      /\ ticker \in [Tickers -> TickerState]
      /\ ticker[t] \in TickerState
      /\ m # Nil
      /\ ticker' = [ticker EXCEPT ![t].cur = Nil]
      /\ UNCHANGED <<db, worker, handler, received>>
  BY <1>1 DEF TickerEnqueue, IInv, TypeOK
<1>3. m \in Message
  BY <1>1, <1>2 DEF TickerState
<1>4. Added(m) \/ UNCHANGED queueVars
  BY <1>1, EnqueueAdds DEF TickerEnqueue
<1>5. \A s \in Tickers : TickerHolds(s)' \subseteq TickerHolds(s)
  BY <1>2 DEF TickerHolds, TickerState
<1>6. TimesKept(n)
  BY <1>2 DEF TimesKept
<1>7. CASE n = m.n
  <2>1. TickerCarries(t, n)
    BY <1>1, <1>2, <1>7 DEF TickerCarries, TickerHolds
  <2> QED
    BY <1>6, <2>1 DEF Timely, Underway
<1>8. CASE n # m.n /\ Added(m)
  <2>1. \A h \in Handlers : HandlerCarries(h, n)' => HandlerCarries(h, n)
    BY <1>2 DEF HandlerCarries
  <2> QED
    BY <1>2, <1>3, <1>5, <1>6, <1>8, <2>1, EntryOfAnother, ShrinksUnderway DEF Timely
<1>9. CASE UNCHANGED queueVars
  <2>1. UNCHANGED <<stream, lastDelivered, worker, handler>>
    BY <1>2, <1>9 DEF queueVars
  <2>2. \A s \in Tickers : TickerCarries(s, n)' => TickerCarries(s, n)
    BY <1>5 DEF TickerCarries
  <2> QED
    BY <1>2, <1>6, <2>1, <2>2, TickerFrame DEF Timely, Underway
<1> QED
  BY <1>4, <1>7, <1>8, <1>9

LEMMA TickerDue ==
    ASSUME IInv, NEW t \in Tickers, TickerNext(t),
           \A n \in Notifications : Due(n),
           NEW n \in Notifications, resent[n] = 0, resent'[n] = 0
    PROVE  Due(n)'
<1>1. UNCHANGED <<announced, received, handler, worker, ctx>>
  BY DEF TickerNext
<1>2. CASE TickerFetchScheduled(t) \/ TickerFetchRetry(t)
  BY <1>1, <1>2, FetchTimely, ReadyNotEarly, TimelyKeepsDue
     DEF IInv, TickerFetchScheduled, TickerFetchRetry
<1>3. CASE TickerEnqueue(t)
  BY <1>1, <1>3, TickerEnqueueTimely, TimelyKeepsDue
<1>4. CASE TickerMarkQueued(t) \/ TickerExit(t) \/ TickerResend(t)
  <2>1. Shrinks(n)
    BY <1>1, <1>4, TickerMarkStep, TickerResendStep
  <2>2. PICK m \in Notifications : UpdateStatus(m, "queued", FALSE) \/ db' = db
    <3>1. ticker[t] \in TickerState
      BY DEF IInv, TypeOK
    <3> QED
      BY <1>4, <3>1 DEF TickerMarkQueued, TickerExit, TickerResend, TickerState, Message
  <2>3. "queued" \in Statuses \ {"pending"} /\ FALSE \in BOOLEAN /\ TypeOK
    BY DEF Statuses, IInv
  <2>4. TimesKept(n)
    BY <2>2, <2>3, UpdateKeepsTimes
  <2> QED
    BY <2>1, <2>4, ShrinksUnderway, TimelyKeepsDue DEF Timely
<1> QED
  BY <1>2, <1>3, <1>4 DEF TickerNext, TickerStep

\* Workers: each goes on with the notification it holds, and only with that.
LEMMA WorkerUnderway ==
    ASSUME TypeOK, NEW w \in Workers, UNCHANGED <<stream, lastDelivered, handler, ticker>>,
           NEW next, \/ worker' = [worker EXCEPT ![w].pc = next]
                     \/ worker' = [worker EXCEPT ![w] = IdleWorker],
           next \in Delivering \ {"markFailed"} => worker[w].pc \in Delivering \ {"markFailed"},
           NEW n, Underway(n)'
    PROVE  Underway(n)
<1>1. worker \in [Workers -> WorkerState] /\ worker[w] \in WorkerState
  BY DEF TypeOK
<1>2. \A h \in Handlers : HandlerCarries(h, n)' => HandlerCarries(h, n)
  BY DEF HandlerCarries
<1>3. \A t \in Tickers : TickerCarries(t, n)' => TickerCarries(t, n)
  BY DEF TickerCarries, TickerHolds
<1>4. \A i \in Unread(QueueOf[n])' : EntryCarries(i, n)' =>
         i \in Unread(QueueOf[n]) /\ EntryCarries(i, n)
  BY DEF Unread, EntryCarries
<1>5. ASSUME NEW v \in Workers, WorkerCarries(v, n)', worker'[v].pc # "markFailed"
      PROVE  WorkerCarries(v, n) /\ worker[v].pc # "markFailed"
  <2>1. CASE v # w
    BY <1>1, <1>5, <2>1 DEF WorkerCarries, Held
  <2>2. CASE v = w
    <3>1. worker'[w].pc \in Delivering
      BY <1>5, <2>2 DEF WorkerCarries
    <3>2. worker' = [worker EXCEPT ![w].pc = next]
      BY <1>1, <3>1 DEF IdleWorker, Delivering
    <3>3. worker'[w].pc = next /\ worker'[w].pos = worker[w].pos
      BY <1>1, <3>2 DEF WorkerState
    <3>4. Held(w)' = Held(w)
      BY <3>3 DEF Held
    <3> QED
      BY <1>5, <2>2, <3>1, <3>3, <3>4 DEF WorkerCarries
  <2> QED
    BY <2>1, <2>2
<1> QED
  BY <1>2, <1>3, <1>4, <1>5 DEF Underway

LEMMA RowUpdateTimely ==
    ASSUME IInv, NEW w \in Workers, worker[w].pc \in Delivering,
           NEW status \in Statuses \ {"pending"}, NEW p \in BOOLEAN, NEW next,
           RowUpdate(w, status, p, next),
           UNCHANGED <<stream, lastDelivered, handler, ticker>>,
           next \in Delivering \ {"markFailed"} => worker[w].pc \in Delivering \ {"markFailed"},
           NEW n \in Notifications
    PROVE  Timely(n)
<1>1. TypeOK /\ Held(w).n \in Notifications
  BY HeldType DEF IInv, Delivering
<1>2. UpdateStatus(Held(w).n, status, p) \/ db' = db
  BY DEF RowUpdate
<1>3. \/ worker' = [worker EXCEPT ![w].pc = next]
      \/ worker' = [worker EXCEPT ![w] = IdleWorker]
  BY DEF RowUpdate, Goto, Return
<1>4. TimesKept(n)
  BY <1>1, <1>2, UpdateKeepsTimes
<1> QED
  BY <1>1, <1>3, <1>4, WorkerUnderway DEF Timely

LEMMA WorkerMarkTimely ==
    ASSUME IInv, NEW w \in Workers,
           WorkerMarkProcessing(w) \/ WorkerMarkDelivered(w) \/ WorkerMarkFailed(w),
           UNCHANGED <<handler, ticker, ctx>>, NEW n \in Notifications
    PROVE  Timely(n)
<1>1. UNCHANGED <<stream, lastDelivered, handler, ticker>>
  BY DEF WorkerMarkProcessing, WorkerMarkDelivered, WorkerMarkFailed, queueVars
<1>2. /\ {"processing", "delivered", "failed"} \subseteq Statuses \ {"pending"}
      /\ TRUE \in BOOLEAN /\ FALSE \in BOOLEAN
  BY DEF Statuses
<1>3. CASE WorkerMarkProcessing(w)
  <2>1. /\ worker[w].pc \in Delivering \ {"markFailed"}
        /\ RowUpdate(w, "processing", FALSE, "takeToken")
    BY <1>3 DEF WorkerMarkProcessing, Delivering
  <2> QED
    BY <1>1, <1>2, <2>1, RowUpdateTimely
<1>4. CASE WorkerMarkDelivered(w)
  <2>1. /\ worker[w].pc \in Delivering /\ "ackDelivered" \notin Delivering
        /\ RowUpdate(w, "delivered", TRUE, "ackDelivered")
    BY <1>4 DEF WorkerMarkDelivered, Delivering
  <2> QED
    BY <1>1, <1>2, <2>1, RowUpdateTimely
<1>5. CASE WorkerMarkFailed(w)
  <2>1. /\ worker[w].pc \in Delivering /\ "ackFailed" \notin Delivering
        /\ RowUpdate(w, "failed", FALSE, "ackFailed")
    BY <1>5 DEF WorkerMarkFailed, Delivering
  <2> QED
    BY <1>1, <1>2, <2>1, RowUpdateTimely
<1> QED
  BY <1>3, <1>4, <1>5

LEMMA WorkerOtherTimely ==
    ASSUME IInv, NEW w \in Workers,
           WorkerTakeToken(w) \/ WorkerSend(w) \/ WorkerAck(w) \/ WorkerExit(w),
           UNCHANGED <<handler, ticker, ctx>>, NEW n \in Notifications
    PROVE  Timely(n)
<1>1. TypeOK /\ UNCHANGED <<stream, lastDelivered, handler, ticker, db>>
  BY DEF WorkerTakeToken, WorkerSend, WorkerAck, WorkerExit, Ack, queueVars, IInv
<1>2. PICK next \in {"send", "markDelivered", "increment", "idle", "exited"} :
         /\ \/ worker' = [worker EXCEPT ![w].pc = next]
            \/ worker' = [worker EXCEPT ![w] = IdleWorker]
         /\ next \in Delivering => worker[w].pc \in Delivering \ {"markFailed"}
  <2>1. CASE WorkerTakeToken(w)
    BY <2>1 DEF WorkerTakeToken, Goto, Return, Delivering
  <2>2. CASE WorkerSend(w)
    BY <2>2 DEF WorkerSend, Goto, Delivering
  <2>3. CASE WorkerAck(w) \/ WorkerExit(w)
    BY <2>3 DEF WorkerAck, WorkerExit, Goto, Return, Delivering
  <2> QED
    BY <2>1, <2>2, <2>3
<1>3. Underway(n)' => Underway(n)
  BY <1>1, <1>2, WorkerUnderway
<1> QED
  BY <1>1, <1>3 DEF Timely, TimesKept

LEMMA WorkerDequeueTimely ==
    ASSUME IInv, NEW w \in Workers, WorkerDequeue(w),
           UNCHANGED <<handler, ticker, ctx>>, NEW n \in Notifications
    PROVE  Timely(n)
<1>1. PICK q \in Queues : q = Serves[w]
  BY WorkerAssumption
<1>2. PICK i : i = lastDelivered[q] + 1
  OBVIOUS
<1>3. PICK o \in RequestOutcomes :
         /\ IF Applied(o) THEN Dequeue(q) ELSE UNCHANGED queueVars
         /\ IF Returned(o)
            THEN worker' = [worker EXCEPT ![w] = [pc |-> "markProcessing", pos |-> i]]
            ELSE UNCHANGED worker
  BY <1>1, <1>2 DEF WorkerDequeue
<1>4. /\ TypeOK
      /\ worker \in [Workers -> WorkerState]
      /\ lastDelivered \in [Queues -> Nat]
      /\ stream \in [Queues -> Seq(Message)]
      /\ lastDelivered[q] < Len(stream[q])
      /\ Len(stream[q]) \in Nat
      /\ UNCHANGED <<handler, ticker, db>>
      /\ QueueOf[n] \in Queues
  BY <1>1, QueueAssumption DEF IInv, TypeOK, WorkerDequeue, HasNew
<1>5. stream' = stream
  BY <1>3 DEF Dequeue, queueVars
<1>6. \A h \in Handlers : HandlerCarries(h, n)' => HandlerCarries(h, n)
  BY <1>4 DEF HandlerCarries
<1>7. \A t \in Tickers : TickerCarries(t, n)' => TickerCarries(t, n)
  BY <1>4 DEF TickerCarries, TickerHolds
<1>8. \A j \in Unread(QueueOf[n])' : EntryCarries(j, n)' =>
         j \in Unread(QueueOf[n]) /\ EntryCarries(j, n)
  <2>1. \/ lastDelivered' = [lastDelivered EXCEPT ![q] = lastDelivered[q] + 1]
        \/ lastDelivered' = lastDelivered
    BY <1>3 DEF Dequeue, queueVars
  <2>2. /\ lastDelivered'[QueueOf[n]] \in Nat
        /\ lastDelivered[QueueOf[n]] <= lastDelivered'[QueueOf[n]]
    <3>1. lastDelivered \in [Queues -> Nat] /\ QueueOf[n] \in Queues
      BY <1>4
    <3> QED
      BY <2>1, <3>1
  <2>3. Len(stream[QueueOf[n]]) \in Nat /\ lastDelivered[QueueOf[n]] \in Nat
    BY <1>4
  <2>4. \A j \in Unread(QueueOf[n])' : j \in Unread(QueueOf[n])
    BY <1>5, <2>2, <2>3 DEF Unread
  <2> QED
    BY <1>5, <2>4 DEF EntryCarries
<1>9. ASSUME NEW v \in Workers, WorkerCarries(v, n)', worker'[v].pc # "markFailed"
      PROVE  Underway(n)
  <2>1. CASE worker'[v] = worker[v]
    <3>1. WorkerCarries(v, n)
      BY <1>5, <1>9, <2>1 DEF WorkerCarries, Held
    <3> QED
      BY <1>9, <2>1, <3>1 DEF Underway
  <2>2. CASE worker'[v] # worker[v]
    <3>1. v = w /\ worker'[w].pos = i
      BY <1>3, <1>4, <2>2
    <3>2. stream[q][i].n = n
      BY <1>1, <1>5, <1>9, <3>1 DEF WorkerCarries, Held
    <3>3. i \in DOMAIN stream[q] /\ i \in (lastDelivered[q] + 1) .. Len(stream[q])
      BY <1>2, <1>4
    <3>4. QueueOf[n] = q
      BY <1>4, <3>2, <3>3 DEF TypeOK
    <3>5. i \in Unread(QueueOf[n]) /\ EntryCarries(i, n)
      BY <3>2, <3>3, <3>4 DEF Unread, EntryCarries
    <3> QED
      BY <3>5 DEF Underway
  <2> QED
    BY <2>1, <2>2
<1>10. Underway(n)' => Underway(n)
  BY <1>6, <1>7, <1>8, <1>9 DEF Underway
<1> QED
  BY <1>4, <1>10 DEF Timely, TimesKept

\* The worker that sets a retry time is the only one who has the right, and has
\* only to write "failed".
LEMMA IncrementDue ==
    ASSUME IInv, NEW w \in Workers, WorkerIncrement(w), UNCHANGED <<handler, ticker, ctx>>,
           NEW n \in Notifications, resent[n] = 0, resent'[n] = 0, Due(n)
    PROVE  Due(n)'
<1>1. /\ UNCHANGED <<stream, lastDelivered, handler, ticker>>
      /\ worker[w].pc = "increment"
      /\ worker[w].pc \in Delivering
      /\ \/ worker' = [worker EXCEPT ![w].pc = "markFailed"]
         \/ worker' = [worker EXCEPT ![w] = IdleWorker]
  BY DEF WorkerIncrement, queueVars, Delivering, Goto, Return
<1>2. /\ TypeOK
      /\ db \in [Notifications -> Row]
      /\ worker \in [Workers -> WorkerState]
  BY DEF IInv, TypeOK
<1>3. PICK k \in Notifications : k = Held(w).n
  BY <1>1, <1>2, HeldType DEF Delivering
<1>4. Underway(n)' => Underway(n)
  BY <1>1, <1>2, WorkerUnderway
<1>5. db' = db \/ \E at \in Instants : IncrementAttempts(k, at)
  BY <1>3 DEF WorkerIncrement, Instants
<1>6. CASE db'[n] = db[n]
  BY <1>4, <1>6, TimelyKeepsDue DEF Timely, TimesKept
<1>7. CASE n = k /\ db' # db
  <2>1. PICK at \in Instants : IncrementAttempts(k, at)
    BY <1>5, <1>7
  <2>2. db'[k].status = db[k].status /\ db'[k].scheduledAt = db[k].scheduledAt
    BY <1>2, <2>1 DEF IncrementAttempts, Row
  <2>3. /\ WorkerCarries(w, n)
        /\ \A h \in Handlers : ~HandlerCarries(h, n)
        /\ \A t \in Tickers : ~TickerCarries(t, n)
        /\ \A i \in Unread(QueueOf[n]) : ~EntryCarries(i, n)
        /\ \A v \in Workers : WorkerCarries(v, n) => v = w
        /\ WorkerConsistent(w)
    BY <1>1, <1>3, <1>7, WorkerAlone DEF Consistent
  <2>4. Underway(n)
    BY <1>1, <2>3 DEF Underway
  <2>5. db[n].scheduledAt # "future"
    BY <2>4 DEF Due, Early
  <2>6. db[n].status # "pending"
    BY <1>1, <1>3, <1>7, <2>3 DEF WorkerConsistent
  <2>7. ~Underway(n)'
    <3>1. \A h \in Handlers : ~HandlerCarries(h, n)'
      BY <1>1, <2>3 DEF HandlerCarries
    <3>2. \A t \in Tickers : ~TickerCarries(t, n)'
      BY <1>1, <2>3 DEF TickerCarries, TickerHolds
    <3>3. \A i \in Unread(QueueOf[n])' : ~EntryCarries(i, n)'
      BY <1>1, <2>3 DEF EntryCarries, Unread
    <3>4. \A v \in Workers : v # w => ~WorkerCarries(v, n)'
      BY <1>1, <1>2, <2>3 DEF WorkerCarries, Held
    <3>5. worker'[w].pc \notin Delivering \ {"markFailed"}
      BY <1>1, <1>2 DEF WorkerState, IdleWorker, Delivering
    <3> QED
      BY <3>1, <3>2, <3>3, <3>4, <3>5 DEF Underway, WorkerCarries
  <2> QED
    BY <1>7, <2>2, <2>5, <2>6, <2>7 DEF Due
<1>8. n # k => db'[n] = db[n]
  BY <1>2, <1>5 DEF IncrementAttempts
<1> QED
  BY <1>6, <1>7, <1>8

LEMMA WorkerDue ==
    ASSUME IInv, NEW w \in Workers, WorkerNext(w),
           NEW n \in Notifications, resent[n] = 0, resent'[n] = 0, Due(n)
    PROVE  Due(n)'
BY WorkerDequeueTimely, WorkerMarkTimely, WorkerOtherTimely, IncrementDue, TimelyKeepsDue
   DEF WorkerNext, WorkerStep

\* Time and processes.
LEMMA TimeDue ==
    ASSUME IInv, NEW k \in Notifications, TimePasses(k),
           NEW n \in Notifications, resent[n] = 0, resent'[n] = 0, Due(n)
    PROVE  Due(n)'
<1>1. Shrinks(n) /\ db \in [Notifications -> Row]
  <2>1. ~Exists(n) => db[n] = NoRow
    BY DEF IInv, Consistent, Exists
  <2> QED
    BY <2>1, TimeStep DEF IInv, TypeOK
<1>2. \/ db'[n] = db[n]
      \/ db'[n] = [db[n] EXCEPT !.scheduledAt = "past"]
      \/ db'[n] = [db[n] EXCEPT !.nextRetryAt = "past"] /\ db[n].nextRetryAt = "future"
  BY <1>1 DEF TimePasses, ScheduledTimeArrives, RetryTimeArrives
<1>3. db[n] \in Row
  BY <1>1
<1>4. /\ db'[n].status = db[n].status
      /\ db'[n].scheduledAt = "future" => db[n].scheduledAt = "future"
      /\ db'[n].nextRetryAt # db[n].nextRetryAt =>
            db'[n].nextRetryAt = "past" /\ db[n].nextRetryAt = "future"
  BY <1>2, <1>3 DEF Row
<1>5. Underway(n)' => Underway(n)
  BY <1>1, ShrinksUnderway
<1> QED
  BY <1>4, <1>5 DEF Due, Early

LEMMA ProcessDue ==
    ASSUME IInv, (\E p \in Processes : Shutdown(p) \/ StartProcess(p)) \/ UNCHANGED vars,
           NEW n \in Notifications, resent[n] = 0, resent'[n] = 0, Due(n)
    PROVE  Due(n)'
<1>1. Shrinks(n) /\ db' = db
  BY ProcessStep DEF Shutdown, StartProcess, vars
<1> QED
  BY <1>1, ShrinksUnderway, TimelyKeepsDue DEF Timely, TimesKept

LEMMA DueInit == Init => DueInv
<1> SUFFICES ASSUME Init, NEW n \in Notifications PROVE Due(n)
  BY IInvInit DEF DueInv
<1> QED
  BY DEF Init, NoRow, Due, Early

\* A time that has come stays come, and only a new row waits for its first.
LEMMA ScheduleStays ==
    ASSUME RecordInv, [Next]_vars, NEW n \in Notifications, Exists(n),
           db[n].scheduledAt # "future"
    PROVE  db'[n].scheduledAt # "future"
<1>1. TypeOK /\ db \in [Notifications -> Row] /\ db[n] \in Row
  BY DEF RecordInv, TypeOK
<1>2. CASE TimesKept(n)
  BY <1>2 DEF TimesKept
<1>3. CASE \E batch \in SUBSET Notifications : CanInsert(batch) /\ CreateBatch(batch)
  BY <1>3 DEF CanInsert, CreateBatch
<1>4. CASE \E k \in Notifications : TimePasses(k)
  <2>1. \/ db'[n] = db[n]
        \/ db'[n] = [db[n] EXCEPT !.scheduledAt = "past"]
        \/ db'[n] = [db[n] EXCEPT !.nextRetryAt = "past"]
    BY <1>1, <1>4 DEF TimePasses, ScheduledTimeArrives, RetryTimeArrives
  <2> QED
    BY <1>1, <2>1 DEF Row
<1>5. ASSUME NEW w \in Workers,
             \/ WorkerMarkProcessing(w) /\ UpdateStatus(Held(w).n, "processing", FALSE)
             \/ WorkerMarkDelivered(w) /\ UpdateStatus(Held(w).n, "delivered", TRUE)
             \/ WorkerIncrement(w) /\ \E at \in Instants : IncrementAttempts(Held(w).n, at)
      PROVE  db'[n].scheduledAt # "future"
  <2>1. Held(w).n \in Notifications
    BY <1>1, <1>5, HeldType DEF WorkerMarkProcessing, WorkerMarkDelivered, WorkerIncrement
  <2>2. CASE \E status \in {"processing", "delivered"}, p \in BOOLEAN :
                UpdateStatus(Held(w).n, status, p)
    BY <1>1, <1>2, <2>1, <2>2, UpdateKeepsTimes DEF Statuses
  <2>3. CASE \E at \in Instants : IncrementAttempts(Held(w).n, at)
    <3>1. PICK at \in Instants : IncrementAttempts(Held(w).n, at)
      BY <2>3
    <3>2. db'[n] = db[n] \/ db'[n] = [db[n] EXCEPT !.attempts = @ + 1, !.nextRetryAt = at]
      BY <1>1, <2>1, <3>1 DEF IncrementAttempts
    <3> QED
      BY <1>1, <3>2 DEF Row
  <2> QED
    BY <1>5, <2>2, <2>3
<1>6. CASE UNCHANGED db
  BY <1>6
<1>7. ASSUME NEW k \in Notifications, NEW status \in {"queued", "failed"},
             UpdateStatus(k, status, FALSE)
      PROVE  db'[n].scheduledAt # "future"
  BY <1>1, <1>2, <1>7, UpdateKeepsTimes DEF Statuses
<1>8. ASSUME NEW k \in Notifications, Cancel(k)
      PROVE  db'[n].scheduledAt # "future"
  <2>1. "cancelled" \in Statuses \ {"pending"} /\ FALSE \in BOOLEAN
    BY DEF Statuses
  <2>2. db' = [db EXCEPT ![k].status = "cancelled"]
    BY <1>8 DEF Cancel
  <2> QED
    BY <1>1, <1>2, <2>1, <2>2, UpdateKeepsTimes
<1>9. ASSUME NEW batch \in SUBSET Notifications, MarkFetched(batch)
      PROVE  db'[n].scheduledAt # "future"
  BY <1>1, <1>2, <1>9, FetchKeepsTimes
<1> QED
  BY <1>3, <1>4, <1>5, <1>6, <1>7, <1>8, <1>9, RowStep DEF RowWrites

\* What is sent again is under way: it is stored, and no time of it is to come.
LEMMA ResendsUnderway ==
    ASSUME IInv, [Next]_vars, NEW n \in Notifications, resent'[n] # resent[n]
    PROVE  \/ \E h \in Handlers : HandlerCarries(h, n)
           \/ \E t \in Tickers : TickerCarries(t, n)
<1>1. /\ TypeOK
      /\ handler \in [Handlers -> HandlerState]
      /\ ticker \in [Tickers -> TickerState]
      /\ resent \in [Notifications -> Nat]
  BY DEF IInv, TypeOK
<1>2. \A m : EnqueueUnanswered(m) => m.n = n
  BY <1>1 DEF EnqueueUnanswered
<1>3. ASSUME NEW h \in Handlers, HandlerNext(h)
      PROVE  HandlerCarries(h, n)
  <2>1. HandlerResend(h)
    BY <1>3 DEF HandlerNext, HandlerStep, HandlerProceed, HandlerPersist, HandlerCancel,
       HandlerBroadcastPending, HandlerEnqueue, Enqueue, HandlerMarkQueued,
       HandlerBroadcastQueued, HandlerBroadcastCancelled, HandlerDisconnect, queueVars
  <2>2. PICK k \in handler[h].todo : EnqueueUnanswered([n |-> k, attempts |-> 0])
    BY <2>1 DEF HandlerResend
  <2>3. k = n
    BY <1>2, <2>2
  <2>4. n \notin Scheduled
    BY <2>1, <2>2, <2>3 DEF HandlerResend, IInv, RequestConsistent
  <2> QED
    BY <2>2, <2>3, <2>4 DEF HandlerCarries
<1>4. ASSUME NEW t \in Tickers, TickerNext(t)
      PROVE  TickerCarries(t, n)
  <2>1. TickerResend(t)
    BY <1>4 DEF TickerNext, TickerStep, TickerFetchScheduled, TickerFetchRetry, Fetch,
       TickerMarkQueued, TickerEnqueue, Enqueue, TickerExit, queueVars
  <2>2. ticker[t].cur # Nil /\ ticker[t].cur.n = n
    BY <1>2, <2>1 DEF TickerResend
  <2> QED
    BY <2>2 DEF TickerCarries, TickerHolds
<1>5. CASE \E w \in Workers : WorkerNext(w)
  BY <1>5 DEF WorkerNext, WorkerStep, WorkerDequeue, Dequeue, WorkerMarkProcessing,
     WorkerTakeToken, WorkerSend, WorkerMarkDelivered, WorkerIncrement, WorkerMarkFailed,
     WorkerAck, Ack, WorkerExit, queueVars
<1> QED
  BY <1>3, <1>4, <1>5 DEF Next, vars, TimePasses, Shutdown, Restart, Crash, StartProcess,
     queueVars

LEMMA ResentDue ==
    ASSUME IInv, RecordInv, [Next]_vars, NEW n \in Notifications, Due(n), resent'[n] # 0
    PROVE  Due(n)'
<1>1. /\ resent[n] \in Nat /\ resent'[n] \in Nat /\ TypeOK
      /\ TypeOK'
  BY TypeStep DEF IInv, TypeOK
<1>2. Exists(n) /\ db[n].scheduledAt # "future"
  <2>1. CASE resent[n] # 0
    BY <1>1, <2>1 DEF Due
  <2>2. CASE resent[n] = 0
    <3>1. \/ \E h \in Handlers : HandlerCarries(h, n)
          \/ \E t \in Tickers : TickerCarries(t, n)
      BY <2>2, ResendsUnderway
    <3>2. Underway(n) /\ Carriers(n) # {}
      BY <3>1, Members DEF Underway
    <3>3. Consistent(n)
      BY <2>2 DEF IInv
    <3> QED
      BY <3>2, <3>3 DEF Consistent, Exists, Due, Early
  <2> QED
    BY <2>1, <2>2
<1>3. Exists(n)' /\ db'[n].scheduledAt # "future"
  BY <1>2, RowsGrow, ScheduleStays DEF RowGrows
<1>4. ~Early(n)' /\ resent'[n] # 0
  BY <1>3 DEF Early
<1> QED
  BY <1>3, <1>4 DEF Due

LEMMA DueStep ==
    ASSUME DueInv, RecordInv, [Next]_vars
    PROVE  DueInv'
<1>1. IInv /\ \A n \in Notifications : Due(n)
  BY DEF DueInv
<1>2. ASSUME NEW n \in Notifications, resent'[n] = 0
      PROVE  Due(n)'
  <2>1. resent[n] = 0
    BY <1>1, <1>2, RightPasses
  <2> QED
    BY <1>1, <1>2, <2>1, HandlerDue, TickerDue, WorkerDue, TimeDue, ProcessDue
       DEF Next, Restart, Crash
<1>3. \A n \in Notifications : Due(n)'
  BY <1>1, <1>2, ResentDue
<1> QED
  BY <1>1, <1>3, IInvStep DEF DueInv

\* While a time of a notification is to come, nobody is bringing it to the provider.
THEOREM DueInvCorrect == Spec => []DueInv
<1>1. DueInv /\ RecordInv /\ [Next]_vars => DueInv'
  BY DueStep
<1> QED
  BY <1>1, DueInit, RecordInvCorrect, PTL DEF Spec

\* What a step sends is under way.
LEMMA SendsUnderway ==
    ASSUME IInv, [Next]_vars, NEW n \in Notifications, received'[n] # received[n]
    PROVE  Underway(n)
<1>1. CASE UNCHANGED received
  BY <1>1
<1>2. CASE \E w \in Workers : WorkerSend(w)
  <2>1. PICK w \in Workers : WorkerSend(w)
    BY <1>2
  <2>2. worker[w].pc = "send" /\ worker[w].pc \in Delivering
    BY <2>1 DEF WorkerSend, Delivering
  <2>3. \/ received' = received
        \/ received' = [received EXCEPT ![Held(w).n] = @ + 1]
    BY <2>1 DEF WorkerSend
  <2>4. Held(w).n = n
    BY <2>3 DEF IInv, TypeOK
  <2> QED
    BY <2>2, <2>4 DEF Underway, WorkerCarries
<1> QED
  BY <1>1, <1>2
     DEF Next, HandlerNext, TickerNext, WorkerNext, WorkerStep, WorkerDequeue,
         WorkerMarkProcessing, WorkerTakeToken, WorkerMarkDelivered, WorkerIncrement,
         WorkerMarkFailed, WorkerAck, WorkerExit, TimePasses, Shutdown, Restart, Crash,
         StartProcess, vars

\* The provider never gets a notification before its scheduled_at, nor again
\* before its next_retry_at unless an XADD of it was resent.
THEOREM NotBeforeItsTimeCorrect == Spec => NotBeforeItsTime
<1>1. DueInv /\ [Next]_vars =>
         [\A n \in Notifications : Early(n) => received'[n] = received[n]]_vars
  BY SendsUnderway DEF DueInv, Due
<1> QED
  BY <1>1, DueInvCorrect, PTL DEF Spec, NotBeforeItsTime
================================================================================
