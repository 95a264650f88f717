---------------------------- MODULE RefinementProofs ----------------------------
(***************************************************************************)
(* The pipeline implements Delivery, whatever fails, for any number of     *)
(* notifications, requests, tickers, workers and processes.                *)
(*                                                                         *)
(* The rights of a notification are counted in the sets of those who have  *)
(* one.  A step moves at most one element from one set to another, or adds *)
(* one where Delivery says so; everything else can only get less.          *)
(*                                                                         *)
(* The last part shows that a right gets lost by itself nowhere: only what *)
(* concludes a notification ends its right, or a failed call, a client     *)
(* that went away or a process that stopped.                               *)
(***************************************************************************)
EXTENDS DeliveryRefinement, DeliveryProofs, FiniteSetTheorems

--------------------------------------------------------------------------------
(***************************************************************************)
(* Counting.                                                               *)
(***************************************************************************)
LEMMA CountFalls ==
    ASSUME NEW S, IsFiniteSet(S), NEW T, T \subseteq S
    PROVE  /\ Cardinality(T) \in Nat /\ Cardinality(S) \in Nat
           /\ Cardinality(T) <= Cardinality(S)
BY FS_Subset, FS_CardinalityType

LEMMA CountGrows ==
    ASSUME NEW S, IsFiniteSet(S), NEW x, NEW T, T \subseteq S \cup {x}
    PROVE  /\ Cardinality(T) \in Nat /\ Cardinality(S) \in Nat
           /\ Cardinality(T) <= Cardinality(S) + 1
<1>1. /\ IsFiniteSet(S \cup {x})
      /\ Cardinality(S \cup {x}) \in {Cardinality(S), Cardinality(S) + 1}
  BY FS_AddElement
<1>2. Cardinality(S) \in Nat
  BY FS_CardinalityType
<1>3. Cardinality(T) \in Nat /\ Cardinality(T) <= Cardinality(S \cup {x})
  BY <1>1, CountFalls
<1> QED
  BY <1>1, <1>2, <1>3

LEMMA CountDrops ==
    ASSUME NEW S, IsFiniteSet(S), NEW x \in S, NEW T, T \subseteq S \ {x}
    PROVE  /\ Cardinality(T) \in Nat /\ Cardinality(S) \in Nat
           /\ Cardinality(T) <= Cardinality(S) - 1
           /\ Cardinality(S) > 0
<1>1. IsFiniteSet(S \ {x}) /\ Cardinality(S \ {x}) = Cardinality(S) - 1
  BY FS_RemoveElement
<1>2. Cardinality(S) \in Nat /\ Cardinality(S \ {x}) \in Nat
  BY <1>1, FS_CardinalityType
<1>3. Cardinality(T) \in Nat /\ Cardinality(T) <= Cardinality(S \ {x})
  BY <1>1, CountFalls
<1> QED
  BY <1>1, <1>2, <1>3

LEMMA PlacesFinite ==
    ASSUME TypeOK, NEW n \in Notifications
    PROVE  /\ IsFiniteSet(Requests(n)) /\ IsFiniteSet(Claims(n)) /\ IsFiniteSet(Entries(n))
           /\ \A calls : IsFiniteSet(About(n, calls))
<1>1. IsFiniteSet(Requests(n)) /\ IsFiniteSet(Claims(n))
  <2>1. Requests(n) \in SUBSET Handlers /\ Claims(n) \in SUBSET Tickers
    BY DEF Requests, Claims
  <2> QED
    BY <2>1, ServiceAssumption, SchedulerAssumption, FS_Subset
<1>2. IsFiniteSet(Entries(n))
  <2>1. QueueOf[n] \in Queues
    BY QueueAssumption
  <2>2. lastDelivered[QueueOf[n]] + 1 \in Int /\ Len(stream[QueueOf[n]]) \in Int
    BY <2>1 DEF TypeOK
  <2>3. IsFiniteSet(Unread(QueueOf[n]))
    BY <2>2, FS_Interval DEF Unread
  <2>4. Entries(n) \in SUBSET Unread(QueueOf[n])
    BY DEF Entries
  <2> QED
    BY <2>3, <2>4, FS_Subset
<1>3. ASSUME NEW calls PROVE IsFiniteSet(About(n, calls))
  <2>1. About(n, calls) \in SUBSET Workers
    BY DEF About
  <2> QED
    BY <2>1, WorkerAssumption, FS_Subset
<1> QED
  BY <1>1, <1>2, <1>3

LEMMA PlacesFiniteNext ==
    ASSUME TypeOK', NEW n \in Notifications
    PROVE  /\ IsFiniteSet(Requests(n)') /\ IsFiniteSet(Claims(n)') /\ IsFiniteSet(Entries(n)')
           /\ \A calls : IsFiniteSet(About(n, calls)')
<1>1. IsFiniteSet(Requests(n)') /\ IsFiniteSet(Claims(n)')
  <2>1. Requests(n)' \in SUBSET Handlers /\ Claims(n)' \in SUBSET Tickers
    BY DEF Requests, Claims
  <2> QED
    BY <2>1, ServiceAssumption, SchedulerAssumption, FS_Subset
<1>2. IsFiniteSet(Entries(n)')
  <2>1. QueueOf[n] \in Queues
    BY QueueAssumption
  <2>2. lastDelivered'[QueueOf[n]] + 1 \in Int /\ Len(stream'[QueueOf[n]]) \in Int
    BY <2>1 DEF TypeOK
  <2>3. IsFiniteSet(Unread(QueueOf[n])')
    BY <2>2, FS_Interval DEF Unread
  <2>4. Entries(n)' \in SUBSET Unread(QueueOf[n])'
    BY DEF Entries
  <2> QED
    BY <2>3, <2>4, FS_Subset
<1>3. ASSUME NEW calls PROVE IsFiniteSet(About(n, calls)')
  <2>1. About(n, calls)' \in SUBSET Workers
    BY DEF About
  <2> QED
    BY <2>1, WorkerAssumption, FS_Subset
<1> QED
  BY <1>1, <1>2, <1>3

LEMMA RightsType ==
    ASSUME TypeOK, NEW n \in Notifications
    PROVE  RightsOf(n) \in D!Rights
<1>1. /\ Cardinality(Requests(n)) \in Nat /\ Cardinality(Claims(n)) \in Nat
      /\ Cardinality(Entries(n)) \in Nat
      /\ Cardinality(About(n, ToSend)) \in Nat /\ Cardinality(About(n, ToRecord)) \in Nat
      /\ Cardinality(About(n, ToFail)) \in Nat
  BY PlacesFinite, FS_CardinalityType
<1> QED
  BY <1>1 DEF RightsOf, NoRights, D!Rights

LEMMA RightsTypeNext ==
    ASSUME TypeOK', NEW n \in Notifications
    PROVE  RightsOf(n)' \in D!Rights
<1>1. /\ Cardinality(Requests(n)') \in Nat /\ Cardinality(Claims(n)') \in Nat
      /\ Cardinality(Entries(n)') \in Nat
      /\ Cardinality(About(n, ToSend)') \in Nat /\ Cardinality(About(n, ToRecord)') \in Nat
      /\ Cardinality(About(n, ToFail)') \in Nat
  BY PlacesFiniteNext, FS_CardinalityType
<1> QED
  BY <1>1 DEF RightsOf, NoRights, D!Rights

--------------------------------------------------------------------------------
(***************************************************************************)
(* Steps that give nobody a right: it stays where it is or gets lost.      *)
(***************************************************************************)
\* What Delivery sees of a row does not change.
RowKept(n) ==
    /\ Exists(n)' <=> Exists(n)
    /\ db'[n].scheduledAt # "null" => db[n].scheduledAt # "null"
    /\ db'[n].attempts = db[n].attempts
    /\ db'[n].providerMessageID = db[n].providerMessageID

LEMMA RowCounts ==
    ASSUME NEW n, RowHarmless(n), RowKept(n)
    PROVE  (Pending(n)' => Pending(n)) /\ (Resting(n)' => Resting(n))
BY DEF RowHarmless, RowKept, Pending, Resting

LEMMA PlacesShrink ==
    ASSUME NEW n, Shrinks(n)
    PROVE  /\ Requests(n)' \subseteq Requests(n) /\ Claims(n)' \subseteq Claims(n)
           /\ Entries(n)' \subseteq Entries(n)
           /\ About(n, ToSend)' \subseteq About(n, ToSend)
           /\ About(n, ToRecord)' \subseteq About(n, ToRecord)
           /\ About(n, ToFail)' \subseteq About(n, ToFail)
<1>1. Requests(n)' \subseteq Requests(n)
  BY DEF Shrinks, Requests
<1>2. Claims(n)' \subseteq Claims(n)
  BY DEF Shrinks, Claims, TickerCarries
<1>3. Entries(n)' \subseteq Entries(n)
  BY DEF Shrinks, Entries
<1>4. \A w \in Workers : worker'[w].pc \in Delivering /\ Held(w)'.n = n =>
         worker[w].pc = worker'[w].pc /\ Held(w).n = n
  BY DEF Shrinks, WorkerCarries
<1>5. ToSend \subseteq Delivering /\ ToRecord \subseteq Delivering /\ ToFail \subseteq Delivering
  BY DEF ToSend, ToRecord, ToFail, Delivering
<1>6. /\ About(n, ToSend)' \subseteq About(n, ToSend)
      /\ About(n, ToRecord)' \subseteq About(n, ToRecord)
      /\ About(n, ToFail)' \subseteq About(n, ToFail)
  BY <1>4, <1>5 DEF About
<1> QED
  BY <1>1, <1>2, <1>3, <1>6

\* The counts that do not rise.
CountsFall(n) ==
    /\ Cardinality(Requests(n)') <= Cardinality(Requests(n))
    /\ Cardinality(Claims(n)') <= Cardinality(Claims(n))
    /\ Cardinality(Entries(n)') <= Cardinality(Entries(n))
    /\ Cardinality(About(n, ToSend)') <= Cardinality(About(n, ToSend))
    /\ Cardinality(About(n, ToRecord)') <= Cardinality(About(n, ToRecord))
    /\ Cardinality(About(n, ToFail)') <= Cardinality(About(n, ToFail))

LEMMA CountTypes ==
    ASSUME TypeOK, NEW n \in Notifications
    PROVE  /\ Cardinality(Requests(n)) \in Nat /\ Cardinality(Claims(n)) \in Nat
           /\ Cardinality(Entries(n)) \in Nat
           /\ Cardinality(About(n, ToSend)) \in Nat /\ Cardinality(About(n, ToRecord)) \in Nat
           /\ Cardinality(About(n, ToFail)) \in Nat
BY PlacesFinite, FS_CardinalityType

LEMMA CountTypesNext ==
    ASSUME TypeOK', NEW n \in Notifications
    PROVE  /\ Cardinality(Requests(n)') \in Nat /\ Cardinality(Claims(n)') \in Nat
           /\ Cardinality(Entries(n)') \in Nat
           /\ Cardinality(About(n, ToSend)') \in Nat /\ Cardinality(About(n, ToRecord)') \in Nat
           /\ Cardinality(About(n, ToFail)') \in Nat
BY PlacesFiniteNext, FS_CardinalityType

LEMMA ShrinksCounts ==
    ASSUME TypeOK, NEW n \in Notifications, Shrinks(n)
    PROVE  CountsFall(n)
<1>1. /\ IsFiniteSet(Requests(n)) /\ IsFiniteSet(Claims(n)) /\ IsFiniteSet(Entries(n))
      /\ \A calls : IsFiniteSet(About(n, calls))
  BY PlacesFinite
<1> QED
  BY <1>1, PlacesShrink, CountFalls DEF CountsFall

LEMMA RightsFall ==
    ASSUME TypeOK, TypeOK', NEW n \in Notifications, Shrinks(n), RowHarmless(n), RowKept(n)
    PROVE  RightsOf(n)' \in D!UpTo(RightsOf(n))
<1>1. CASE ~Exists(n)
  BY <1>1 DEF RowKept, RightsOf, NoRights, D!UpTo
<1>2. CASE Exists(n)
  <2>1. CountsFall(n)
    BY ShrinksCounts
  <2>2. Exists(n)' /\ (Pending(n)' => Pending(n)) /\ (Resting(n)' => Resting(n))
    BY <1>2, RowCounts DEF RowKept
  <2> QED
    BY <1>2, <2>1, <2>2, CountTypes, CountTypesNext DEF CountsFall, RightsOf, D!UpTo
<1> QED
  BY <1>1, <1>2

\* Nothing of n but where its right is, or that it is no more.
Rests(n) == RightsOf(n)' \in D!UpTo(RightsOf(n)) /\ RowKept(n) /\ received'[n] = received[n]

LEMMA RestsWhenShrinking ==
    ASSUME TypeOK, TypeOK', NEW n \in Notifications, Shrinks(n), RowHarmless(n), RowKept(n)
    PROVE  Rests(n)
BY RightsFall DEF Rests, RowHarmless

LEMMA AtMostHolds ==
    ASSUME TypeOK', NEW bound, \A n \in Notifications : RightsOf(n)' \in D!UpTo(bound[n])
    PROVE  D!AtMost(bound)
BY RightsTypeNext DEF D!AtMost

\* What Delivery sees of the table, when that does not change.
LEMMA SeenSame ==
    ASSUME \A n \in Notifications : RowKept(n)
    PROVE  /\ {n \in Notifications : Exists(n)'} = {n \in Notifications : Exists(n)}
           /\ [n \in Notifications |-> db'[n].attempts] = [n \in Notifications |-> db[n].attempts]
           /\ [n \in Notifications |-> db'[n].providerMessageID]
                 = [n \in Notifications |-> db[n].providerMessageID]
BY DEF RowKept

LEMMA LoseStep ==
    ASSUME TypeOK, TypeOK', \A n \in Notifications : Rests(n), resent' = resent
    PROVE  D!Next
<1>1. received' = received
  BY DEF Rests, TypeOK
<1>2. \A n \in Notifications : RowKept(n)
  BY DEF Rests
<1>3. D!AtMost([n \in Notifications |-> RightsOf(n)])
  BY AtMostHolds DEF Rests
<1>4. D!Lose
  BY <1>1, <1>2, <1>3, SeenSame DEF D!Lose
<1> QED
  BY <1>4 DEF D!Next

--------------------------------------------------------------------------------
(***************************************************************************)
(* Requests.                                                               *)
(***************************************************************************)
LEMMA SameRowKept ==
    ASSUME NEW n, db'[n] = db[n]
    PROVE  RowKept(n)
BY DEF RowKept, Exists

LEMMA UpdateKeepsRows ==
    ASSUME TypeOK, NEW k \in Notifications, Exists(k), NEW status \in Statuses,
           \/ UpdateStatus(k, status, FALSE)
           \/ db' = [db EXCEPT ![k].status = status]
    PROVE  \A n \in Notifications : RowKept(n)
<1>1. db \in [Notifications -> Row] /\ db[k] \in Row
  BY DEF TypeOK
<1>2. \A n \in Notifications : n # k => db'[n] = db[n]
  BY <1>1 DEF UpdateStatus
<1>3. \/ db'[k] = [db[k] EXCEPT !.status = status, !.providerMessageID = @ \/ FALSE]
      \/ db'[k] = [db[k] EXCEPT !.status = status]
  BY <1>1 DEF UpdateStatus
<1>4. /\ db'[k].status = status
      /\ db'[k].attempts = db[k].attempts
      /\ db'[k].scheduledAt = db[k].scheduledAt
  BY <1>1, <1>3 DEF Row
<1>5. db'[k].providerMessageID = db[k].providerMessageID
  <2>1. db[k].providerMessageID \in BOOLEAN
    BY <1>1 DEF Row
  <2>2. \/ db'[k].providerMessageID = (db[k].providerMessageID \/ FALSE)
        \/ db'[k].providerMessageID = db[k].providerMessageID
    BY <1>1, <1>3 DEF Row
  <2> QED
    BY <2>1, <2>2
<1>6. Exists(k)'
  BY <1>4 DEF Exists, Statuses
<1> QED
  BY <1>2, <1>4, <1>5, <1>6, SameRowKept DEF RowKept

\* Nobody has a right of a notification that is not stored.
LEMMA NoPlaces ==
    ASSUME RecordInv, NEW n \in Notifications, ~Exists(n)
    PROVE  /\ Requests(n) = {} /\ Claims(n) = {} /\ Entries(n) = {}
           /\ About(n, ToSend) = {} /\ About(n, ToRecord) = {} /\ About(n, ToFail) = {}
<1>1. Requests(n) = {}
  BY DEF RecordInv, RequestStored, Requests, HandlerCarries
<1>2. Claims(n) = {}
  BY DEF RecordInv, Stored, Claims, TickerCarries
<1>3. Entries(n) = {}
  <2> SUFFICES ASSUME NEW i \in Unread(QueueOf[n]), EntryCarries(i, n) PROVE FALSE
    BY DEF Entries
  <2>1. QueueOf[n] \in Queues
    BY QueueAssumption
  <2>2. /\ stream[QueueOf[n]] \in Seq(Message)
        /\ lastDelivered[QueueOf[n]] \in Nat /\ Len(stream[QueueOf[n]]) \in Nat
    BY <2>1 DEF RecordInv, TypeOK
  <2>3. i \in DOMAIN stream[QueueOf[n]]
    BY <2>2 DEF Unread
  <2> QED
    BY <2>1, <2>3 DEF RecordInv, Stored, EntryCarries
<1>4. \A w \in Workers : worker[w].pc \in Delivering => Held(w).n # n
  BY HeldStored DEF Busy, Delivering
<1> QED
  BY <1>1, <1>2, <1>3, <1>4 DEF About, ToSend, ToRecord, ToFail, Delivering

LEMMA NewRight ==
    ASSUME RecordInv, TypeOK', NEW n \in Notifications, ~Exists(n),
           db'[n] = NewNotification(n),
           NEW h \in Handlers, \A g \in Handlers : g # h => handler'[g] = handler[g],
           UNCHANGED <<stream, lastDelivered, worker, ticker>>
    PROVE  RightsOf(n)' \in D!UpTo([D!NoRights EXCEPT !.waiting = 1])
<1>1. Requests(n)' \subseteq (IF n \in Scheduled THEN {} ELSE {h})
  BY NoPlaces DEF Requests, HandlerCarries
<1>2. Claims(n)' = {}
  BY NoPlaces DEF Claims, TickerCarries, TickerHolds
<1>3. Entries(n)' = {}
  BY NoPlaces DEF Entries, Unread, EntryCarries
<1>4. /\ About(n, ToSend)' = {} /\ About(n, ToRecord)' = {} /\ About(n, ToFail)' = {}
  BY NoPlaces DEF About, Held
<1>5. Pending(n)' => n \in Scheduled
  BY DEF Pending, NewNotification
<1>6. ~Resting(n)'
  BY DEF Resting, NewNotification
<1>7. Cardinality({}) = 0 /\ IsFiniteSet({}) /\ IsFiniteSet({h}) /\ Cardinality({h}) = 1
  BY FS_EmptySet, FS_Singleton
<1>8. Cardinality(Requests(n)') + (IF Pending(n)' THEN 1 ELSE 0) \in 0 .. 1
  <2>1. CASE n \in Scheduled
    <3>1. Requests(n)' = {}
      BY <1>1, <2>1
    <3> QED
      BY <1>7, <3>1
  <2>2. CASE n \notin Scheduled
    <3>1. Cardinality(Requests(n)') \in Nat /\ Cardinality(Requests(n)') <= 1
      BY <1>1, <1>7, <2>2, CountFalls
    <3> QED
      BY <1>5, <2>2, <3>1
  <2> QED
    BY <2>1, <2>2
<1>9. Exists(n)'
  BY DEF Exists, NewNotification
<1>10. Cardinality(Requests(n)') \in Nat
  BY CountTypesNext
<1> QED
  BY <1>2, <1>3, <1>4, <1>6, <1>7, <1>8, <1>9, <1>10 DEF RightsOf, D!NoRights, D!UpTo

LEMMA PersistImplements ==
    ASSUME IInv, RecordInv, TypeOK', NEW h \in Handlers, HandlerPersist(h),
           UNCHANGED <<received, ticker, worker, ctx>>
    PROVE  D!Next
<1>1. PICK batch \in SUBSET Notifications :
         /\ batch = {} \/ (CanInsert(batch) /\ CreateBatch(batch))
         /\ \A g \in Handlers : g # h => handler'[g] = handler[g]
         /\ \A k \in Notifications \ batch : db'[k] = db[k] /\ Shrinks(k) /\ RowHarmless(k)
  BY PersistForms
<1>2. TypeOK /\ UNCHANGED <<stream, lastDelivered, worker, ticker, received, resent>>
  BY DEF IInv, HandlerPersist, queueVars
<1>3. \A n \in Notifications \ batch : Rests(n)
  BY <1>1, <1>2, SameRowKept, RestsWhenShrinking
<1>4. ASSUME NEW n \in batch
      PROVE  /\ ~Exists(n) /\ Exists(n)'
             /\ db'[n].attempts = db[n].attempts
             /\ db'[n].providerMessageID = db[n].providerMessageID
             /\ RightsOf(n)' \in D!UpTo([D!NoRights EXCEPT !.waiting = 1])
  <2>1. ~Exists(n) /\ db'[n] = NewNotification(n)
    BY <1>1, <1>4 DEF CanInsert, CreateBatch
  <2>2. RightsOf(n)' \in D!UpTo([D!NoRights EXCEPT !.waiting = 1])
    BY <1>1, <1>2, <1>4, <2>1, NewRight
  <2>3. db[n] = NoRow
    BY <2>1 DEF RecordInv, RowRecorded
  <2> QED
    BY <2>1, <2>2, <2>3 DEF NewNotification, NoRow, Exists
<1>5. \A n \in Notifications : /\ db'[n].attempts = db[n].attempts
                               /\ db'[n].providerMessageID = db[n].providerMessageID
  BY <1>1, <1>4
<1>6. D!AtMost([n \in Notifications |-> IF n \in batch THEN [D!NoRights EXCEPT !.waiting = 1]
                                                       ELSE RightsOf(n)])
  BY <1>3, <1>4, AtMostHolds DEF Rests
<1>7. {n \in Notifications : Exists(n)'} = {n \in Notifications : Exists(n)} \cup batch
  BY <1>3, <1>4 DEF Rests, RowKept
<1>8. batch \cap {n \in Notifications : Exists(n)} = {}
  BY <1>4
<1>9. D!AtMost([n \in Notifications |->
                   IF n \in batch THEN [D!NoRights EXCEPT !.waiting = 1]
                                  ELSE [i \in Notifications |-> RightsOf(i)][n]])
  BY <1>6
<1>10. D!Accept(batch)
  BY <1>2, <1>5, <1>7, <1>8, <1>9 DEF D!Accept
<1> QED
  BY <1>10 DEF D!Next

\* An XADD adds one entry, and everybody but who made it keeps what it has.
LEMMA EntryCounts ==
    ASSUME TypeOK, NEW m \in Message, Added(m), m.n \in Notifications, UNCHANGED worker
    PROVE  /\ Cardinality(Entries(m.n)') <= Cardinality(Entries(m.n)) + 1
           /\ About(m.n, ToSend)' \subseteq About(m.n, ToSend)
           /\ About(m.n, ToRecord)' \subseteq About(m.n, ToRecord)
           /\ About(m.n, ToFail)' \subseteq About(m.n, ToFail)
<1>1. PICK n \in Notifications : n = m.n
  OBVIOUS
<1>2. Entries(n)' \subseteq Entries(n) \cup {Len(stream[QueueOf[n]]) + 1}
  BY EnqueueOnce DEF Entries
<1>3. IsFiniteSet(Entries(n))
  BY PlacesFinite
<1>4. Cardinality(Entries(n)') <= Cardinality(Entries(n)) + 1
  BY <1>2, <1>3, CountGrows
<1>5. \A w \in Workers : worker[w].pc \in Delivering => Held(w)' = Held(w) \/ Held(w)'.n # n
  BY WorkersStay DEF Added, WorkerCarries
<1>6. ToSend \subseteq Delivering /\ ToRecord \subseteq Delivering /\ ToFail \subseteq Delivering
  BY DEF ToSend, ToRecord, ToFail, Delivering
<1> QED
  BY <1>1, <1>4, <1>5, <1>6 DEF About

LEMMA HandlerEnqueueImplements ==
    ASSUME IInv, RecordInv, TypeOK', NEW h \in Handlers, HandlerEnqueue(h),
           UNCHANGED <<received, ticker, worker, ctx>>
    PROVE  D!Next
<1>1. PICK k \in handler[h].todo \ Scheduled :
         /\ handler'[h].todo = handler[h].todo \ {k}
         /\ \A g \in Handlers : g # h => handler'[g] = handler[g]
         /\ UNCHANGED <<db, worker, ticker, received, resent>>
         /\ \/ UNCHANGED <<stream, lastDelivered>>
            \/ Added([n |-> k, attempts |-> 0])
         /\ \A i \in Notifications :
               i # k \/ UNCHANGED stream => Shrinks(i) /\ RowHarmless(i)
  BY HandlerEnqueueForms
<1>2. TypeOK /\ handler \in [Handlers -> HandlerState]
  BY DEF IInv, TypeOK
<1>3. \A n \in Notifications : RowKept(n)
  BY <1>1, SameRowKept
<1>4. \A n \in Notifications : n # k \/ UNCHANGED stream => Rests(n)
  BY <1>1, <1>2, <1>3, RestsWhenShrinking
<1>5. ASSUME Added([n |-> k, attempts |-> 0])
      PROVE  Rests(k)
  <2>1. PICK m : m = [n |-> k, attempts |-> 0]
    OBVIOUS
  <2>2. k \in Notifications /\ m \in Message /\ m.n = k /\ Added(m)
    BY <1>2, <1>5, <2>1 DEF HandlerState, Message
  <2>3. Exists(k) /\ Exists(k)'
    BY <1>1, <1>3, <2>2 DEF RecordInv, RequestStored, RowKept
  <2>4. /\ Cardinality(Entries(k)') <= Cardinality(Entries(k)) + 1
        /\ About(k, ToSend)' \subseteq About(k, ToSend)
        /\ About(k, ToRecord)' \subseteq About(k, ToRecord)
        /\ About(k, ToFail)' \subseteq About(k, ToFail)
    BY <1>1, <1>2, <2>2, EntryCounts
  <2>5. /\ IsFiniteSet(Requests(k)) /\ IsFiniteSet(Claims(k))
        /\ \A calls : IsFiniteSet(About(k, calls))
    BY <1>2, <2>2, PlacesFinite
  <2>6. Claims(k)' \subseteq Claims(k)
    BY <1>1 DEF Claims, TickerCarries, TickerHolds
  <2>7. h \in Requests(k) /\ Requests(k)' \subseteq Requests(k) \ {h}
    BY <1>1 DEF Requests, HandlerCarries
  <2>8. /\ Cardinality(Requests(k)') <= Cardinality(Requests(k)) - 1
        /\ Cardinality(Claims(k)') <= Cardinality(Claims(k))
        /\ Cardinality(About(k, ToSend)') <= Cardinality(About(k, ToSend))
        /\ Cardinality(About(k, ToRecord)') <= Cardinality(About(k, ToRecord))
        /\ Cardinality(About(k, ToFail)') <= Cardinality(About(k, ToFail))
    BY <2>4, <2>5, <2>6, <2>7, CountFalls, CountDrops
  <2>9. (Pending(k)' <=> Pending(k)) /\ (Resting(k)' <=> Resting(k))
    BY <1>1 DEF Pending, Resting
  <2>10. RightsOf(k)' \in D!UpTo(RightsOf(k))
    BY <1>2, <2>2, <2>3, <2>4, <2>8, <2>9, CountTypes, CountTypesNext DEF RightsOf, D!UpTo
  <2> QED
    BY <1>1, <1>3, <2>2, <2>10 DEF Rests
<1>6. \A n \in Notifications : Rests(n)
  BY <1>1, <1>4, <1>5
<1> QED
  BY <1>1, <1>2, <1>6, LoseStep

\* An XADD that is about to be sent again.
LEMMA DoubleStep ==
    ASSUME TypeOK, TypeOK', NEW m \in Message, EnqueueUnanswered(m), Exists(m.n),
           UNCHANGED <<db, worker, received>>,
           Claims(m.n)' \subseteq Claims(m.n), Requests(m.n)' \subseteq Requests(m.n),
           \A n \in Notifications : n # m.n => Shrinks(n) /\ RowHarmless(n)
    PROVE  D!Next
<1>1. PICK k : k = m.n
  OBVIOUS
<1>2. k \in Notifications /\ Added(m) /\ resent' = [resent EXCEPT ![k] = @ + 1]
  BY <1>1, EnqueueAdds DEF Message, EnqueueUnanswered
<1>3. \A n \in Notifications : RowKept(n)
  BY SameRowKept
<1>4. \A n \in Notifications : n # k => Rests(n)
  BY <1>1, <1>3, RestsWhenShrinking
<1>5. /\ Cardinality(Entries(k)') <= Cardinality(Entries(k)) + 1
      /\ About(k, ToSend)' \subseteq About(k, ToSend)
      /\ About(k, ToRecord)' \subseteq About(k, ToRecord)
      /\ About(k, ToFail)' \subseteq About(k, ToFail)
  BY <1>1, <1>2, EntryCounts
<1>6. /\ IsFiniteSet(Requests(k)) /\ IsFiniteSet(Claims(k))
      /\ \A calls : IsFiniteSet(About(k, calls))
  BY <1>2, PlacesFinite
<1>7. /\ Cardinality(Requests(k)') <= Cardinality(Requests(k))
      /\ Cardinality(Claims(k)') <= Cardinality(Claims(k))
      /\ Cardinality(About(k, ToSend)') <= Cardinality(About(k, ToSend))
      /\ Cardinality(About(k, ToRecord)') <= Cardinality(About(k, ToRecord))
      /\ Cardinality(About(k, ToFail)') <= Cardinality(About(k, ToFail))
  BY <1>1, <1>5, <1>6, CountFalls
<1>8. (Pending(k)' <=> Pending(k)) /\ (Resting(k)' <=> Resting(k))
  BY DEF Pending, Resting
<1>9. Exists(k) /\ Exists(k)'
  BY <1>1, <1>2, <1>3 DEF RowKept
<1>10. RightsOf(k)' \in D!UpTo([RightsOf(k) EXCEPT !.waiting = @ + 1])
  BY <1>2, <1>5, <1>7, <1>8, <1>9, CountTypes, CountTypesNext DEF RightsOf, D!UpTo
<1>11. D!AtMost([[n \in Notifications |-> RightsOf(n)] EXCEPT ![k].waiting = @ + 1])
  <2>1. \A n \in Notifications :
           RightsOf(n)' \in D!UpTo([[i \in Notifications |-> RightsOf(i)]
                                      EXCEPT ![k].waiting = @ + 1][n])
    BY <1>2, <1>4, <1>10 DEF Rests
  <2> QED
    BY <2>1, AtMostHolds
<1>12. D!Double(k)
  BY <1>2, <1>3, <1>9, <1>11, SeenSame DEF D!Double
<1> QED
  BY <1>2, <1>12 DEF D!Next

LEMMA HandlerResendImplements ==
    ASSUME IInv, RecordInv, TypeOK', NEW h \in Handlers, HandlerResend(h),
           UNCHANGED <<received, ticker, worker, ctx>>
    PROVE  D!Next
<1>1. PICK k \in handler[h].todo :
         /\ EnqueueUnanswered([n |-> k, attempts |-> 0])
         /\ \A g \in Handlers : handler'[g].todo = handler[g].todo
         /\ UNCHANGED <<db, worker, ticker, received>>
         /\ \A n \in Notifications : n # k => Shrinks(n) /\ RowHarmless(n)
  BY HandlerResendForms
<1>2. PICK m : m = [n |-> k, attempts |-> 0]
  OBVIOUS
<1>3. TypeOK /\ m \in Message /\ m.n = k
  BY <1>2 DEF IInv, TypeOK, HandlerState, Message
<1>4. Exists(k)
  BY DEF RecordInv, RequestStored
<1>5. Claims(k)' \subseteq Claims(k) /\ Requests(k)' \subseteq Requests(k)
  BY <1>1 DEF Claims, TickerCarries, TickerHolds, Requests, HandlerCarries
<1> QED
  BY <1>1, <1>2, <1>3, <1>4, <1>5, DoubleStep

\* The other steps of a request.
LEMMA HandlerKeepsRows ==
    ASSUME IInv, RecordInv, NEW h \in Handlers,
           \/ HandlerBroadcastPending(h) \/ HandlerMarkQueued(h)
           \/ HandlerBroadcastQueued(h) \/ HandlerCancel(h)
           \/ HandlerBroadcastCancelled(h) \/ HandlerDisconnect(h)
    PROVE  \A n \in Notifications : RowKept(n)
<1>1. TypeOK /\ handler \in [Handlers -> HandlerState] /\ handler[h] \in HandlerState
  BY DEF IInv, TypeOK
<1>2. CASE db' = db
  BY <1>2, SameRowKept
<1>3. CASE HandlerMarkQueued(h)
  <2>1. handler[h].cur \in Notifications /\ handler[h].cur # Nil
    BY <1>1, <1>3 DEF TypeOK, HandlerState, HandlerMarkQueued
  <2>2. Exists(handler[h].cur)
    BY <2>1 DEF RecordInv, RequestStored
  <2>3. UpdateStatus(handler[h].cur, "queued", FALSE) \/ db' = db
    BY <1>3 DEF HandlerMarkQueued
  <2> QED
    BY <1>1, <1>2, <2>1, <2>2, <2>3, UpdateKeepsRows DEF Statuses
<1>4. CASE HandlerCancel(h)
  <2>1. PICK n \in Notifications : Cancellable(n) /\ (Cancel(n) \/ db' = db)
    BY <1>4 DEF HandlerCancel
  <2>2. Exists(n)
    BY <2>1 DEF Cancellable, Exists
  <2> QED
    BY <1>1, <1>2, <2>1, <2>2, UpdateKeepsRows DEF Cancel, Statuses
<1> QED
  BY <1>2, <1>3, <1>4 DEF HandlerBroadcastPending, HandlerBroadcastQueued,
                          HandlerBroadcastCancelled, HandlerDisconnect

LEMMA HandlerImplements ==
    ASSUME IInv, RecordInv, TypeOK', NEW h \in Handlers, HandlerNext(h)
    PROVE  D!Next
<1>1. UNCHANGED <<received, ticker, worker, ctx>>
  BY DEF HandlerNext
<1>2. CASE \/ HandlerBroadcastPending(h) \/ HandlerMarkQueued(h)
           \/ HandlerBroadcastQueued(h) \/ HandlerCancel(h)
           \/ HandlerBroadcastCancelled(h) \/ HandlerDisconnect(h)
  <2>1. TypeOK /\ resent' = resent
    BY <1>2 DEF IInv, HandlerBroadcastPending, HandlerMarkQueued, HandlerBroadcastQueued,
                HandlerCancel, HandlerBroadcastCancelled, HandlerDisconnect, queueVars
  <2>2. \A n \in Notifications : RowKept(n) /\ Shrinks(n) /\ RowHarmless(n)
    BY <1>1, <1>2, HandlerKeepsRows, HandlerOtherStep
  <2>3. \A n \in Notifications : Rests(n)
    BY <2>1, <2>2, RestsWhenShrinking
  <2> QED
    BY <2>1, <2>3, LoseStep
<1> QED
  BY <1>1, <1>2, PersistImplements, HandlerEnqueueImplements, HandlerResendImplements
     DEF HandlerNext, HandlerStep, HandlerProceed


--------------------------------------------------------------------------------
(***************************************************************************)
(* Tickers, time and processes.                                            *)
(***************************************************************************)
\* A ticker holds a notification once.
OnceHeld == \A t \in Tickers : \A l, m \in TickerHolds(t) : l.n = m.n => l = m

LEMMA OnceHeldStep ==
    ASSUME IInv, OnceHeld, [Next]_vars
    PROVE  OnceHeld'
<1> SUFFICES ASSUME NEW t \in Tickers, NEW l \in TickerHolds(t)', NEW m \in TickerHolds(t)',
                    l.n = m.n
             PROVE  l = m
  BY DEF OnceHeld
<1>1. CASE TickerHolds(t)' \subseteq TickerHolds(t)
  BY <1>1 DEF OnceHeld
<1>2. CASE ~(TickerHolds(t)' \subseteq TickerHolds(t))
  <2>1. PICK s \in Tickers : TickerNext(s)
    BY <1>2 DEF Next, vars, HandlerNext, WorkerNext, TimePasses, Shutdown, Restart,
       Crash, StartProcess, TickerHolds, IdleTicker
  <2>2. UNCHANGED <<announced, received, handler, worker, ctx>>
    BY <2>1 DEF TickerNext
  <2>3. ASSUME TickerMarkQueued(s) \/ TickerExit(s)
        PROVE  FALSE
    <3>1. TypeOK /\ ticker \in [Tickers -> TickerState] /\ ticker[s] \in TickerState
      BY DEF IInv, TypeOK
    <3>2. CASE TickerExit(s)
      BY <1>2, <3>1, <3>2 DEF TickerExit, TickerHolds, TickerState
    <3>3. CASE TickerMarkQueued(s)
      <4>1. PICK k \in ticker[s].todo : \E c \in {k, Nil} :
               ticker' = [ticker EXCEPT ![s].todo = ticker[s].todo \ {k}, ![s].cur = c]
        BY <3>3 DEF TickerMarkQueued
      <4>2. ticker'[s].todo = ticker[s].todo \ {k} /\ ticker'[s].cur \in {k, Nil}
        BY <3>1, <4>1 DEF TickerState
      <4>3. t # s => ticker'[t] = ticker[t]
        BY <3>1, <4>1
      <4> QED
        BY <1>2, <4>2, <4>3 DEF TickerHolds
    <3> QED
      BY <2>3, <3>2, <3>3
  <2>4. ~TickerEnqueue(s)
    <3>1. ASSUME TickerEnqueue(s)
          PROVE  FALSE
      <4>1. \A r \in Tickers : TickerHolds(r)' \subseteq TickerHolds(r)
        BY <2>2, <3>1, TickerEnqueueForms
      <4> QED
        BY <1>2, <4>1
    <3> QED
      BY <3>1
  <2>5. ~TickerResend(s)
    BY <1>2 DEF TickerResend, TickerHolds
  <2>6. ScheduledReady \in SUBSET Notifications /\ RetryReady \in SUBSET Notifications
    BY DEF ScheduledReady, RetryReady
  <2>7. ASSUME NEW ready \in SUBSET Notifications, Fetch(s, ready)
        PROVE  l = m
    <3>1. TypeOK /\ ticker \in [Tickers -> TickerState] /\ ticker[s] = IdleTicker
      BY <2>7 DEF IInv, TypeOK, Fetch, Waiting
    <3>2. PICK batch \in SUBSET ready :
             ticker' = ticker \/ ticker' = [ticker EXCEPT ![s].todo = Fetched(batch)]
      BY <2>7 DEF Fetch
    <3>3. t = s /\ ticker'[s] = [IdleTicker EXCEPT !.todo = Fetched(batch)]
      BY <1>2, <3>1, <3>2 DEF TickerHolds
    <3>4. TickerHolds(t)' = Fetched(batch)
      BY <3>3 DEF TickerHolds, IdleTicker
    <3> QED
      BY <3>4 DEF Fetched
  <2> QED
    BY <2>1, <2>3, <2>4, <2>5, <2>6, <2>7
       DEF TickerNext, TickerStep, TickerFetchScheduled, TickerFetchRetry
<1> QED
  BY <1>1, <1>2

LEMMA FetchKeepsRows ==
    ASSUME TypeOK, NEW t \in Tickers, NEW ready \in SUBSET Notifications, Fetch(t, ready),
           \A k \in ready : Exists(k)
    PROVE  \A n \in Notifications : RowKept(n)
<1>1. PICK batch \in SUBSET ready : MarkFetched(batch) \/ db' = db
  BY DEF Fetch
<1>2. CASE db' = db
  BY <1>2, SameRowKept
<1>3. ASSUME MarkFetched(batch), NEW n \in Notifications
      PROVE  RowKept(n)
  <2>1. db \in [Notifications -> Row] /\ db[n] \in Row
    BY DEF TypeOK
  <2>2. CASE n \in batch
    <3>1. db'[n] = [db[n] EXCEPT !.status = "queued"] /\ Exists(n)
      BY <1>3, <2>1, <2>2 DEF MarkFetched
    <3> QED
      BY <2>1, <3>1 DEF RowKept, Exists, Row
  <2>3. CASE n \notin batch
    BY <1>3, <2>3, SameRowKept DEF MarkFetched
  <2> QED
    BY <2>2, <2>3
<1> QED
  BY <1>1, <1>2, <1>3

\* The right of a row goes to the ticker that claims it.
LEMMA ClaimCounts ==
    ASSUME TypeOK, TypeOK', NEW t \in Tickers, NEW batch \in SUBSET Notifications,
           MarkFetched(batch), TickerHolds(t)' = Fetched(batch),
           \A s \in Tickers : s # t => TickerHolds(s)' = TickerHolds(s),
           UNCHANGED <<stream, lastDelivered, worker, handler>>,
           NEW n \in batch
    PROVE  /\ Cardinality(Requests(n)') = Cardinality(Requests(n))
           /\ Cardinality(Claims(n)') <= Cardinality(Claims(n)) + 1
           /\ Cardinality(Entries(n)') = Cardinality(Entries(n))
           /\ Cardinality(About(n, ToSend)') = Cardinality(About(n, ToSend))
           /\ Cardinality(About(n, ToRecord)') = Cardinality(About(n, ToRecord))
           /\ Cardinality(About(n, ToFail)') = Cardinality(About(n, ToFail))
           /\ ~Pending(n)' /\ ~Resting(n)'
<1>1. Requests(n)' = Requests(n)
  BY DEF Requests, HandlerCarries
<1>2. Entries(n)' = Entries(n)
  BY DEF Entries, EntryCarries, Unread
<1>3. /\ About(n, ToSend)' = About(n, ToSend)
      /\ About(n, ToRecord)' = About(n, ToRecord)
      /\ About(n, ToFail)' = About(n, ToFail)
  BY DEF About, Held
<1>4. Claims(n)' \subseteq Claims(n) \cup {t}
  BY DEF Claims, TickerCarries
<1>5. Cardinality(Claims(n)') <= Cardinality(Claims(n)) + 1
  BY <1>4, PlacesFinite, CountGrows
<1>6. db'[n].status = "queued"
  <2>1. db'[n] = [db[n] EXCEPT !.status = "queued"] /\ db[n] \in Row
    BY DEF MarkFetched, TypeOK
  <2> QED
    BY <2>1 DEF Row
<1> QED
  BY <1>1, <1>2, <1>3, <1>5, <1>6 DEF Pending, Resting

LEMMA ScheduledImplements ==
    ASSUME IInv, RecordInv, TypeOK', NEW t \in Tickers, Fetch(t, ScheduledReady),
           UNCHANGED <<announced, received, handler, worker, ctx>>
    PROVE  D!Next
<1>1. /\ TypeOK
      /\ ScheduledReady \in SUBSET Notifications
      /\ \A k \in ScheduledReady : Exists(k) /\ Pending(k)
  BY DEF IInv, ScheduledReady, Exists, Pending
<1>2. PICK batch \in SUBSET ScheduledReady :
         /\ batch = {} \/ (MarkFetched(batch) /\ TickerHolds(t)' = Fetched(batch))
         /\ \A s \in Tickers : s # t => TickerHolds(s)' = TickerHolds(s)
         /\ UNCHANGED <<stream, lastDelivered, worker, handler, received, resent>>
         /\ \A n \in Notifications \ batch : Shrinks(n) /\ RowHarmless(n)
  BY <1>1, FetchForms
<1>3. \A n \in Notifications : RowKept(n)
  BY <1>1, FetchKeepsRows
<1>4. \A n \in Notifications \ batch : Rests(n)
  BY <1>1, <1>2, <1>3, RestsWhenShrinking
<1>5. ASSUME NEW n \in batch
      PROVE  Rests(n)
  <2>1. n \in Notifications /\ Exists(n) /\ Exists(n)' /\ Pending(n) /\ ~Resting(n)
    BY <1>1, <1>3, <1>5 DEF RowKept, Pending, Resting
  <2>2. batch \in SUBSET Notifications
    BY <1>1, <1>2
  <2>3. /\ Cardinality(Requests(n)') = Cardinality(Requests(n))
        /\ Cardinality(Claims(n)') <= Cardinality(Claims(n)) + 1
        /\ Cardinality(Entries(n)') = Cardinality(Entries(n))
        /\ Cardinality(About(n, ToSend)') = Cardinality(About(n, ToSend))
        /\ Cardinality(About(n, ToRecord)') = Cardinality(About(n, ToRecord))
        /\ Cardinality(About(n, ToFail)') = Cardinality(About(n, ToFail))
        /\ ~Pending(n)' /\ ~Resting(n)'
    BY <1>1, <1>2, <1>5, <2>2, ClaimCounts
  <2>4. RightsOf(n)' \in D!UpTo(RightsOf(n))
    BY <1>1, <2>1, <2>3, CountTypes, CountTypesNext DEF RightsOf, D!UpTo
  <2> QED
    BY <1>2, <1>3, <2>1, <2>4 DEF Rests
<1>6. \A n \in Notifications : Rests(n)
  BY <1>4, <1>5
<1> QED
  BY <1>1, <1>2, <1>6, LoseStep

LEMMA RetryImplements ==
    ASSUME IInv, RecordInv, TypeOK', NEW t \in Tickers, Fetch(t, RetryReady),
           UNCHANGED <<announced, received, handler, worker, ctx>>
    PROVE  D!Next
<1>1. /\ TypeOK
      /\ RetryReady \in SUBSET Notifications
      /\ \A k \in RetryReady : Exists(k) /\ Resting(k)
  BY DEF IInv, RetryReady, Exists, Resting
<1>2. PICK batch \in SUBSET RetryReady :
         /\ batch = {} \/ (MarkFetched(batch) /\ TickerHolds(t)' = Fetched(batch))
         /\ \A s \in Tickers : s # t => TickerHolds(s)' = TickerHolds(s)
         /\ UNCHANGED <<stream, lastDelivered, worker, handler, received, resent>>
         /\ \A n \in Notifications \ batch : Shrinks(n) /\ RowHarmless(n)
  BY <1>1, FetchForms
<1>3. \A n \in Notifications : RowKept(n)
  BY <1>1, FetchKeepsRows
<1>4. \A n \in Notifications \ batch : Rests(n)
  BY <1>1, <1>2, <1>3, RestsWhenShrinking
<1>5. ASSUME NEW n \in batch
      PROVE  /\ RightsOf(n)' \in D!UpTo([RightsOf(n) EXCEPT !.resting = @ - 1, !.waiting = @ + 1])
             /\ db[n].attempts < MaxAttempts /\ RightsOf(n).resting > 0
  <2>1. n \in Notifications /\ Exists(n) /\ Exists(n)' /\ Resting(n) /\ ~Pending(n)
    BY <1>1, <1>3, <1>5 DEF RowKept, Pending, Resting
  <2>2. batch \in SUBSET Notifications
    BY <1>1, <1>2
  <2>3. /\ Cardinality(Requests(n)') = Cardinality(Requests(n))
        /\ Cardinality(Claims(n)') <= Cardinality(Claims(n)) + 1
        /\ Cardinality(Entries(n)') = Cardinality(Entries(n))
        /\ Cardinality(About(n, ToSend)') = Cardinality(About(n, ToSend))
        /\ Cardinality(About(n, ToRecord)') = Cardinality(About(n, ToRecord))
        /\ Cardinality(About(n, ToFail)') = Cardinality(About(n, ToFail))
        /\ ~Pending(n)' /\ ~Resting(n)'
    BY <1>1, <1>2, <1>5, <2>2, ClaimCounts
  <2>4. RightsOf(n)' \in D!UpTo([RightsOf(n) EXCEPT !.resting = @ - 1, !.waiting = @ + 1])
    BY <1>1, <2>1, <2>3, CountTypes, CountTypesNext DEF RightsOf, D!UpTo
  <2>5. db[n].attempts < MaxAttempts /\ RightsOf(n).resting > 0
    BY <2>1 DEF Resting, RightsOf
  <2> QED
    BY <2>4, <2>5
<1>6. received' = received /\ resent' = resent
  BY <1>2
<1>7. D!AtMost([n \in Notifications |->
                   IF n \in batch
                   THEN [[i \in Notifications |-> RightsOf(i)][n]
                            EXCEPT !.resting = @ - 1, !.waiting = @ + 1]
                   ELSE [i \in Notifications |-> RightsOf(i)][n]])
  <2>1. \A n \in Notifications :
           RightsOf(n)' \in D!UpTo([k \in Notifications |->
                   IF k \in batch
                   THEN [[i \in Notifications |-> RightsOf(i)][k]
                            EXCEPT !.resting = @ - 1, !.waiting = @ + 1]
                   ELSE [i \in Notifications |-> RightsOf(i)][k]][n])
    BY <1>4, <1>5 DEF Rests
  <2> QED
    BY <2>1, AtMostHolds
<1>8. \A n \in batch : /\ [i \in Notifications |-> db[i].attempts][n] < MaxAttempts
                       /\ [i \in Notifications |-> RightsOf(i)][n].resting > 0
  BY <1>1, <1>5
<1>9. D!Retry(batch)
  BY <1>3, <1>6, <1>7, <1>8, SeenSame DEF D!Retry
<1>10. batch \in SUBSET Notifications
  BY <1>1, <1>2
<1> QED
  BY <1>9, <1>10 DEF D!Next

LEMMA TickerEnqueueImplements ==
    ASSUME IInv, RecordInv, OnceHeld, TypeOK', NEW t \in Tickers, TickerEnqueue(t),
           UNCHANGED <<announced, received, handler, worker, ctx>>
    PROVE  D!Next
<1>1. PICK m : m = ticker[t].cur
  OBVIOUS
<1>2. /\ m \in Message /\ m.n \in Notifications
      /\ TickerHolds(t)' = ticker[t].todo
      /\ TickerHolds(t) = ticker[t].todo \cup {m}
      /\ \A s \in Tickers : s # t => TickerHolds(s)' = TickerHolds(s)
      /\ UNCHANGED <<db, worker, handler, received, resent>>
      /\ UNCHANGED <<stream, lastDelivered>> \/ Added(m)
      /\ \A n \in Notifications : n # m.n \/ UNCHANGED stream => Shrinks(n) /\ RowHarmless(n)
  BY <1>1, TickerEnqueueForms
<1>3. TypeOK /\ m \notin ticker[t].todo
  BY <1>1 DEF IInv
<1>4. \A n \in Notifications : RowKept(n)
  BY <1>2, SameRowKept
<1>5. \A n \in Notifications : n # m.n \/ UNCHANGED stream => Rests(n)
  BY <1>2, <1>3, <1>4, RestsWhenShrinking
<1>6. ASSUME Added(m)
      PROVE  Rests(m.n)
  <2>1. PICK k : k = m.n
    OBVIOUS
  <2>2. k \in Notifications /\ Exists(k) /\ Exists(k)'
    BY <1>2, <1>4, <2>1 DEF RecordInv, Stored, RowKept
  <2>3. /\ Cardinality(Entries(k)') <= Cardinality(Entries(k)) + 1
        /\ About(k, ToSend)' \subseteq About(k, ToSend)
        /\ About(k, ToRecord)' \subseteq About(k, ToRecord)
        /\ About(k, ToFail)' \subseteq About(k, ToFail)
    BY <1>2, <1>3, <1>6, <2>1, EntryCounts
  <2>4. /\ IsFiniteSet(Requests(k)) /\ IsFiniteSet(Claims(k))
        /\ \A calls : IsFiniteSet(About(k, calls))
    BY <1>3, <2>2, PlacesFinite
  <2>5. Requests(k)' \subseteq Requests(k)
    BY <1>2 DEF Requests, HandlerCarries
  <2>6. t \in Claims(k) /\ Claims(k)' \subseteq Claims(k) \ {t}
    BY <1>2, <1>3, <2>1 DEF Claims, TickerCarries, OnceHeld
  <2>7. /\ Cardinality(Requests(k)') <= Cardinality(Requests(k))
        /\ Cardinality(Claims(k)') <= Cardinality(Claims(k)) - 1
        /\ Cardinality(About(k, ToSend)') <= Cardinality(About(k, ToSend))
        /\ Cardinality(About(k, ToRecord)') <= Cardinality(About(k, ToRecord))
        /\ Cardinality(About(k, ToFail)') <= Cardinality(About(k, ToFail))
    BY <2>3, <2>4, <2>5, <2>6, CountFalls, CountDrops
  <2>8. (Pending(k)' <=> Pending(k)) /\ (Resting(k)' <=> Resting(k))
    BY <1>2 DEF Pending, Resting
  <2>9. RightsOf(k)' \in D!UpTo(RightsOf(k))
    BY <1>3, <2>2, <2>3, <2>7, <2>8, CountTypes, CountTypesNext DEF RightsOf, D!UpTo
  <2> QED
    BY <1>2, <1>4, <2>1, <2>2, <2>9 DEF Rests
<1>7. \A n \in Notifications : Rests(n)
  BY <1>2, <1>5, <1>6
<1> QED
  BY <1>2, <1>3, <1>7, LoseStep

LEMMA TickerResendImplements ==
    ASSUME IInv, RecordInv, TypeOK', NEW t \in Tickers, TickerResend(t),
           UNCHANGED <<announced, received, handler, worker, ctx>>
    PROVE  D!Next
<1>1. PICK m : m = ticker[t].cur
  OBVIOUS
<1>2. /\ m \in Message /\ m.n \in Notifications
      /\ m \in TickerHolds(t)
      /\ EnqueueUnanswered(m)
      /\ UNCHANGED <<db, worker, handler, ticker, received>>
      /\ \A n \in Notifications : n # m.n => Shrinks(n) /\ RowHarmless(n)
  BY <1>1, TickerResendForms
<1>3. TypeOK /\ Exists(m.n)
  BY <1>2 DEF IInv, RecordInv, Stored
<1>4. Claims(m.n)' \subseteq Claims(m.n) /\ Requests(m.n)' \subseteq Requests(m.n)
  BY <1>2 DEF Claims, TickerCarries, TickerHolds, Requests, HandlerCarries
<1> QED
  BY <1>2, <1>3, <1>4, DoubleStep

LEMMA TickerImplements ==
    ASSUME IInv, RecordInv, OnceHeld, TypeOK', NEW t \in Tickers, TickerNext(t)
    PROVE  D!Next
<1>1. UNCHANGED <<announced, received, handler, worker, ctx>>
  BY DEF TickerNext
<1>2. CASE TickerMarkQueued(t) \/ TickerExit(t)
  <2>1. TypeOK /\ resent' = resent /\ ticker \in [Tickers -> TickerState]
    BY <1>2 DEF IInv, TypeOK, TickerMarkQueued, TickerExit, queueVars
  <2>2. \A n \in Notifications : RowKept(n)
    <3>1. CASE db' = db
      BY <3>1, SameRowKept
    <3>2. CASE db' # db
      <4>1. PICK m \in ticker[t].todo : UpdateStatus(m.n, "queued", FALSE)
        BY <1>2, <3>2 DEF TickerMarkQueued, TickerExit
      <4>2. m.n \in Notifications /\ Exists(m.n)
        BY <2>1, <4>1 DEF TickerState, Message, RecordInv, Stored, TickerHolds
      <4> QED
        BY <2>1, <4>1, <4>2, UpdateKeepsRows DEF Statuses
    <3> QED
      BY <3>1, <3>2
  <2>3. \A n \in Notifications : Rests(n)
    BY <1>1, <1>2, <2>1, <2>2, TickerMarkStep, RestsWhenShrinking
  <2> QED
    BY <2>1, <2>3, LoseStep
<1> QED
  BY <1>1, <1>2, ScheduledImplements, RetryImplements, TickerEnqueueImplements,
     TickerResendImplements
     DEF TickerNext, TickerStep, TickerFetchScheduled, TickerFetchRetry

\* Time, and the life of the processes.
LEMMA OthersImplement ==
    ASSUME IInv, RecordInv, TypeOK',
           \/ \E k \in Notifications : TimePasses(k)
           \/ \E p \in Processes : Shutdown(p) \/ StartProcess(p)
           \/ UNCHANGED vars
    PROVE  D!Next
<1>1. TypeOK /\ resent' = resent
  BY DEF IInv, TimePasses, Shutdown, StartProcess, vars, queueVars
<1>2. \A n \in Notifications : ~Exists(n) => db[n] = NoRow
  BY DEF RecordInv, RowRecorded
<1>3. \A n \in Notifications : Shrinks(n) /\ RowHarmless(n)
  BY <1>2, TimeStep, ProcessStep
<1>4. \A n \in Notifications : RowKept(n)
  <2>1. CASE db' = db
    BY <2>1, SameRowKept
  <2>2. CASE db' # db
    <3>1. PICK k \in Notifications : TimePasses(k)
      BY <2>2 DEF Shutdown, StartProcess, vars
    <3> SUFFICES ASSUME NEW n \in Notifications PROVE RowKept(n)
      OBVIOUS
    <3>2. db \in [Notifications -> Row] /\ db[n] \in Row
      BY <1>1 DEF TypeOK
    <3>3. CASE n # k
      BY <3>1, <3>2, <3>3, SameRowKept DEF TimePasses, ScheduledTimeArrives, RetryTimeArrives
    <3>4. CASE n = k /\ ScheduledTimeArrives(k)
      <4>1. db'[n] = [db[n] EXCEPT !.scheduledAt = "past"] /\ db[n].scheduledAt = "future"
        BY <3>2, <3>4 DEF ScheduledTimeArrives
      <4> QED
        BY <3>2, <4>1 DEF RowKept, Row, Exists
    <3>5. CASE n = k /\ RetryTimeArrives(k)
      <4>1. db'[n] = [db[n] EXCEPT !.nextRetryAt = "past"]
        BY <3>2, <3>5 DEF RetryTimeArrives
      <4> QED
        BY <3>2, <4>1 DEF RowKept, Row, Exists
    <3> QED
      BY <3>1, <3>3, <3>4, <3>5 DEF TimePasses
  <2> QED
    BY <2>1, <2>2
<1>5. \A n \in Notifications : Rests(n)
  BY <1>1, <1>3, <1>4, RestsWhenShrinking
<1> QED
  BY <1>1, <1>5, LoseStep


--------------------------------------------------------------------------------
(***************************************************************************)
(* Workers.                                                                *)
(***************************************************************************)
LEMMA CountMoves ==
    ASSUME NEW S, IsFiniteSet(S), NEW x, NEW comes \in BOOLEAN,
           NEW T, T \subseteq (S \ {x}) \cup (IF comes THEN {x} ELSE {})
    PROVE  /\ Cardinality(T) \in Nat /\ Cardinality(S) \in Nat
           /\ Cardinality(T) + (IF x \in S THEN 1 ELSE 0)
                 <= Cardinality(S) + (IF comes THEN 1 ELSE 0)
           /\ x \in S => Cardinality(S) > 0
<1>1. CASE x \in S
  <2>1. /\ IsFiniteSet(S \ {x}) /\ Cardinality(S \ {x}) = Cardinality(S) - 1
        /\ Cardinality(S) \in Nat /\ Cardinality(S \ {x}) \in Nat
    BY <1>1, FS_RemoveElement, FS_CardinalityType
  <2>2. CASE comes
    <3>1. T \subseteq (S \ {x}) \cup {x}
      BY <2>2
    <3>2. Cardinality(T) \in Nat /\ Cardinality(T) <= Cardinality(S \ {x}) + 1
      BY <2>1, <3>1, CountGrows
    <3> QED
      BY <1>1, <2>1, <2>2, <3>2
  <2>3. CASE ~comes
    <3>1. T \subseteq S \ {x}
      BY <2>3
    <3>2. Cardinality(T) \in Nat /\ Cardinality(T) <= Cardinality(S \ {x})
      BY <2>1, <3>1, CountFalls
    <3> QED
      BY <1>1, <2>1, <2>3, <3>2
  <2> QED
    BY <2>2, <2>3
<1>2. CASE x \notin S
  <2>1. CASE comes
    <3>1. T \subseteq S \cup {x}
      BY <2>1
    <3>2. /\ Cardinality(T) \in Nat /\ Cardinality(S) \in Nat
          /\ Cardinality(T) <= Cardinality(S) + 1
      BY <3>1, CountGrows
    <3> QED
      BY <1>2, <2>1, <3>2
  <2>2. CASE ~comes
    <3>1. T \subseteq S
      BY <2>2
    <3>2. /\ Cardinality(T) \in Nat /\ Cardinality(S) \in Nat
          /\ Cardinality(T) <= Cardinality(S)
      BY <3>1, CountFalls
    <3> QED
      BY <1>2, <2>2, <3>2
  <2> QED
    BY <2>1, <2>2
<1> QED
  BY <1>1, <1>2

\* How often w is in a set that it may enter or leave.
One(b) == IF b THEN 1 ELSE 0

\* A worker that moves on, or returns, leaves one count for another.
LEMMA WorkerCounts ==
    ASSUME IInv, NEW w \in Workers,
           UNCHANGED <<stream, lastDelivered, handler, ticker>>,
           NEW next, \/ worker' = [worker EXCEPT ![w].pc = next]
                     \/ worker' = [worker EXCEPT ![w] = IdleWorker],
           NEW n \in Notifications
    PROVE  /\ Cardinality(Requests(n)') = Cardinality(Requests(n))
           /\ Cardinality(Claims(n)') = Cardinality(Claims(n))
           /\ Cardinality(Entries(n)') = Cardinality(Entries(n))
           /\ \A calls \in {ToSend, ToRecord, ToFail} :
                 /\ Cardinality(About(n, calls)') + One(w \in About(n, calls))
                       <= Cardinality(About(n, calls)) + One(worker'[w].pc \in calls)
                 /\ w \in About(n, calls) => Cardinality(About(n, calls)) > 0
<1>1. TypeOK /\ worker \in [Workers -> WorkerState]
  BY DEF IInv, TypeOK
<1>2. Requests(n)' = Requests(n) /\ Claims(n)' = Claims(n) /\ Entries(n)' = Entries(n)
  BY DEF Requests, HandlerCarries, Claims, TickerCarries, TickerHolds, Entries, EntryCarries,
         Unread
<1>3. ASSUME NEW calls \in {ToSend, ToRecord, ToFail}
      PROVE  /\ Cardinality(About(n, calls)') + One(w \in About(n, calls))
                   <= Cardinality(About(n, calls)) + One(worker'[w].pc \in calls)
             /\ w \in About(n, calls) => Cardinality(About(n, calls)) > 0
  <2>1. \A v \in Workers : v # w => worker'[v] = worker[v]
    BY <1>1
  <2>2. About(n, calls)'
           \subseteq (About(n, calls) \ {w})
                     \cup (IF worker'[w].pc \in calls THEN {w} ELSE {})
    BY <2>1 DEF About, Held
  <2>3. IsFiniteSet(About(n, calls)) /\ (worker'[w].pc \in calls) \in BOOLEAN
    BY <1>1, PlacesFinite
  <2> HIDE DEF About
  <2> QED
    BY <2>2, <2>3, CountMoves DEF One
<1> QED
  BY <1>2, <1>3

\* What WorkerCounts says of the notification that the worker holds.
LEMMA HolderCounts ==
    ASSUME IInv, NEW w \in Workers,
           UNCHANGED <<stream, lastDelivered, handler, ticker>>,
           NEW next, \/ worker' = [worker EXCEPT ![w].pc = next]
                     \/ worker' = [worker EXCEPT ![w] = IdleWorker],
           NEW n \in Notifications, n = Held(w).n
    PROVE  /\ Cardinality(Requests(n)') = Cardinality(Requests(n))
           /\ Cardinality(Claims(n)') = Cardinality(Claims(n))
           /\ Cardinality(Entries(n)') = Cardinality(Entries(n))
           /\ Cardinality(About(n, ToSend)') + One(worker[w].pc \in ToSend)
                 <= Cardinality(About(n, ToSend)) + One(worker'[w].pc \in ToSend)
           /\ Cardinality(About(n, ToRecord)') + One(worker[w].pc \in ToRecord)
                 <= Cardinality(About(n, ToRecord)) + One(worker'[w].pc \in ToRecord)
           /\ Cardinality(About(n, ToFail)') + One(worker[w].pc \in ToFail)
                 <= Cardinality(About(n, ToFail)) + One(worker'[w].pc \in ToFail)
           /\ worker[w].pc \in ToSend => Cardinality(About(n, ToSend)) > 0
           /\ worker[w].pc \in ToRecord => Cardinality(About(n, ToRecord)) > 0
           /\ worker[w].pc \in ToFail => Cardinality(About(n, ToFail)) > 0
<1>1. \A calls : w \in About(n, calls) <=> worker[w].pc \in calls
  BY DEF About
<1> QED
  BY <1>1, WorkerCounts

\* The table and the provider change for the notification at hand only.
LEMMA OthersRest ==
    ASSUME IInv, TypeOK', NEW w \in Workers,
           \/ WorkerMarkProcessing(w) \/ WorkerMarkDelivered(w) \/ WorkerMarkFailed(w)
           \/ WorkerTakeToken(w) \/ WorkerSend(w) \/ WorkerIncrement(w),
           UNCHANGED <<handler, ticker, ctx>>,
           NEW k, k = Held(w).n,
           \A n \in Notifications : n # k => db'[n] = db[n]
    PROVE  \A n \in Notifications : n # k => Rests(n)
<1>1. TypeOK
  BY DEF IInv
<1> QED
  BY <1>1, OtherStep, SameRowKept, RestsWhenShrinking

\* The steps of a worker between the calls that matter to a right.
LEMMA HolderRests ==
    ASSUME IInv, TypeOK', NEW w \in Workers,
           UNCHANGED <<stream, lastDelivered, handler, ticker, received>>,
           NEW next, \/ worker' = [worker EXCEPT ![w].pc = next] /\ next \in ToSend
                     \/ worker' = [worker EXCEPT ![w] = IdleWorker],
           worker[w].pc \in Delivering,
           next \in ToSend => worker[w].pc \in ToSend,
           NEW n \in Notifications, n = Held(w).n, RowKept(n), Exists(n),
           Pending(n)' => Pending(n), Resting(n)' => Resting(n)
    PROVE  Rests(n)
<1>1. TypeOK /\ worker \in [Workers -> WorkerState]
  BY DEF IInv, TypeOK
<1>2. \/ worker'[w].pc \in ToSend /\ worker[w].pc \in ToSend
      \/ worker'[w].pc = "idle"
  BY <1>1 DEF WorkerState, IdleWorker
<1>3. /\ One(worker'[w].pc \in ToSend) <= One(worker[w].pc \in ToSend)
      /\ One(worker'[w].pc \in ToRecord) = 0
      /\ One(worker'[w].pc \in ToFail) = 0
  BY <1>2 DEF One, ToSend, ToRecord, ToFail
<1>4. \A b : One(b) \in {0, 1}
  BY DEF One
<1>5. /\ Cardinality(Requests(n)') = Cardinality(Requests(n))
      /\ Cardinality(Claims(n)') = Cardinality(Claims(n))
      /\ Cardinality(Entries(n)') = Cardinality(Entries(n))
      /\ Cardinality(About(n, ToSend)') + One(worker[w].pc \in ToSend)
            <= Cardinality(About(n, ToSend)) + One(worker'[w].pc \in ToSend)
      /\ Cardinality(About(n, ToRecord)') + One(worker[w].pc \in ToRecord)
            <= Cardinality(About(n, ToRecord)) + One(worker'[w].pc \in ToRecord)
      /\ Cardinality(About(n, ToFail)') + One(worker[w].pc \in ToFail)
            <= Cardinality(About(n, ToFail)) + One(worker'[w].pc \in ToFail)
  BY HolderCounts
<1>6. /\ Cardinality(About(n, ToSend)') <= Cardinality(About(n, ToSend))
      /\ Cardinality(About(n, ToRecord)') <= Cardinality(About(n, ToRecord))
      /\ Cardinality(About(n, ToFail)') <= Cardinality(About(n, ToFail))
  BY <1>1, <1>3, <1>4, <1>5, CountTypes, CountTypesNext
<1>7. Exists(n)'
  BY DEF RowKept
<1>8. RightsOf(n)' \in D!UpTo(RightsOf(n))
  BY <1>1, <1>5, <1>6, <1>7, CountTypes, CountTypesNext DEF RightsOf, D!UpTo
<1> QED
  BY <1>8 DEF Rests

LEMMA WorkerWaitsImplements ==
    ASSUME IInv, RecordInv, TypeOK', NEW w \in Workers,
           WorkerMarkProcessing(w) \/ WorkerTakeToken(w),
           UNCHANGED <<handler, ticker, ctx>>
    PROVE  D!Next
<1>1. /\ TypeOK /\ Busy(w) /\ worker[w].pc \in ToSend /\ worker[w].pc \in Delivering
      /\ UNCHANGED <<stream, lastDelivered, resent, received>>
  BY DEF IInv, Busy, WorkerMarkProcessing, WorkerTakeToken, ToSend, Delivering, queueVars
<1>2. PICK n \in Notifications : n = Held(w).n /\ Exists(n)
  BY <1>1, HeldStored
<1>3. PICK next \in ToSend : \/ worker' = [worker EXCEPT ![w].pc = next]
                             \/ worker' = [worker EXCEPT ![w] = IdleWorker]
  BY DEF WorkerMarkProcessing, WorkerTakeToken, RowUpdate, Goto, Return, ToSend
<1>4. db' = db \/ UpdateStatus(n, "processing", FALSE)
  BY <1>2 DEF WorkerMarkProcessing, WorkerTakeToken, RowUpdate
<1>5. \A i \in Notifications : RowKept(i)
  BY <1>1, <1>2, <1>4, SameRowKept, UpdateKeepsRows DEF Statuses
<1>6. (Pending(n)' => Pending(n)) /\ (Resting(n)' => Resting(n))
  <2>1. CASE db' = db
    BY <2>1 DEF Pending, Resting
  <2>2. CASE UpdateStatus(n, "processing", FALSE)
    <3>1. db'[n].status = "processing"
      BY <1>1, <2>2, UpdatedRow DEF Statuses
    <3> QED
      BY <3>1 DEF Pending, Resting
  <2> QED
    BY <1>4, <2>1, <2>2
<1>7. Rests(n)
  BY <1>1, <1>2, <1>3, <1>5, <1>6, HolderRests
<1>8. \A i \in Notifications : i # n => db'[i] = db[i]
  BY <1>1, <1>4, UpdatedRow DEF Statuses
<1>9. \A i \in Notifications : Rests(i)
  BY <1>2, <1>7, <1>8, OthersRest
<1> QED
  BY <1>1, <1>9, LoseStep

\* A call that failed without effect ends the right.
LEMMA FailedCallImplements ==
    ASSUME IInv, RecordInv, TypeOK', NEW w \in Workers,
           WorkerMarkDelivered(w) \/ WorkerIncrement(w) \/ WorkerMarkFailed(w),
           worker' = [worker EXCEPT ![w] = IdleWorker], db' = db,
           UNCHANGED <<handler, ticker, ctx>>
    PROVE  D!Next
<1>1. /\ TypeOK /\ Busy(w) /\ worker[w].pc \in Delivering
      /\ UNCHANGED <<stream, lastDelivered, resent, received>>
  BY DEF IInv, Busy, WorkerMarkDelivered, WorkerIncrement, WorkerMarkFailed, Delivering,
         queueVars
<1>2. PICK n \in Notifications : n = Held(w).n /\ Exists(n)
  BY <1>1, HeldStored
<1>3. /\ \A i \in Notifications : RowKept(i)
      /\ (Pending(n)' => Pending(n)) /\ (Resting(n)' => Resting(n))
  BY SameRowKept DEF Pending, Resting
<1>4. PICK next : next \notin ToSend
  <2>1. "idle" \notin ToSend
    BY DEF ToSend
  <2> QED
    BY <2>1
<1>5. Rests(n)
  BY <1>1, <1>2, <1>3, <1>4, HolderRests
<1>6. \A i \in Notifications : Rests(i)
  BY <1>2, <1>5, OthersRest
<1> QED
  BY <1>1, <1>6, LoseStep

\* The bounds of a step that changes the rights of k.
LEMMA AtMostAt ==
    ASSUME TypeOK, TypeOK', NEW k \in Notifications, NEW r,
           RightsOf(k)' \in D!UpTo(r), \A n \in Notifications : n # k => Rests(n)
    PROVE  D!AtMost([[n \in Notifications |-> RightsOf(n)] EXCEPT ![k] = r])
<1>1. \A n \in Notifications :
         RightsOf(n)' \in D!UpTo([[i \in Notifications |-> RightsOf(i)] EXCEPT ![k] = r][n])
  BY DEF Rests
<1> QED
  BY <1>1, AtMostHolds

LEMMA SendImplements ==
    ASSUME IInv, RecordInv, TypeOK', NEW w \in Workers, WorkerSend(w),
           UNCHANGED <<handler, ticker, ctx>>
    PROVE  D!Next
<1>1. /\ TypeOK /\ Busy(w) /\ worker[w].pc = "send" /\ worker \in [Workers -> WorkerState]
      /\ UNCHANGED <<db, stream, lastDelivered, resent>>
  BY DEF IInv, TypeOK, Busy, WorkerSend, queueVars
<1>2. PICK n \in Notifications : n = Held(w).n /\ Exists(n)
  BY <1>1, HeldStored
<1>3. PICK next \in ToRecord : worker' = [worker EXCEPT ![w].pc = next]
  BY DEF WorkerSend, Goto, ToRecord
<1>4. worker'[w].pc = next
  BY <1>1, <1>3 DEF WorkerState
<1>5. received' \in {received, [received EXCEPT ![n] = @ + 1]}
  BY <1>2 DEF WorkerSend
<1>6. \A i \in Notifications : RowKept(i)
  BY <1>1, SameRowKept
<1>7. \A i \in Notifications : i # n => Rests(i)
  BY <1>1, <1>2, OthersRest
<1>8. /\ Cardinality(Requests(n)') = Cardinality(Requests(n))
      /\ Cardinality(Claims(n)') = Cardinality(Claims(n))
      /\ Cardinality(Entries(n)') = Cardinality(Entries(n))
      /\ Cardinality(About(n, ToSend)') + One(worker[w].pc \in ToSend)
            <= Cardinality(About(n, ToSend)) + One(worker'[w].pc \in ToSend)
      /\ Cardinality(About(n, ToRecord)') + One(worker[w].pc \in ToRecord)
            <= Cardinality(About(n, ToRecord)) + One(worker'[w].pc \in ToRecord)
      /\ Cardinality(About(n, ToFail)') + One(worker[w].pc \in ToFail)
            <= Cardinality(About(n, ToFail)) + One(worker'[w].pc \in ToFail)
      /\ worker[w].pc \in ToSend => Cardinality(About(n, ToSend)) > 0
  BY <1>1, <1>2, <1>3, HolderCounts
<1>9. /\ One(worker[w].pc \in ToSend) = 1 /\ One(worker'[w].pc \in ToSend) = 0
      /\ One(worker[w].pc \in ToRecord) = 0 /\ One(worker'[w].pc \in ToRecord) = 1
      /\ One(worker[w].pc \in ToFail) = 0 /\ One(worker'[w].pc \in ToFail) = 0
      /\ worker[w].pc \in ToSend
  BY <1>1, <1>4 DEF One, ToSend, ToRecord, ToFail
<1>10. /\ Cardinality(About(n, ToSend)') <= Cardinality(About(n, ToSend)) - 1
       /\ Cardinality(About(n, ToRecord)') <= Cardinality(About(n, ToRecord)) + 1
       /\ Cardinality(About(n, ToFail)') <= Cardinality(About(n, ToFail))
       /\ Cardinality(About(n, ToSend)) > 0
  BY <1>1, <1>8, <1>9, CountTypes, CountTypesNext
<1>11. (Pending(n)' <=> Pending(n)) /\ (Resting(n)' <=> Resting(n)) /\ Exists(n)'
  BY <1>1, <1>2 DEF Pending, Resting, Exists
<1>12. /\ RightsOf(n)' \in D!UpTo([RightsOf(n) EXCEPT !.waiting = @ - 1, !.sent = @ + 1])
       /\ RightsOf(n).waiting > 0
  BY <1>1, <1>2, <1>8, <1>10, <1>11, CountTypes, CountTypesNext DEF RightsOf, D!UpTo
<1>13. D!AtMost([[i \in Notifications |-> RightsOf(i)]
                    EXCEPT ![n] = [RightsOf(n) EXCEPT !.waiting = @ - 1, !.sent = @ + 1]])
  BY <1>1, <1>7, <1>12, AtMostAt
<1>14. D!AtMost([[i \in Notifications |-> RightsOf(i)]
                    EXCEPT ![n].waiting = @ - 1, ![n].sent = @ + 1])
  <2>1. RightsOf(n) \in D!Rights
    BY <1>1, RightsType
  <2>2. [[i \in Notifications |-> RightsOf(i)]
            EXCEPT ![n] = [RightsOf(n) EXCEPT !.waiting = @ - 1, !.sent = @ + 1]]
        = [[i \in Notifications |-> RightsOf(i)]
            EXCEPT ![n].waiting = @ - 1, ![n].sent = @ + 1]
    BY <2>1 DEF D!Rights
  <2> QED
    BY <1>13, <2>2
<1>15. D!HandOver(n)
  BY <1>1, <1>5, <1>6, <1>12, <1>14, SeenSame DEF D!HandOver
<1> QED
  BY <1>15 DEF D!Next

LEMMA RecordImplements ==
    ASSUME IInv, RecordInv, TypeOK', NEW w \in Workers, WorkerMarkDelivered(w),
           UNCHANGED <<handler, ticker, ctx>>
    PROVE  D!Next
<1>1. /\ TypeOK /\ Busy(w) /\ worker[w].pc = "markDelivered"
      /\ worker \in [Workers -> WorkerState]
      /\ UNCHANGED <<stream, lastDelivered, resent, received>>
  BY DEF IInv, TypeOK, Busy, WorkerMarkDelivered, queueVars
<1>2. PICK n \in Notifications : n = Held(w).n /\ Exists(n)
  BY <1>1, HeldStored
<1>3. PICK next \in {"ackDelivered"} : \/ worker' = [worker EXCEPT ![w].pc = next]
                                      \/ worker' = [worker EXCEPT ![w] = IdleWorker]
  BY DEF WorkerMarkDelivered, RowUpdate, Goto, Return
<1>4. worker'[w].pc \in {"ackDelivered", "idle"}
  BY <1>1, <1>3 DEF WorkerState, IdleWorker
<1>5. \/ UpdateStatus(n, "delivered", TRUE)
      \/ db' = db /\ worker' = [worker EXCEPT ![w] = IdleWorker]
  BY <1>2 DEF WorkerMarkDelivered, RowUpdate, Return, Applied, Returned
<1>6. ASSUME UpdateStatus(n, "delivered", TRUE)
      PROVE  D!Next
  <2>1. /\ db'[n].status = "delivered"
        /\ db'[n].attempts = db[n].attempts
        /\ db'[n].providerMessageID <=> db[n].providerMessageID \/ TRUE
        /\ \A i \in Notifications : i # n => db'[i] = db[i]
    BY <1>1, <1>6, UpdatedRow DEF Statuses
  <2>2. db'[n].providerMessageID = TRUE
    <3>1. db'[n] \in Row
      BY DEF TypeOK
    <3> QED
      BY <2>1, <3>1 DEF Row
  <2>3. \A i \in Notifications : i # n => Rests(i)
    BY <1>1, <1>2, <2>1, OthersRest
  <2>4. /\ Cardinality(Requests(n)') = Cardinality(Requests(n))
        /\ Cardinality(Claims(n)') = Cardinality(Claims(n))
        /\ Cardinality(Entries(n)') = Cardinality(Entries(n))
        /\ Cardinality(About(n, ToSend)') + One(worker[w].pc \in ToSend)
              <= Cardinality(About(n, ToSend)) + One(worker'[w].pc \in ToSend)
        /\ Cardinality(About(n, ToRecord)') + One(worker[w].pc \in ToRecord)
              <= Cardinality(About(n, ToRecord)) + One(worker'[w].pc \in ToRecord)
        /\ Cardinality(About(n, ToFail)') + One(worker[w].pc \in ToFail)
              <= Cardinality(About(n, ToFail)) + One(worker'[w].pc \in ToFail)
        /\ worker[w].pc \in ToRecord => Cardinality(About(n, ToRecord)) > 0
    BY <1>1, <1>2, <1>3, HolderCounts
  <2>5. /\ One(worker[w].pc \in ToSend) = 0 /\ One(worker'[w].pc \in ToSend) = 0
        /\ One(worker[w].pc \in ToRecord) = 1 /\ One(worker'[w].pc \in ToRecord) = 0
        /\ One(worker[w].pc \in ToFail) = 0 /\ One(worker'[w].pc \in ToFail) = 0
        /\ worker[w].pc \in ToRecord
    BY <1>1, <1>4 DEF One, ToSend, ToRecord, ToFail
  <2>6. /\ Cardinality(About(n, ToSend)') <= Cardinality(About(n, ToSend))
        /\ Cardinality(About(n, ToRecord)') <= Cardinality(About(n, ToRecord)) - 1
        /\ Cardinality(About(n, ToFail)') <= Cardinality(About(n, ToFail))
        /\ Cardinality(About(n, ToRecord)) > 0
    BY <1>1, <2>4, <2>5, CountTypes, CountTypesNext
  <2>7. ~Pending(n)' /\ ~Resting(n)' /\ Exists(n)'
    BY <2>1 DEF Pending, Resting, Exists
  <2>8. /\ RightsOf(n)' \in D!UpTo([RightsOf(n) EXCEPT !.sent = @ - 1])
        /\ RightsOf(n).sent > 0
    BY <1>1, <1>2, <2>4, <2>6, <2>7, CountTypes, CountTypesNext DEF RightsOf, D!UpTo
  <2>9. D!AtMost([[i \in Notifications |-> RightsOf(i)]
                    EXCEPT ![n] = [RightsOf(n) EXCEPT !.sent = @ - 1]])
    BY <1>1, <2>3, <2>8, AtMostAt
  <2>10. D!AtMost([[i \in Notifications |-> RightsOf(i)] EXCEPT ![n].sent = @ - 1])
    <3>1. RightsOf(n) \in D!Rights
      BY <1>1, RightsType
    <3>2. [[i \in Notifications |-> RightsOf(i)]
              EXCEPT ![n] = [RightsOf(n) EXCEPT !.sent = @ - 1]]
          = [[i \in Notifications |-> RightsOf(i)] EXCEPT ![n].sent = @ - 1]
      BY <3>1 DEF D!Rights
    <3> QED
      BY <2>9, <3>2
  <2>11. /\ {i \in Notifications : Exists(i)'} = {i \in Notifications : Exists(i)}
         /\ [i \in Notifications |-> db'[i].attempts] = [i \in Notifications |-> db[i].attempts]
    BY <1>2, <2>1, <2>7 DEF Exists
  <2>12. [i \in Notifications |-> db'[i].providerMessageID]
         = [[i \in Notifications |-> db[i].providerMessageID] EXCEPT ![n] = TRUE]
    BY <2>1, <2>2
  <2>13. D!Record(n)
    BY <1>1, <2>8, <2>10, <2>11, <2>12 DEF D!Record
  <2> QED
    BY <2>13 DEF D!Next
<1> QED
  BY <1>5, <1>6, FailedCallImplements

LEMMA CountImplements ==
    ASSUME IInv, RecordInv, TypeOK', NEW w \in Workers, WorkerIncrement(w),
           UNCHANGED <<handler, ticker, ctx>>
    PROVE  D!Next
<1>1. /\ TypeOK /\ Busy(w) /\ worker[w].pc = "increment"
      /\ worker \in [Workers -> WorkerState]
      /\ UNCHANGED <<stream, lastDelivered, resent, received>>
  BY DEF IInv, TypeOK, Busy, WorkerIncrement, queueVars
<1>2. PICK n \in Notifications : n = Held(w).n /\ Exists(n)
  BY <1>1, HeldStored
<1>3. PICK next \in {"markFailed"} : \/ worker' = [worker EXCEPT ![w].pc = next]
                                    \/ worker' = [worker EXCEPT ![w] = IdleWorker]
  BY DEF WorkerIncrement, Goto, Return
<1>4. worker'[w].pc \in {"markFailed", "idle"}
  BY <1>1, <1>3 DEF WorkerState, IdleWorker
<1>5. \/ \E at \in Instants : IncrementAttempts(n, at)
      \/ db' = db /\ worker' = [worker EXCEPT ![w] = IdleWorker]
  BY <1>2 DEF WorkerIncrement, Return, Applied, Returned, Instants
<1>6. ASSUME NEW at \in Instants, IncrementAttempts(n, at)
      PROVE  D!Next
  <2>1. /\ db'[n].status = db[n].status
        /\ db'[n].attempts = db[n].attempts + 1
        /\ db'[n].providerMessageID = db[n].providerMessageID
        /\ \A i \in Notifications : i # n => db'[i] = db[i]
    BY <1>1, <1>6, IncrementedRow
  <2>2. db'[n].scheduledAt = db[n].scheduledAt /\ db[n].attempts \in Nat
    <3>1. db \in [Notifications -> Row] /\ db[n] \in Row
      BY <1>1 DEF TypeOK
    <3> QED
      BY <1>6, <3>1 DEF IncrementAttempts, Row
  <2>3. \A i \in Notifications : i # n => Rests(i)
    BY <1>1, <1>2, <2>1, OthersRest
  <2>4. /\ Cardinality(Requests(n)') = Cardinality(Requests(n))
        /\ Cardinality(Claims(n)') = Cardinality(Claims(n))
        /\ Cardinality(Entries(n)') = Cardinality(Entries(n))
        /\ Cardinality(About(n, ToSend)') + One(worker[w].pc \in ToSend)
              <= Cardinality(About(n, ToSend)) + One(worker'[w].pc \in ToSend)
        /\ Cardinality(About(n, ToRecord)') + One(worker[w].pc \in ToRecord)
              <= Cardinality(About(n, ToRecord)) + One(worker'[w].pc \in ToRecord)
        /\ Cardinality(About(n, ToFail)') + One(worker[w].pc \in ToFail)
              <= Cardinality(About(n, ToFail)) + One(worker'[w].pc \in ToFail)
        /\ worker[w].pc \in ToRecord => Cardinality(About(n, ToRecord)) > 0
    BY <1>1, <1>2, <1>3, HolderCounts
  <2>5. /\ One(worker[w].pc \in ToSend) = 0 /\ One(worker'[w].pc \in ToSend) = 0
        /\ One(worker[w].pc \in ToRecord) = 1 /\ One(worker'[w].pc \in ToRecord) = 0
        /\ One(worker[w].pc \in ToFail) = 0 /\ One(worker'[w].pc \in ToFail) \in {0, 1}
        /\ worker[w].pc \in ToRecord
    BY <1>1, <1>4 DEF One, ToSend, ToRecord, ToFail
  <2>6. /\ Cardinality(About(n, ToSend)') <= Cardinality(About(n, ToSend))
        /\ Cardinality(About(n, ToRecord)') <= Cardinality(About(n, ToRecord)) - 1
        /\ Cardinality(About(n, ToFail)') <= Cardinality(About(n, ToFail)) + 1
        /\ Cardinality(About(n, ToRecord)) > 0
    BY <1>1, <2>4, <2>5, CountTypes, CountTypesNext
  <2>7. (Pending(n)' <=> Pending(n)) /\ (Resting(n)' => Resting(n)) /\ Exists(n)'
    BY <1>2, <2>1, <2>2, NotificationAssumption DEF Pending, Resting, Exists
  <2>8. /\ RightsOf(n)' \in D!UpTo([RightsOf(n) EXCEPT !.sent = @ - 1, !.counted = @ + 1])
        /\ RightsOf(n).sent > 0
    BY <1>1, <1>2, <2>4, <2>6, <2>7, CountTypes, CountTypesNext DEF RightsOf, D!UpTo
  <2>9. D!AtMost([[i \in Notifications |-> RightsOf(i)]
                    EXCEPT ![n] = [RightsOf(n) EXCEPT !.sent = @ - 1, !.counted = @ + 1]])
    BY <1>1, <2>3, <2>8, AtMostAt
  <2>10. D!AtMost([[i \in Notifications |-> RightsOf(i)]
                     EXCEPT ![n].sent = @ - 1, ![n].counted = @ + 1])
    <3>1. RightsOf(n) \in D!Rights
      BY <1>1, RightsType
    <3>2. [[i \in Notifications |-> RightsOf(i)]
              EXCEPT ![n] = [RightsOf(n) EXCEPT !.sent = @ - 1, !.counted = @ + 1]]
          = [[i \in Notifications |-> RightsOf(i)]
              EXCEPT ![n].sent = @ - 1, ![n].counted = @ + 1]
      BY <3>1 DEF D!Rights
    <3> QED
      BY <2>9, <3>2
  <2>11. /\ {i \in Notifications : Exists(i)'} = {i \in Notifications : Exists(i)}
         /\ [i \in Notifications |-> db'[i].providerMessageID]
               = [i \in Notifications |-> db[i].providerMessageID]
    BY <1>2, <2>1, <2>7 DEF Exists
  <2>12. [i \in Notifications |-> db'[i].attempts]
         = [[i \in Notifications |-> db[i].attempts] EXCEPT ![n] = @ + 1]
    BY <2>1
  <2>13. D!Count(n)
    BY <1>1, <2>8, <2>10, <2>11, <2>12 DEF D!Count
  <2> QED
    BY <2>13 DEF D!Next
<1> QED
  BY <1>5, <1>6, FailedCallImplements

LEMMA RestImplements ==
    ASSUME IInv, RecordInv, TypeOK', NEW w \in Workers, WorkerMarkFailed(w),
           UNCHANGED <<handler, ticker, ctx>>
    PROVE  D!Next
<1>1. /\ TypeOK /\ Busy(w) /\ worker[w].pc = "markFailed"
      /\ worker \in [Workers -> WorkerState]
      /\ UNCHANGED <<stream, lastDelivered, resent, received>>
  BY DEF IInv, TypeOK, Busy, WorkerMarkFailed, queueVars
<1>2. PICK n \in Notifications : n = Held(w).n /\ Exists(n)
  BY <1>1, HeldStored
<1>3. PICK next \in {"ackFailed"} : \/ worker' = [worker EXCEPT ![w].pc = next]
                                   \/ worker' = [worker EXCEPT ![w] = IdleWorker]
  BY DEF WorkerMarkFailed, RowUpdate, Goto, Return
<1>4. worker'[w].pc \in {"ackFailed", "idle"}
  BY <1>1, <1>3 DEF WorkerState, IdleWorker
<1>5. \/ UpdateStatus(n, "failed", FALSE)
      \/ db' = db /\ worker' = [worker EXCEPT ![w] = IdleWorker]
  BY <1>2 DEF WorkerMarkFailed, RowUpdate, Return, Applied, Returned
<1>6. ASSUME UpdateStatus(n, "failed", FALSE)
      PROVE  D!Next
  <2>1. /\ db'[n].status = "failed"
        /\ \A i \in Notifications : i # n => db'[i] = db[i]
    BY <1>1, <1>6, UpdatedRow DEF Statuses
  <2>2. \A i \in Notifications : RowKept(i)
    BY <1>1, <1>2, <1>6, UpdateKeepsRows DEF Statuses
  <2>3. \A i \in Notifications : i # n => Rests(i)
    BY <1>1, <1>2, <2>1, OthersRest
  <2>4. /\ Cardinality(Requests(n)') = Cardinality(Requests(n))
        /\ Cardinality(Claims(n)') = Cardinality(Claims(n))
        /\ Cardinality(Entries(n)') = Cardinality(Entries(n))
        /\ Cardinality(About(n, ToSend)') + One(worker[w].pc \in ToSend)
              <= Cardinality(About(n, ToSend)) + One(worker'[w].pc \in ToSend)
        /\ Cardinality(About(n, ToRecord)') + One(worker[w].pc \in ToRecord)
              <= Cardinality(About(n, ToRecord)) + One(worker'[w].pc \in ToRecord)
        /\ Cardinality(About(n, ToFail)') + One(worker[w].pc \in ToFail)
              <= Cardinality(About(n, ToFail)) + One(worker'[w].pc \in ToFail)
        /\ worker[w].pc \in ToFail => Cardinality(About(n, ToFail)) > 0
    BY <1>1, <1>2, <1>3, HolderCounts
  <2>5. /\ One(worker[w].pc \in ToSend) = 0 /\ One(worker'[w].pc \in ToSend) = 0
        /\ One(worker[w].pc \in ToRecord) = 0 /\ One(worker'[w].pc \in ToRecord) = 0
        /\ One(worker[w].pc \in ToFail) = 1 /\ One(worker'[w].pc \in ToFail) = 0
        /\ worker[w].pc \in ToFail
    BY <1>1, <1>4 DEF One, ToSend, ToRecord, ToFail
  <2>6. /\ Cardinality(About(n, ToSend)') <= Cardinality(About(n, ToSend))
        /\ Cardinality(About(n, ToRecord)') <= Cardinality(About(n, ToRecord))
        /\ Cardinality(About(n, ToFail)') <= Cardinality(About(n, ToFail)) - 1
        /\ Cardinality(About(n, ToFail)) > 0
    BY <1>1, <2>4, <2>5, CountTypes, CountTypesNext
  <2>7. ~Pending(n)' /\ Exists(n)'
    BY <2>1 DEF Pending, Exists
  <2>8. /\ RightsOf(n)' \in D!UpTo([RightsOf(n) EXCEPT !.counted = @ - 1, !.resting = @ + 1])
        /\ RightsOf(n).counted > 0
    BY <1>1, <1>2, <2>4, <2>6, <2>7, CountTypes, CountTypesNext DEF RightsOf, D!UpTo
  <2>9. D!AtMost([[i \in Notifications |-> RightsOf(i)]
                    EXCEPT ![n] = [RightsOf(n) EXCEPT !.counted = @ - 1, !.resting = @ + 1]])
    BY <1>1, <2>3, <2>8, AtMostAt
  <2>10. D!AtMost([[i \in Notifications |-> RightsOf(i)]
                     EXCEPT ![n].counted = @ - 1, ![n].resting = @ + 1])
    <3>1. RightsOf(n) \in D!Rights
      BY <1>1, RightsType
    <3>2. [[i \in Notifications |-> RightsOf(i)]
              EXCEPT ![n] = [RightsOf(n) EXCEPT !.counted = @ - 1, !.resting = @ + 1]]
          = [[i \in Notifications |-> RightsOf(i)]
              EXCEPT ![n].counted = @ - 1, ![n].resting = @ + 1]
      BY <3>1 DEF D!Rights
    <3> QED
      BY <2>9, <3>2
  <2>11. D!Rest(n)
    BY <1>1, <2>2, <2>8, <2>10, SeenSame DEF D!Rest
  <2> QED
    BY <2>11 DEF D!Next
<1> QED
  BY <1>5, <1>6, FailedCallImplements

LEMMA DequeueImplements ==
    ASSUME IInv, RecordInv, TypeOK', NEW w \in Workers, WorkerDequeue(w),
           UNCHANGED <<handler, ticker, ctx>>
    PROVE  D!Next
<1>1. PICK q : q = Serves[w]
  OBVIOUS
<1>2. PICK i : i = lastDelivered[q] + 1
  OBVIOUS
<1>3. PICK m : m = stream[q][i]
  OBVIOUS
<1>4. /\ q \in Queues /\ i \in DOMAIN stream[q] /\ m \in Message /\ QueueOf[m.n] = q
      /\ worker[w].pc = "idle"
      /\ UNCHANGED <<handler, ticker, db, received, resent, stream>>
      /\ \/ worker' = worker
         \/ /\ Dequeue(q)
            /\ worker' = [worker EXCEPT ![w] = [pc |-> "markProcessing", pos |-> i]]
      /\ \A n \in Notifications : n # m.n \/ worker' = worker => Shrinks(n) /\ RowHarmless(n)
  BY <1>1, <1>2, <1>3, DequeueForms
<1>5. TypeOK /\ worker \in [Workers -> WorkerState] /\ lastDelivered \in [Queues -> Nat]
  BY DEF IInv, TypeOK
<1>6. \A n \in Notifications : RowKept(n)
  BY <1>4, SameRowKept
<1>7. \A n \in Notifications : n # m.n \/ worker' = worker => Rests(n)
  BY <1>4, <1>5, <1>6, RestsWhenShrinking
<1>8. ASSUME Dequeue(q), worker' = [worker EXCEPT ![w] = [pc |-> "markProcessing", pos |-> i]]
      PROVE  Rests(m.n)
  <2>1. PICK n \in Notifications : n = m.n
    BY <1>4 DEF Message
  <2>2. QueueOf[n] = q /\ stream[q][i].n = n /\ Exists(n)
    BY <1>3, <1>4, <2>1 DEF RecordInv, Stored
  <2>3. lastDelivered'[q] = lastDelivered[q] + 1 /\ stream' = stream
    BY <1>4, <1>5, <1>8 DEF Dequeue
  <2>4. Requests(n)' = Requests(n) /\ Claims(n)' = Claims(n)
    BY <1>4 DEF Requests, HandlerCarries, Claims, TickerCarries, TickerHolds
  <2>5. i \in Entries(n) /\ Entries(n)' \subseteq Entries(n) \ {i}
    <3>1. /\ Len(stream[q]) \in Nat /\ lastDelivered[q] \in Nat
          /\ DOMAIN stream[q] = 1 .. Len(stream[q])
      BY <1>4, <1>5 DEF TypeOK
    <3>2. Unread(q) = i .. Len(stream[q]) /\ Unread(q)' = (i + 1) .. Len(stream[q])
      BY <1>2, <2>3 DEF Unread
    <3>3. i \in Unread(q) /\ Unread(q)' \subseteq Unread(q) \ {i}
      BY <1>2, <1>4, <3>1, <3>2
    <3> QED
      BY <2>2, <2>3, <3>3 DEF Entries, EntryCarries
  <2>6. \A v \in Workers : v # w => worker'[v] = worker[v]
    BY <1>5, <1>8
  <2>7. worker'[w].pc = "markProcessing"
    BY <1>5, <1>8
  <2>8. /\ About(n, ToSend)' \subseteq About(n, ToSend) \cup {w}
        /\ About(n, ToRecord)' \subseteq About(n, ToRecord)
        /\ About(n, ToFail)' \subseteq About(n, ToFail)
    BY <2>3, <2>6, <2>7 DEF About, Held, ToRecord, ToFail
  <2>9. IsFiniteSet(Entries(n)) /\ (\A calls : IsFiniteSet(About(n, calls)))
    BY <1>5, PlacesFinite
  <2>10. /\ Cardinality(Entries(n)') <= Cardinality(Entries(n)) - 1
         /\ Cardinality(About(n, ToSend)') <= Cardinality(About(n, ToSend)) + 1
         /\ Cardinality(About(n, ToRecord)') <= Cardinality(About(n, ToRecord))
         /\ Cardinality(About(n, ToFail)') <= Cardinality(About(n, ToFail))
    BY <2>5, <2>8, <2>9, CountFalls, CountGrows, CountDrops
  <2>11. (Pending(n)' <=> Pending(n)) /\ (Resting(n)' <=> Resting(n)) /\ Exists(n)'
    BY <1>4, <2>2 DEF Pending, Resting, Exists
  <2>12. RightsOf(n)' \in D!UpTo(RightsOf(n))
    BY <1>5, <2>2, <2>4, <2>10, <2>11, CountTypes, CountTypesNext DEF RightsOf, D!UpTo
  <2> QED
    BY <1>4, <1>6, <2>1, <2>12 DEF Rests
<1>9. \A n \in Notifications : Rests(n)
  BY <1>4, <1>7, <1>8
<1> QED
  BY <1>4, <1>5, <1>9, LoseStep

LEMMA WorkerImplements ==
    ASSUME IInv, RecordInv, TypeOK', NEW w \in Workers, WorkerNext(w)
    PROVE  D!Next
<1>1. UNCHANGED <<handler, ticker, ctx>>
  BY DEF WorkerNext
<1>2. CASE WorkerAck(w) \/ WorkerExit(w)
  <2>1. TypeOK /\ resent' = resent /\ db' = db
    BY <1>2 DEF IInv, WorkerAck, WorkerExit, Ack, queueVars
  <2>2. \A n \in Notifications : Rests(n)
    BY <1>1, <1>2, <2>1, AckStep, SameRowKept, RestsWhenShrinking
  <2> QED
    BY <2>1, <2>2, LoseStep
<1> QED
  BY <1>1, <1>2, DequeueImplements, WorkerWaitsImplements, SendImplements,
     RecordImplements, CountImplements, RestImplements DEF WorkerNext, WorkerStep


--------------------------------------------------------------------------------
LEMMA InitImplements ==
    ASSUME Init
    PROVE  OnceHeld /\ D!Init
<1>1. \A n \in Notifications : /\ RightsOf(n) = D!NoRights /\ ~Exists(n)
                               /\ db[n].attempts = 0 /\ db[n].providerMessageID = FALSE
  BY DEF Init, NoRow, Exists, RightsOf, NoRights, D!NoRights
<1>2. OnceHeld
  BY DEF Init, OnceHeld, TickerHolds, IdleTicker
<1> QED
  BY <1>1, <1>2 DEF Init, D!Init

LEMMA StepImplements ==
    ASSUME IInv, RecordInv, OnceHeld, [Next]_vars
    PROVE  OnceHeld' /\ [D!Next]_(D!vars)
<1>1. TypeOK'
  BY TypeStep DEF IInv
<1>2. Next => \/ \E h \in Handlers : HandlerNext(h)
              \/ \E t \in Tickers : TickerNext(t)
              \/ \E w \in Workers : WorkerNext(w)
              \/ \E k \in Notifications : TimePasses(k)
              \/ \E p \in Processes : Shutdown(p) \/ StartProcess(p)
  BY DEF Next, Restart, Crash
<1>3. D!Next
  BY <1>1, <1>2, HandlerImplements, TickerImplements, WorkerImplements, OthersImplement
<1> QED
  BY <1>3, OnceHeldStep

LEMMA OnceHeldCorrect == Spec => [](IInv /\ RecordInv /\ OnceHeld)
<1>1. Init => OnceHeld
  BY InitImplements
<1>2. IInv /\ RecordInv /\ OnceHeld /\ [Next]_vars => OnceHeld'
  BY StepImplements
<1> QED
  BY <1>1, <1>2, IInvCorrect, RecordInvCorrect, PTL DEF Spec

\* Every execution of the pipeline is one of Delivery, for any number of
\* notifications, requests, tickers, workers and processes and whatever call fails.
THEOREM ImplementsDeliveryCorrect == Spec => ImplementsDelivery
<1>1. Init => D!Init
  BY InitImplements
<1>2. IInv /\ RecordInv /\ OnceHeld /\ [Next]_vars => [D!Next]_(D!vars)
  BY StepImplements
<1> QED
  BY <1>1, <1>2, OnceHeldCorrect, PTL DEF Spec, ImplementsDelivery, D!Spec

--------------------------------------------------------------------------------
(***************************************************************************)
(* What the rights add up to.                                              *)
(***************************************************************************)
\* Rights r, sends h, failures f, c recorded IDs and d resends of a notification: what
\* it has of rights and recorded IDs came from its acceptance or a resend; and each
\* send and each failure used one up, of which a failure gives one back while an
\* attempt is left.
Within(r, h, f, c, d) ==
    /\ r.waiting + r.sent + r.counted + r.resting + c <= 1 + d
    /\ h + r.waiting + r.counted + r.resting <= f + 1 + d
    /\ h + r.waiting <= MaxAttempts + d
    /\ f + r.sent + r.waiting <= MaxAttempts + d

\* Inductive, for every step of Delivery.
Spent(n) ==
    IF Exists(n)
    THEN Within(RightsOf(n), received[n], db[n].attempts, One(db[n].providerMessageID),
                resent[n])
    ELSE /\ received[n] = 0 /\ db[n].attempts = 0 /\ resent[n] = 0
         /\ ~db[n].providerMessageID

LEMMA WithinLess ==
    ASSUME NEW r \in D!Rights, NEW s \in D!Rights, s \in D!UpTo(r),
           NEW h \in Nat, NEW f \in Nat, NEW c \in {0, 1}, NEW d \in Nat, Within(r, h, f, c, d)
    PROVE  Within(s, h, f, c, d)
BY NotificationAssumption DEF Within, D!Rights, D!UpTo

LEMMA WithinNew ==
    ASSUME NEW s \in D!Rights, s \in D!UpTo([D!NoRights EXCEPT !.waiting = 1])
    PROVE  Within(s, 0, 0, 0, 0)
BY NotificationAssumption DEF Within, D!Rights, D!UpTo, D!NoRights

LEMMA WithinDoubled ==
    ASSUME NEW r \in D!Rights, NEW s \in D!Rights,
           s \in D!UpTo([r EXCEPT !.waiting = @ + 1]),
           NEW h \in Nat, NEW f \in Nat, NEW c \in {0, 1}, NEW d \in Nat, Within(r, h, f, c, d)
    PROVE  Within(s, h, f, c, d + 1)
BY NotificationAssumption DEF Within, D!Rights, D!UpTo

LEMMA WithinHanded ==
    ASSUME NEW r \in D!Rights, NEW s \in D!Rights,
           s \in D!UpTo([r EXCEPT !.waiting = @ - 1, !.sent = @ + 1]),
           NEW h \in Nat, NEW f \in Nat, NEW c \in {0, 1}, NEW d \in Nat, Within(r, h, f, c, d)
    PROVE  Within(s, h, f, c, d) /\ Within(s, h + 1, f, c, d)
BY NotificationAssumption DEF Within, D!Rights, D!UpTo

LEMMA WithinRecorded ==
    ASSUME NEW r \in D!Rights, NEW s \in D!Rights,
           s \in D!UpTo([r EXCEPT !.sent = @ - 1]),
           NEW h \in Nat, NEW f \in Nat, NEW c \in {0, 1}, NEW d \in Nat, Within(r, h, f, c, d)
    PROVE  Within(s, h, f, 1, d)
BY NotificationAssumption DEF Within, D!Rights, D!UpTo

LEMMA WithinCounted ==
    ASSUME NEW r \in D!Rights, NEW s \in D!Rights,
           s \in D!UpTo([r EXCEPT !.sent = @ - 1, !.counted = @ + 1]),
           NEW h \in Nat, NEW f \in Nat, NEW c \in {0, 1}, NEW d \in Nat, Within(r, h, f, c, d)
    PROVE  Within(s, h, f + 1, c, d)
BY NotificationAssumption DEF Within, D!Rights, D!UpTo

LEMMA WithinRested ==
    ASSUME NEW r \in D!Rights, NEW s \in D!Rights,
           s \in D!UpTo([r EXCEPT !.counted = @ - 1, !.resting = @ + 1]),
           NEW h \in Nat, NEW f \in Nat, NEW c \in {0, 1}, NEW d \in Nat, Within(r, h, f, c, d)
    PROVE  Within(s, h, f, c, d)
BY NotificationAssumption DEF Within, D!Rights, D!UpTo

LEMMA WithinRetried ==
    ASSUME NEW r \in D!Rights, NEW s \in D!Rights, r.resting > 0,
           s \in D!UpTo([r EXCEPT !.resting = @ - 1, !.waiting = @ + 1]),
           NEW h \in Nat, NEW f \in Nat, f < MaxAttempts,
           NEW c \in {0, 1}, NEW d \in Nat, Within(r, h, f, c, d)
    PROVE  Within(s, h, f, c, d)
BY NotificationAssumption DEF Within, D!Rights, D!UpTo

LEMMA SpentInit ==
    ASSUME Init
    PROVE  \A n \in Notifications : Spent(n)
BY DEF Init, Spent, Exists, NoRow

\* What a step of Delivery that changes the rights of k means for those of n.
LEMMA RightsAfter ==
    ASSUME NEW k \in Notifications, NEW x,
           D!AtMost([[i \in Notifications |-> RightsOf(i)] EXCEPT ![k] = x]),
           NEW n \in Notifications
    PROVE  RightsOf(n)' \in D!UpTo(IF n = k THEN x ELSE RightsOf(n))
<1>1. [[i \in Notifications |-> RightsOf(i)] EXCEPT ![k] = x][n]
      = IF n = k THEN x ELSE RightsOf(n)
  OBVIOUS
<1>2. [i \in Notifications |-> RightsOf(i)'][n]
      \in D!UpTo([[i \in Notifications |-> RightsOf(i)] EXCEPT ![k] = x][n])
  BY DEF D!AtMost
<1> QED
  BY <1>1, <1>2

\* What else Delivery sees of n stays.
Unseen(n) ==
    /\ Exists(n)' <=> Exists(n)
    /\ received'[n] = received[n]
    /\ db'[n].attempts = db[n].attempts
    /\ db'[n].providerMessageID = db[n].providerMessageID
    /\ resent'[n] = resent[n]

LEMMA SpentUnseen ==
    ASSUME TypeOK, TypeOK', NEW n \in Notifications, Unseen(n), Spent(n),
           RightsOf(n)' \in D!UpTo(RightsOf(n))
    PROVE  Spent(n)'
<1>1. /\ RightsOf(n) \in D!Rights /\ RightsOf(n)' \in D!Rights
      /\ received[n] \in Nat /\ db[n].attempts \in Nat /\ resent[n] \in Nat
      /\ One(db[n].providerMessageID) \in {0, 1}
  BY RightsType, RightsTypeNext DEF TypeOK, Row, One
<1>2. CASE Exists(n)
  <2>1. Within(RightsOf(n)', received[n], db[n].attempts, One(db[n].providerMessageID),
               resent[n])
    BY <1>1, <1>2, WithinLess DEF Spent
  <2> QED
    BY <1>2, <2>1 DEF Unseen, Spent
<1>3. CASE ~Exists(n)
  BY <1>3 DEF Unseen, Spent
<1> QED
  BY <1>2, <1>3

\* The functions that Delivery's variables stand for, at one notification.
LEMMA SeenOf ==
    ASSUME NEW n \in Notifications
    PROVE  /\ n \in {i \in Notifications : Exists(i)} <=> Exists(n)
           /\ n \in {i \in Notifications : Exists(i)'} <=> Exists(n)'
           /\ [i \in Notifications |-> db[i].attempts][n] = db[n].attempts
           /\ [i \in Notifications |-> db'[i].attempts][n] = db'[n].attempts
           /\ [i \in Notifications |-> db[i].providerMessageID][n] = db[n].providerMessageID
           /\ [i \in Notifications |-> db'[i].providerMessageID][n] = db'[n].providerMessageID
OBVIOUS

\* Each step of Delivery keeps within the budget.
LEMMA DoubleSpent ==
    ASSUME TypeOK, TypeOK', NEW k \in Notifications, D!Double(k),
           NEW n \in Notifications, Spent(n)
    PROVE  Spent(n)'
<1>1. /\ RightsOf(k) \in D!Rights /\ RightsOf(k)' \in D!Rights
      /\ received[k] \in Nat /\ db[k].attempts \in Nat /\ resent[k] \in Nat
      /\ db[k].providerMessageID \in BOOLEAN
      /\ One(db[k].providerMessageID) \in {0, 1}
  BY RightsType, RightsTypeNext DEF TypeOK, Row, One
<1>2. RightsOf(n)' \in D!UpTo(IF n = k THEN [RightsOf(k) EXCEPT !.waiting = @ + 1]
                                ELSE RightsOf(n))
  <2>1. [[i \in Notifications |-> RightsOf(i)] EXCEPT ![k].waiting = @ + 1]
        = [[i \in Notifications |-> RightsOf(i)] EXCEPT ![k] = [RightsOf(k) EXCEPT !.waiting = @ + 1]]
    BY <1>1 DEF D!Rights
  <2> QED
    BY <2>1, RightsAfter DEF D!Double
<1>3. Exists(k)
  BY DEF D!Double
<1>4. n # k => Unseen(n)
  BY SeenOf DEF D!Double, Unseen
<1>5. CASE n # k
  BY <1>2, <1>4, <1>5, SpentUnseen
<1>6. CASE n = k
  <2>1. /\ Exists(k)'
        /\ received'[k] = received[k]
        /\ db'[k].attempts = db[k].attempts
        /\ db'[k].providerMessageID = db[k].providerMessageID
        /\ resent'[k] = resent[k] + 1
    BY <1>3, SeenOf DEF D!Double, TypeOK
  <2>2. Within(RightsOf(k)', received'[k], db'[k].attempts, One(db'[k].providerMessageID),
               resent'[k])
    BY <1>1, <1>2, <1>3, <1>6, <2>1, WithinDoubled DEF Spent
  <2> QED
    BY <1>6, <2>1, <2>2 DEF Spent, One
<1> QED
  BY <1>5, <1>6

LEMMA HandOverSpent ==
    ASSUME TypeOK, TypeOK', NEW k \in Notifications, D!HandOver(k),
           NEW n \in Notifications, Spent(n)
    PROVE  Spent(n)'
<1>1. /\ RightsOf(k) \in D!Rights /\ RightsOf(k)' \in D!Rights
      /\ received[k] \in Nat /\ db[k].attempts \in Nat /\ resent[k] \in Nat
      /\ db[k].providerMessageID \in BOOLEAN
      /\ One(db[k].providerMessageID) \in {0, 1}
  BY RightsType, RightsTypeNext DEF TypeOK, Row, One
<1>2. RightsOf(n)' \in D!UpTo(IF n = k THEN [RightsOf(k) EXCEPT !.waiting = @ - 1, !.sent = @ + 1]
                                ELSE RightsOf(n))
  <2>1. [[i \in Notifications |-> RightsOf(i)] EXCEPT ![k].waiting = @ - 1, ![k].sent = @ + 1]
        = [[i \in Notifications |-> RightsOf(i)] EXCEPT ![k] = [RightsOf(k) EXCEPT !.waiting = @ - 1, !.sent = @ + 1]]
    BY <1>1 DEF D!Rights
  <2> QED
    BY <2>1, RightsAfter DEF D!HandOver
<1>3. Exists(k) /\ RightsOf(k).waiting > 0
  <2>1. [i \in Notifications |-> RightsOf(i)][k].waiting > 0
    BY DEF D!HandOver
  <2> QED
    BY <2>1 DEF RightsOf, NoRights
<1>4. /\ received \in [Notifications -> Nat]
      /\ received' \in {received, [received EXCEPT ![k] = @ + 1]}
      /\ UNCHANGED resent
      /\ {i \in Notifications : Exists(i)'} = {i \in Notifications : Exists(i)}
      /\ [i \in Notifications |-> db'[i].attempts] = [i \in Notifications |-> db[i].attempts]
      /\ [i \in Notifications |-> db'[i].providerMessageID]
            = [i \in Notifications |-> db[i].providerMessageID]
  BY DEF D!HandOver, TypeOK
<1>5. CASE n # k
  <2>1. received'[n] = received[n]
    BY <1>4, <1>5
  <2>2. Unseen(n)
    BY <1>4, <2>1, SeenOf DEF Unseen
  <2> QED
    BY <1>2, <1>5, <2>2, SpentUnseen
<1>6. CASE n = k
  <2>1. received'[k] \in {received[k], received[k] + 1}
    BY <1>4
  <2>2. /\ Exists(k)'
        /\ db'[k].attempts = db[k].attempts
        /\ db'[k].providerMessageID = db[k].providerMessageID
        /\ resent'[k] = resent[k]
    BY <1>3, <1>4, SeenOf
  <2>3. Within(RightsOf(k), received[k], db[k].attempts, One(db[k].providerMessageID),
               resent[k])
    BY <1>3, <1>6 DEF Spent
  <2>4. RightsOf(k)' \in D!UpTo([RightsOf(k) EXCEPT !.waiting = @ - 1, !.sent = @ + 1])
    BY <1>2, <1>6
  <2>5. /\ Within(RightsOf(k)', received[k], db[k].attempts,
                  One(db[k].providerMessageID), resent[k])
        /\ Within(RightsOf(k)', received[k] + 1, db[k].attempts,
                  One(db[k].providerMessageID), resent[k])
    BY <1>1, <2>3, <2>4, WithinHanded
  <2> QED
    BY <1>6, <2>1, <2>2, <2>5 DEF Spent
<1> QED
  BY <1>5, <1>6

LEMMA RecordSpent ==
    ASSUME TypeOK, TypeOK', NEW k \in Notifications, D!Record(k),
           NEW n \in Notifications, Spent(n)
    PROVE  Spent(n)'
<1>1. /\ RightsOf(k) \in D!Rights /\ RightsOf(k)' \in D!Rights
      /\ received[k] \in Nat /\ db[k].attempts \in Nat /\ resent[k] \in Nat
      /\ db[k].providerMessageID \in BOOLEAN
      /\ One(db[k].providerMessageID) \in {0, 1}
  BY RightsType, RightsTypeNext DEF TypeOK, Row, One
<1>2. RightsOf(n)' \in D!UpTo(IF n = k THEN [RightsOf(k) EXCEPT !.sent = @ - 1]
                                ELSE RightsOf(n))
  <2>1. [[i \in Notifications |-> RightsOf(i)] EXCEPT ![k].sent = @ - 1]
        = [[i \in Notifications |-> RightsOf(i)] EXCEPT ![k] = [RightsOf(k) EXCEPT !.sent = @ - 1]]
    BY <1>1 DEF D!Rights
  <2> QED
    BY <2>1, RightsAfter DEF D!Record
<1>3. Exists(k) /\ RightsOf(k).sent > 0
  <2>1. [i \in Notifications |-> RightsOf(i)][k].sent > 0
    BY DEF D!Record
  <2> QED
    BY <2>1 DEF RightsOf, NoRights
<1>4. n # k => Unseen(n)
  BY SeenOf DEF D!Record, Unseen
<1>5. CASE n # k
  BY <1>2, <1>4, <1>5, SpentUnseen
<1>6. CASE n = k
  <2>1. One(db'[k].providerMessageID) = 1
    <3>1. [i \in Notifications |-> db'[i].providerMessageID][k]
          = [[i \in Notifications |-> db[i].providerMessageID] EXCEPT ![k] = TRUE][k]
      BY DEF D!Record
    <3> QED
      BY <3>1 DEF One
  <2>2. /\ Exists(k)'
        /\ received'[k] = received[k]
        /\ db'[k].attempts = db[k].attempts
        /\ resent'[k] = resent[k]
    BY <1>3, SeenOf DEF D!Record
  <2>3. Within(RightsOf(k)', received'[k], db'[k].attempts, One(db'[k].providerMessageID),
               resent'[k])
    BY <1>1, <1>2, <1>3, <1>6, <2>1, <2>2, WithinRecorded DEF Spent
  <2> QED
    BY <1>6, <2>2, <2>3 DEF Spent, One
<1> QED
  BY <1>5, <1>6

LEMMA CountSpent ==
    ASSUME TypeOK, TypeOK', NEW k \in Notifications, D!Count(k),
           NEW n \in Notifications, Spent(n)
    PROVE  Spent(n)'
<1>1. /\ RightsOf(k) \in D!Rights /\ RightsOf(k)' \in D!Rights
      /\ received[k] \in Nat /\ db[k].attempts \in Nat /\ resent[k] \in Nat
      /\ db[k].providerMessageID \in BOOLEAN
      /\ One(db[k].providerMessageID) \in {0, 1}
  BY RightsType, RightsTypeNext DEF TypeOK, Row, One
<1>2. RightsOf(n)' \in D!UpTo(IF n = k THEN [RightsOf(k) EXCEPT !.sent = @ - 1, !.counted = @ + 1]
                                ELSE RightsOf(n))
  <2>1. [[i \in Notifications |-> RightsOf(i)] EXCEPT ![k].sent = @ - 1, ![k].counted = @ + 1]
        = [[i \in Notifications |-> RightsOf(i)] EXCEPT ![k] = [RightsOf(k) EXCEPT !.sent = @ - 1, !.counted = @ + 1]]
    BY <1>1 DEF D!Rights
  <2> QED
    BY <2>1, RightsAfter DEF D!Count
<1>3. Exists(k) /\ RightsOf(k).sent > 0
  <2>1. [i \in Notifications |-> RightsOf(i)][k].sent > 0
    BY DEF D!Count
  <2> QED
    BY <2>1 DEF RightsOf, NoRights
<1>4. n # k => Unseen(n)
  BY SeenOf DEF D!Count, Unseen
<1>5. CASE n # k
  BY <1>2, <1>4, <1>5, SpentUnseen
<1>6. CASE n = k
  <2>1. /\ Exists(k)'
        /\ received'[k] = received[k]
        /\ db'[k].attempts = db[k].attempts + 1
        /\ db'[k].providerMessageID = db[k].providerMessageID
        /\ resent'[k] = resent[k]
    BY <1>3, SeenOf DEF D!Count, TypeOK
  <2>2. Within(RightsOf(k)', received'[k], db'[k].attempts, One(db'[k].providerMessageID),
               resent'[k])
    BY <1>1, <1>2, <1>3, <1>6, <2>1, WithinCounted DEF Spent
  <2> QED
    BY <1>6, <2>1, <2>2 DEF Spent, One
<1> QED
  BY <1>5, <1>6

LEMMA RestSpent ==
    ASSUME TypeOK, TypeOK', NEW k \in Notifications, D!Rest(k),
           NEW n \in Notifications, Spent(n)
    PROVE  Spent(n)'
<1>1. /\ RightsOf(k) \in D!Rights /\ RightsOf(k)' \in D!Rights
      /\ received[k] \in Nat /\ db[k].attempts \in Nat /\ resent[k] \in Nat
      /\ db[k].providerMessageID \in BOOLEAN
      /\ One(db[k].providerMessageID) \in {0, 1}
  BY RightsType, RightsTypeNext DEF TypeOK, Row, One
<1>2. RightsOf(n)' \in D!UpTo(IF n = k THEN [RightsOf(k) EXCEPT !.counted = @ - 1, !.resting = @ + 1]
                                ELSE RightsOf(n))
  <2>1. [[i \in Notifications |-> RightsOf(i)] EXCEPT ![k].counted = @ - 1, ![k].resting = @ + 1]
        = [[i \in Notifications |-> RightsOf(i)] EXCEPT ![k] = [RightsOf(k) EXCEPT !.counted = @ - 1, !.resting = @ + 1]]
    BY <1>1 DEF D!Rights
  <2> QED
    BY <2>1, RightsAfter DEF D!Rest
<1>3. Exists(k) /\ RightsOf(k).counted > 0
  <2>1. [i \in Notifications |-> RightsOf(i)][k].counted > 0
    BY DEF D!Rest
  <2> QED
    BY <2>1 DEF RightsOf, NoRights
<1>4. n # k => Unseen(n)
  BY SeenOf DEF D!Rest, Unseen
<1>5. CASE n # k
  BY <1>2, <1>4, <1>5, SpentUnseen
<1>6. CASE n = k
  <2>1. /\ Exists(k)'
        /\ received'[k] = received[k]
        /\ db'[k].attempts = db[k].attempts
        /\ db'[k].providerMessageID = db[k].providerMessageID
        /\ resent'[k] = resent[k]
    BY <1>3, SeenOf DEF D!Rest, TypeOK
  <2>2. Within(RightsOf(k)', received'[k], db'[k].attempts, One(db'[k].providerMessageID),
               resent'[k])
    BY <1>1, <1>2, <1>3, <1>6, <2>1, WithinRested DEF Spent
  <2> QED
    BY <1>6, <2>1, <2>2 DEF Spent, One
<1> QED
  BY <1>5, <1>6

LEMMA RetrySpent ==
    ASSUME TypeOK, TypeOK', NEW batch \in SUBSET Notifications, D!Retry(batch),
           NEW n \in Notifications, Spent(n)
    PROVE  Spent(n)'
<1>1. Unseen(n)
  BY SeenOf DEF D!Retry, Unseen
<1>2. /\ RightsOf(n) \in D!Rights /\ RightsOf(n)' \in D!Rights
      /\ received[n] \in Nat /\ db[n].attempts \in Nat /\ resent[n] \in Nat
      /\ One(db[n].providerMessageID) \in {0, 1}
  BY RightsType, RightsTypeNext DEF TypeOK, Row, One
<1>3. RightsOf(n)' \in D!UpTo(IF n \in batch
                              THEN [RightsOf(n) EXCEPT !.resting = @ - 1, !.waiting = @ + 1]
                              ELSE RightsOf(n))
  <2>1. [i \in Notifications |-> RightsOf(i)'][n]
        \in D!UpTo([i \in Notifications |->
                      IF i \in batch
                      THEN [[j \in Notifications |-> RightsOf(j)][i]
                              EXCEPT !.resting = @ - 1, !.waiting = @ + 1]
                      ELSE [j \in Notifications |-> RightsOf(j)][i]][n])
    BY DEF D!Retry, D!AtMost
  <2> QED
    BY <2>1
<1>4. CASE n \notin batch
  BY <1>1, <1>3, <1>4, SpentUnseen
<1>5. CASE n \in batch
  <2>1. db[n].attempts < MaxAttempts /\ RightsOf(n).resting > 0
    <3>1. /\ [i \in Notifications |-> db[i].attempts][n] < MaxAttempts
          /\ [i \in Notifications |-> RightsOf(i)][n].resting > 0
      BY <1>5 DEF D!Retry
    <3> QED
      BY <3>1
  <2>2. Exists(n)
    BY <2>1 DEF RightsOf, NoRights
  <2>3. Within(RightsOf(n)', received[n], db[n].attempts, One(db[n].providerMessageID),
               resent[n])
    BY <1>2, <1>3, <1>5, <2>1, <2>2, WithinRetried DEF Spent
  <2> QED
    BY <1>1, <2>2, <2>3 DEF Unseen, Spent
<1> QED
  BY <1>4, <1>5

LEMMA AcceptSpent ==
    ASSUME TypeOK, TypeOK', NEW batch \in SUBSET Notifications, D!Accept(batch),
           NEW n \in Notifications, Spent(n)
    PROVE  Spent(n)'
<1>1. /\ received'[n] = received[n]
      /\ db'[n].attempts = db[n].attempts
      /\ db'[n].providerMessageID = db[n].providerMessageID
      /\ resent'[n] = resent[n]
      /\ n \in batch => ~Exists(n)
      /\ Exists(n)' <=> Exists(n) \/ n \in batch
  BY SeenOf DEF D!Accept
<1>2. RightsOf(n)' \in D!UpTo(IF n \in batch THEN [D!NoRights EXCEPT !.waiting = 1]
                                             ELSE RightsOf(n))
  <2>1. [i \in Notifications |-> RightsOf(i)'][n]
        \in D!UpTo([i \in Notifications |->
                      IF i \in batch THEN [D!NoRights EXCEPT !.waiting = 1]
                      ELSE [j \in Notifications |-> RightsOf(j)][i]][n])
    BY DEF D!Accept, D!AtMost
  <2> QED
    BY <2>1
<1>3. CASE n \notin batch
  <2>1. Unseen(n)
    BY <1>1, <1>3 DEF Unseen
  <2> QED
    BY <1>2, <1>3, <2>1, SpentUnseen
<1>4. CASE n \in batch
  <2>1. Within(RightsOf(n)', 0, 0, 0, 0)
    BY <1>2, <1>4, RightsTypeNext, WithinNew
  <2>2. /\ received'[n] = 0 /\ db'[n].attempts = 0 /\ resent'[n] = 0
        /\ ~db'[n].providerMessageID
    BY <1>1, <1>4 DEF Spent
  <2>3. One(db'[n].providerMessageID) = 0
    BY <2>2 DEF One
  <2> QED
    BY <1>1, <1>4, <2>1, <2>2, <2>3 DEF Spent
<1> QED
  BY <1>3, <1>4

LEMMA LoseSpent ==
    ASSUME TypeOK, TypeOK', D!Lose \/ UNCHANGED D!vars, NEW n \in Notifications, Spent(n)
    PROVE  Spent(n)'
<1>1. CASE D!Lose
  <2>1. Unseen(n)
    BY <1>1, SeenOf DEF D!Lose, Unseen
  <2>2. [i \in Notifications |-> RightsOf(i)'][n]
        \in D!UpTo([i \in Notifications |-> RightsOf(i)][n])
    BY <1>1 DEF D!Lose, D!AtMost
  <2> QED
    BY <2>1, <2>2, SpentUnseen
<1>2. CASE UNCHANGED D!vars
  <2>1. Unseen(n)
    BY <1>2, SeenOf DEF D!vars, Unseen
  <2>2. [i \in Notifications |-> RightsOf(i)'][n] = [i \in Notifications |-> RightsOf(i)][n]
    BY <1>2 DEF D!vars
  <2> QED
    BY <2>1, <2>2 DEF Unseen, Spent
<1> QED
  BY <1>1, <1>2

LEMMA SpentStep ==
    ASSUME TypeOK, TypeOK', \A n \in Notifications : Spent(n), [D!Next]_(D!vars)
    PROVE  \A n \in Notifications : Spent(n)'
BY LoseSpent, AcceptSpent, RetrySpent, DoubleSpent, HandOverSpent, RecordSpent, CountSpent,
   RestSpent DEF D!Next

LEMMA SpentCorrect == Spec => [](IInv /\ RecordInv /\ OnceHeld /\ \A n \in Notifications : Spent(n))
<1>1. Init => \A n \in Notifications : Spent(n)
  BY SpentInit
<1>2. IInv /\ RecordInv /\ OnceHeld /\ (\A n \in Notifications : Spent(n)) /\ [Next]_vars
         => (\A n \in Notifications : Spent(n))'
  BY StepImplements, SpentStep, TypeStep DEF IInv
<1> QED
  BY <1>1, <1>2, OnceHeldCorrect, PTL DEF Spec


--------------------------------------------------------------------------------
LEMMA TaggedCount ==
    ASSUME NEW tag, NEW S, IsFiniteSet(S)
    PROVE  /\ IsFiniteSet({<<tag, x>> : x \in S})
           /\ Cardinality({<<tag, x>> : x \in S}) = Cardinality(S)
           /\ Cardinality(S) \in Nat
<1> DEFINE T == {<<tag, x>> : x \in S}
           f == [x \in S |-> <<tag, x>>]
<1>1. f \in Bijection(S, T)
  <2>1. f \in [S -> T]
    OBVIOUS
  <2>2. \A x, y \in S : f[x] = f[y] => x = y
    <3> SUFFICES ASSUME NEW x \in S, NEW y \in S, <<tag, x>> = <<tag, y>> PROVE x = y
      OBVIOUS
    <3> QED
      OBVIOUS
  <2>3. \A y \in T : \E x \in S : f[x] = y
    OBVIOUS
  <2> HIDE DEF f, T
  <2> QED
    BY <2>1, <2>2, <2>3 DEF Bijection, Injection, Surjection, IsInjective
<1>2. ExistsBijection(S, T)
  BY <1>1 DEF ExistsBijection
<1> QED
  BY <1>2, FS_Bijection, FS_CardinalityType

LEMMA JoinedCount ==
    ASSUME NEW S, IsFiniteSet(S), NEW T, IsFiniteSet(T)
    PROVE  /\ IsFiniteSet(S \cup T)
           /\ Cardinality(S) \in Nat /\ Cardinality(T) \in Nat /\ Cardinality(S \cup T) \in Nat
           /\ Cardinality(S \cup T) <= Cardinality(S) + Cardinality(T)
<1>1. /\ IsFiniteSet(S \cup T) /\ IsFiniteSet(S \cap T)
      /\ Cardinality(S \cup T) = Cardinality(S) + Cardinality(T) - Cardinality(S \cap T)
  BY FS_Union, FS_Intersection
<1>2. /\ Cardinality(S) \in Nat /\ Cardinality(T) \in Nat /\ Cardinality(S \cup T) \in Nat
      /\ Cardinality(S \cap T) \in Nat
  BY <1>1, FS_CardinalityType
<1> QED
  BY <1>1, <1>2

\* Whoever may still attempt n is one of those whose rights Delivery counts.
LEMMA CarriersCount ==
    ASSUME TypeOK, NEW n \in Notifications, Exists(n)
    PROVE  /\ Cardinality(Carriers(n)) \in Nat
           /\ Cardinality(Carriers(n)) <= RightsOf(n).waiting + RightsOf(n).sent
                                          + RightsOf(n).counted + RightsOf(n).resting
<1> DEFINE W == {w \in Workers : WorkerCarries(w, n)}
           R == IF RowCarries(n) THEN {<<"row", n>>} ELSE {}
           A == {<<"request", h>> : h \in Requests(n)}
           B == {<<"ticker", t>> : t \in Claims(n)}
           C == {<<"entry", i>> : i \in Entries(n)}
           E == {<<"worker", w>> : w \in W}
<1>1. /\ IsFiniteSet(Requests(n)) /\ IsFiniteSet(Claims(n)) /\ IsFiniteSet(Entries(n))
      /\ IsFiniteSet(About(n, ToSend)) /\ IsFiniteSet(About(n, ToRecord))
      /\ IsFiniteSet(About(n, ToFail))
  BY PlacesFinite
<1>2. W \subseteq (About(n, ToSend) \cup About(n, ToRecord)) \cup About(n, ToFail)
  BY DEF About, WorkerCarries, Delivering, ToSend, ToRecord, ToFail
<1>3. /\ IsFiniteSet(W) /\ Cardinality(W) \in Nat
      /\ Cardinality(W) <= Cardinality(About(n, ToSend)) + Cardinality(About(n, ToRecord))
                           + Cardinality(About(n, ToFail))
  <2> HIDE DEF W
  <2>1. /\ IsFiniteSet(About(n, ToSend) \cup About(n, ToRecord))
        /\ Cardinality(About(n, ToSend)) \in Nat /\ Cardinality(About(n, ToRecord)) \in Nat
        /\ Cardinality(About(n, ToSend) \cup About(n, ToRecord)) \in Nat
        /\ Cardinality(About(n, ToSend) \cup About(n, ToRecord))
              <= Cardinality(About(n, ToSend)) + Cardinality(About(n, ToRecord))
    BY <1>1, JoinedCount
  <2>2. /\ IsFiniteSet((About(n, ToSend) \cup About(n, ToRecord)) \cup About(n, ToFail))
        /\ Cardinality(About(n, ToFail)) \in Nat
        /\ Cardinality((About(n, ToSend) \cup About(n, ToRecord)) \cup About(n, ToFail)) \in Nat
        /\ Cardinality((About(n, ToSend) \cup About(n, ToRecord)) \cup About(n, ToFail))
              <= Cardinality(About(n, ToSend) \cup About(n, ToRecord))
                 + Cardinality(About(n, ToFail))
    BY <1>1, <2>1, JoinedCount
  <2>3. IsFiniteSet(W) /\ Cardinality(W) \in Nat
        /\ Cardinality(W)
              <= Cardinality((About(n, ToSend) \cup About(n, ToRecord)) \cup About(n, ToFail))
    BY <1>2, <2>2, CountFalls, FS_Subset
  <2> QED
    BY <2>1, <2>2, <2>3
<1>4. /\ IsFiniteSet(R) /\ Cardinality(R) \in Nat
      /\ Cardinality(R) <= (IF Pending(n) THEN 1 ELSE 0) + (IF Resting(n) THEN 1 ELSE 0)
  <2>1. RowCarries(n) => Pending(n) \/ Resting(n)
    BY DEF RowCarries, Pending, Resting
  <2>2. /\ IsFiniteSet({<<"row", n>>}) /\ Cardinality({<<"row", n>>}) = 1
        /\ IsFiniteSet({}) /\ Cardinality({}) = 0
    BY FS_Singleton, FS_EmptySet
  <2>3. CASE RowCarries(n)
    BY <2>1, <2>2, <2>3
  <2>4. CASE ~RowCarries(n)
    BY <2>2, <2>4
  <2> QED
    BY <2>3, <2>4
<1>5. /\ IsFiniteSet(A) /\ Cardinality(A) = Cardinality(Requests(n))
      /\ IsFiniteSet(B) /\ Cardinality(B) = Cardinality(Claims(n))
      /\ IsFiniteSet(C) /\ Cardinality(C) = Cardinality(Entries(n))
      /\ IsFiniteSet(E) /\ Cardinality(E) = Cardinality(W)
  BY <1>1, <1>3, TaggedCount
<1>6. Carriers(n) = (((A \cup R) \cup B) \cup C) \cup E
  BY DEF Carriers, Requests, Claims, Entries
<1> HIDE DEF A, B, C, E, R, W
<1>7. /\ IsFiniteSet(A \cup R)
      /\ Cardinality(A) \in Nat /\ Cardinality(A \cup R) \in Nat
      /\ Cardinality(A \cup R) <= Cardinality(A) + Cardinality(R)
  BY <1>4, <1>5, JoinedCount
<1>8. /\ IsFiniteSet((A \cup R) \cup B)
      /\ Cardinality(B) \in Nat /\ Cardinality((A \cup R) \cup B) \in Nat
      /\ Cardinality((A \cup R) \cup B) <= Cardinality(A \cup R) + Cardinality(B)
  BY <1>5, <1>7, JoinedCount
<1>9. /\ IsFiniteSet(((A \cup R) \cup B) \cup C)
      /\ Cardinality(C) \in Nat /\ Cardinality(((A \cup R) \cup B) \cup C) \in Nat
      /\ Cardinality(((A \cup R) \cup B) \cup C)
            <= Cardinality((A \cup R) \cup B) + Cardinality(C)
  BY <1>5, <1>8, JoinedCount
<1>10. /\ Cardinality(E) \in Nat /\ Cardinality(Carriers(n)) \in Nat
       /\ Cardinality(Carriers(n))
             <= Cardinality(((A \cup R) \cup B) \cup C) + Cardinality(E)
  BY <1>5, <1>6, <1>9, JoinedCount
<1>11. Cardinality(Carriers(n))
          <= Cardinality(Requests(n)) + Cardinality(Claims(n)) + Cardinality(Entries(n))
             + Cardinality(About(n, ToSend)) + Cardinality(About(n, ToRecord))
             + Cardinality(About(n, ToFail))
             + (IF Pending(n) THEN 1 ELSE 0) + (IF Resting(n) THEN 1 ELSE 0)
  BY <1>3, <1>4, <1>5, <1>7, <1>8, <1>9, <1>10, CountTypes
<1> QED
  BY <1>10, <1>11, CountTypes DEF RightsOf

\* A notification has one carrier, and one more for each XADD of it that was resent.
THEOREM OneCarrierCorrect == Spec => []OneCarrier
<1>1. ASSUME TypeOK, RecordInv, NEW n \in Notifications, Spent(n)
      PROVE  Cardinality(Carriers(n)) <= 1 + resent[n]
  <2>1. CASE Exists(n)
    <3>1. /\ RightsOf(n) \in D!Rights /\ resent[n] \in Nat
          /\ One(db[n].providerMessageID) \in {0, 1}
      BY <1>1, RightsType DEF TypeOK, One
    <3>2. RightsOf(n).waiting + RightsOf(n).sent + RightsOf(n).counted + RightsOf(n).resting
             <= 1 + resent[n]
      BY <1>1, <2>1, <3>1 DEF Spent, Within, D!Rights
    <3>3. /\ Cardinality(Carriers(n)) \in Nat
          /\ Cardinality(Carriers(n)) <= RightsOf(n).waiting + RightsOf(n).sent
                                         + RightsOf(n).counted + RightsOf(n).resting
      BY <1>1, <2>1, CarriersCount
    <3> QED
      BY <3>1, <3>2, <3>3 DEF D!Rights
  <2>2. CASE ~Exists(n)
    <3>1. /\ \A h \in Handlers : ~HandlerCarries(h, n)
          /\ \A t \in Tickers : ~TickerCarries(t, n)
          /\ \A i \in Unread(QueueOf[n]) : ~EntryCarries(i, n)
      BY <1>1, <2>2, NoPlaces DEF Requests, Claims, Entries
    <3>2. \A w \in Workers : ~WorkerCarries(w, n)
      BY <1>1, <2>2, HeldStored DEF WorkerCarries, Busy, Delivering
    <3>3. ~RowCarries(n)
      BY <2>2 DEF RowCarries, Exists
    <3>4. Carriers(n) = {}
      BY <3>1, <3>2, <3>3, NoCarriers DEF NobodyCarries
    <3> QED
      BY <1>1, <3>4, FS_EmptySet DEF TypeOK
  <2> QED
    BY <2>1, <2>2
<1>2. IInv /\ RecordInv /\ OnceHeld /\ (\A n \in Notifications : Spent(n)) => OneCarrier
  BY <1>1 DEF IInv, OneCarrier
<1> QED
  BY <1>2, SpentCorrect, PTL

\* The provider gets a notification, and the row counts a failure, no more often than
\* max_attempts, and once more for each XADD of it that was resent.
THEOREM RetryBudgetCorrect == Spec => []RetryBudget
<1>1. ASSUME TypeOK, NEW n \in Notifications, Spent(n)
      PROVE  received[n] <= MaxAttempts + resent[n] /\ db[n].attempts <= MaxAttempts + resent[n]
  <2>1. /\ RightsOf(n) \in D!Rights /\ resent[n] \in Nat /\ received[n] \in Nat
        /\ db[n].attempts \in Nat
    BY <1>1, RightsType DEF TypeOK, Row
  <2> QED
    BY <1>1, <2>1, NotificationAssumption DEF Spent, Within, D!Rights
<1>2. IInv /\ RecordInv /\ OnceHeld /\ (\A n \in Notifications : Spent(n)) => RetryBudget
  BY <1>1 DEF IInv, RetryBudget
<1> QED
  BY <1>2, SpentCorrect, PTL

\* A recorded notification has no right left to hand it over, but for resends.
THEOREM DeliveredNeverResentCorrect == Spec => DeliveredNeverResent
<1>1. ASSUME IInv, RecordInv, OnceHeld, \A n \in Notifications : Spent(n), [Next]_vars,
             NEW n \in Notifications, db[n].providerMessageID, received'[n] # received[n]
      PROVE  resent[n] > 0
  <2>1. TypeOK /\ [D!Next]_(D!vars)
    BY <1>1, StepImplements DEF IInv
  <2>2. PICK k \in Notifications : D!HandOver(k)
    BY <1>1, <2>1 DEF D!Next, D!vars, D!Lose, D!Accept, D!Retry, D!Double, D!Record, D!Count,
                      D!Rest
  <2>3. k = n
    <3>1. received' \in {received, [received EXCEPT ![k] = @ + 1]}
      BY <2>2 DEF D!HandOver
    <3>2. received \in [Notifications -> Nat]
      BY <2>1 DEF TypeOK
    <3> QED
      BY <1>1, <3>1, <3>2
  <2>4. RightsOf(n).waiting > 0
    <3>1. [i \in Notifications |-> RightsOf(i)][n].waiting > 0
      BY <2>2, <2>3 DEF D!HandOver
    <3> QED
      BY <3>1
  <2>5. Exists(n) /\ One(db[n].providerMessageID) = 1
    BY <1>1 DEF Spent, One
  <2>6. RightsOf(n) \in D!Rights /\ resent[n] \in Nat
    BY <2>1, RightsType DEF TypeOK
  <2>7. RightsOf(n).waiting + RightsOf(n).sent + RightsOf(n).counted + RightsOf(n).resting + 1
           <= 1 + resent[n]
    BY <1>1, <2>5 DEF Spent, Within
  <2> QED
    BY <2>4, <2>6, <2>7 DEF D!Rights
<1>2. IInv /\ RecordInv /\ OnceHeld /\ (\A n \in Notifications : Spent(n)) /\ [Next]_vars
         => [\A n \in Notifications :
                db[n].providerMessageID /\ received'[n] # received[n] => resent[n] > 0]_vars
  BY <1>1
<1> QED
  BY <1>2, SpentCorrect, PTL DEF Spec, DeliveredNeverResent

--------------------------------------------------------------------------------
(***************************************************************************)
(* The right does not get lost by itself.  Every step that takes it from   *)
(* one place leaves it in another, but for the three that conclude,        *)
(* "delivered", the last "failed" and a cancellation, and for those that   *)
(* interrupt: a failed call, a client that goes away, a process that stops.*)
(***************************************************************************)
\* NothingIsLost, of a notification that nothing interrupted.
Kept(n) == Exists(n) /\ NobodyCarries(n) => Concluded(n)

Safe(n) == Kept(n) /\ RetryIsDated(n)

\* Nobody has the right, except perhaps the row.
RowAtMost(n) ==
    /\ \A h \in Handlers : ~HandlerCarries(h, n)
    /\ \A t \in Tickers : ~TickerCarries(t, n)
    /\ \A i \in Unread(QueueOf[n]) : ~EntryCarries(i, n)
    /\ \A w \in Workers : ~WorkerCarries(w, n)

LEMMA KeptMeansNotLost ==
    /\ NothingIsLost <=> \A n \in Notifications : Kept(n) \/ n \in interrupted
    /\ (\A n \in Notifications : Kept(n)' \/ n \in interrupted') => NothingIsLost'
<1>1. NothingIsLost <=> \A n \in Notifications : Kept(n) \/ n \in interrupted
  BY NoCarriers DEF NothingIsLost, Kept
<1>2. (\A n \in Notifications : Kept(n)' \/ n \in interrupted') => NothingIsLost'
  <2> SUFFICES ASSUME \A n \in Notifications : Kept(n)' \/ n \in interrupted',
                      NEW n \in Notifications, Exists(n)', Carriers(n)' = {}
               PROVE  Concluded(n)' \/ n \in interrupted'
    BY DEF NothingIsLost
  <2>1. NobodyCarries(n)'
    BY DEF Carriers, NobodyCarries
  <2> QED
    BY <2>1 DEF Kept
<1> QED
  BY <1>1, <1>2

\* What the invariant says of a notification that nothing has interrupted yet.
LEMMA Uninterrupted ==
    ASSUME KeptInv, NEW n \in Notifications, n \notin interrupted
    PROVE  /\ IInv /\ TypeOK
           /\ resent[n] = 0 /\ Consistent(n)
           /\ Kept(n) /\ RetryIsDated(n)
<1>1. IInv /\ TypeOK /\ NothingIsLost
  BY DEF KeptInv, IInv
<1>2. resent[n] = 0
  BY <1>1 DEF KeptInv, TypeOK
<1>3. Kept(n) /\ RetryIsDated(n)
  BY <1>1, KeptMeansNotLost DEF KeptInv
<1> QED
  BY <1>1, <1>2, <1>3 DEF IInv

\* A call that did not interrupt n returned as it should.
LEMMA Heeded ==
    ASSUME NEW o, NEW ns, Note(o, ns), NEW n, n \notin interrupted'
    PROVE  /\ n \notin interrupted
           /\ n \in ns => Returned(o) /\ Applied(o)
BY DEF Note, Returned, Applied

\* Somebody takes the notification on.
LEMMA TakenOn ==
    ASSUME NEW n,
           \/ RowCarries(n)'
           \/ \E h \in Handlers : HandlerCarries(h, n)'
           \/ \E t \in Tickers : TickerCarries(t, n)'
           \/ \E i \in Unread(QueueOf[n])' : EntryCarries(i, n)'
           \/ \E w \in Workers : WorkerCarries(w, n)'
    PROVE  Kept(n)'
BY DEF Kept, NobodyCarries

\* What keeps the retry time of a failed row in place: no step but those of the
\* worker with the notification touches its times, its attempts and "failed".
DatesKept(n) ==
    /\ TimesKept(n)
    /\ db'[n].attempts = db[n].attempts
    /\ db'[n].status = "failed" => db[n].status = "failed"

LEMMA DatesStay ==
    ASSUME NEW n, RetryIsDated(n), DatesKept(n),
           WorkerAt(n, "markFailed")' => WorkerAt(n, "markFailed")
    PROVE  RetryIsDated(n)'
BY DEF RetryIsDated, DatesKept, TimesKept

\* The places other than the row, when nobody drops the notification or fails it.
PlacesKept(n) ==
    /\ RowAtMost(n)' => RowAtMost(n)
    /\ WorkerAt(n, "markFailed")' => WorkerAt(n, "markFailed")

\* ... and the row stays as it is.
LEMMA StaysSafe ==
    ASSUME NEW n, Kept(n), RetryIsDated(n), db'[n] = db[n], PlacesKept(n)
    PROVE  Safe(n)'
<1>1. Kept(n)'
  BY DEF PlacesKept, Kept, NobodyCarries, RowAtMost, RowCarries, Exists, Concluded
<1>2. RetryIsDated(n)'
  BY DatesStay DEF PlacesKept, DatesKept, TimesKept
<1> QED
  BY <1>1, <1>2 DEF Safe

\* Workers and entries, as steps of requests and tickers leave them.
LEMMA PlacesStay ==
    ASSUME TypeOK, NEW n \in Notifications, UNCHANGED <<worker, lastDelivered>>,
           UNCHANGED stream \/ \E m \in Message : Added(m),
           \A h \in Handlers : HandlerCarries(h, n) => HandlerCarries(h, n)',
           \A t \in Tickers : TickerCarries(t, n) => TickerCarries(t, n)'
    PROVE  PlacesKept(n)
<1>1. ASSUME NEW w \in Workers, WorkerCarries(w, n) PROVE WorkerCarries(w, n)'
  <2>1. Serves[w] \in Queues /\ worker[w].pos \in 1 .. lastDelivered[Serves[w]]
    BY <1>1, WorkerAssumption DEF TypeOK, WorkerCarries, Delivering
  <2>2. worker[w].pos \in DOMAIN stream[Serves[w]]
    BY <2>1 DEF TypeOK
  <2>3. stream'[Serves[w]][worker[w].pos] = stream[Serves[w]][worker[w].pos]
    BY <2>1, <2>2, EnqueueType
  <2> QED
    BY <1>1, <2>3 DEF WorkerCarries, Held
<1>2. ASSUME NEW i \in Unread(QueueOf[n]), EntryCarries(i, n)
      PROVE  i \in Unread(QueueOf[n])' /\ EntryCarries(i, n)'
  <2>1. /\ QueueOf[n] \in Queues
        /\ stream[QueueOf[n]] \in Seq(Message)
        /\ lastDelivered[QueueOf[n]] \in Nat
    BY QueueAssumption DEF TypeOK
  <2>2. i \in DOMAIN stream[QueueOf[n]]
    BY <2>1 DEF Unread
  <2>3. CASE UNCHANGED stream
    BY <1>2, <2>3 DEF Unread, EntryCarries
  <2>4. CASE ~UNCHANGED stream
    <3>1. /\ stream' \in [Queues -> Seq(Message)]
          /\ \A q \in Queues : Len(stream[q]) <= Len(stream'[q])
          /\ \A q \in Queues : \A j \in DOMAIN stream[q] : stream'[q][j] = stream[q][j]
      BY <2>4, EnqueueType
    <3>2. /\ stream'[QueueOf[n]] \in Seq(Message)
          /\ Len(stream[QueueOf[n]]) <= Len(stream'[QueueOf[n]])
          /\ stream'[QueueOf[n]][i] = stream[QueueOf[n]][i]
      BY <2>1, <2>2, <3>1
    <3>3. i \in Unread(QueueOf[n])'
      BY <2>1, <3>2 DEF Unread
    <3> QED
      BY <1>2, <3>2, <3>3 DEF EntryCarries
  <2> QED
    BY <2>3, <2>4
<1>3. ASSUME WorkerAt(n, "markFailed")' PROVE WorkerAt(n, "markFailed")
  <2>1. PICK w \in Workers : worker'[w].pc = "markFailed" /\ Held(w)'.n = n
    BY <1>3 DEF WorkerAt
  <2>2. WorkerCarries(w, n)'
    BY <2>1 DEF WorkerCarries, Delivering
  <2>3. worker[w].pc = "markFailed" /\ Held(w)' = Held(w)
    BY <2>1, <2>2, WorkersStay
  <2> QED
    BY <2>1, <2>3 DEF WorkerAt
<1> QED
  BY <1>1, <1>2, <1>3 DEF RowAtMost, PlacesKept

\* The entry that XADD appends is unread.
LEMMA NewEntry ==
    ASSUME TypeOK, NEW m \in Message, Added(m)
    PROVE  \E i \in Unread(QueueOf[m.n])' : EntryCarries(i, m.n)'
<1>1. PICK q \in Queues : q = QueueOf[m.n]
  BY QueueAssumption DEF Message
<1>2. stream[q] \in Seq(Message) /\ lastDelivered[q] \in Nat /\ lastDelivered[q] <= Len(stream[q])
  BY DEF TypeOK
<1>3. stream'[q] = Append(stream[q], m) /\ lastDelivered' = lastDelivered
  BY <1>1 DEF Added, TypeOK
<1>4. PICK i : i = Len(stream[q]) + 1
  OBVIOUS
<1>5. Len(stream'[q]) = i /\ stream'[q][i] = m
  BY <1>2, <1>3, <1>4
<1>6. i \in (lastDelivered[q] + 1) .. i
  BY <1>2, <1>4
<1>7. i \in Unread(QueueOf[m.n])' /\ EntryCarries(i, m.n)'
  BY <1>1, <1>3, <1>5, <1>6 DEF Unread, EntryCarries
<1> QED
  BY <1>7

\* UpdateStatus to "queued", or Cancel.
LEMMA LeavingKeepsDates ==
    ASSUME TypeOK, NEW m \in Notifications, NEW status \in {"queued", "cancelled"},
           \/ UpdateStatus(m, status, FALSE)
           \/ db' = [db EXCEPT ![m].status = status],
           NEW n \in Notifications
    PROVE  /\ DatesKept(n)
           /\ n # m => db'[n] = db[n]
           /\ db'[m].status = status
           /\ db'[m].providerMessageID <=> db[m].providerMessageID
<1>1. db \in [Notifications -> Row] /\ db[m] \in Row
  BY DEF TypeOK
<1>2. TimesKept(n)
  BY UpdateKeepsTimes DEF Statuses
<1>3. n # m => db'[n] = db[n]
  BY <1>1 DEF UpdateStatus
<1>4. \/ db'[m] = [db[m] EXCEPT !.status = status, !.providerMessageID = @ \/ FALSE]
      \/ db'[m] = [db[m] EXCEPT !.status = status]
  BY <1>1 DEF UpdateStatus
<1>5. db'[m].status = status /\ db'[m].attempts = db[m].attempts
  BY <1>1, <1>4 DEF Row
<1>6. db'[m].providerMessageID <=> db[m].providerMessageID
  BY <1>1, <1>4 DEF Row
<1>7. DatesKept(n)
  BY <1>2, <1>3, <1>5 DEF DatesKept
<1> QED
  BY <1>3, <1>5, <1>6, <1>7

\* Such a write to a row that the scheduler may claim no more, or that a request
\* brings to its end.
LEMMA LeftRowKept ==
    ASSUME TypeOK, NEW n \in Notifications, Kept(n), RetryIsDated(n),
           NEW status \in {"queued", "cancelled"},
           db'[n].status = status,
           db'[n].attempts = db[n].attempts,
           db'[n].providerMessageID <=> db[n].providerMessageID,
           n \in Scheduled => status = "cancelled",
           Exists(n), RowAtMost(n)' => RowAtMost(n)
    PROVE  Kept(n)'
<1> SUFFICES ASSUME NobodyCarries(n)' PROVE Concluded(n)'
  BY DEF Kept
<1>1. RowAtMost(n)
  BY DEF NobodyCarries, RowAtMost
<1>2. CASE n \in Scheduled
  BY <1>2 DEF Concluded
<1>3. CASE n \notin Scheduled /\ RowCarries(n)
  <2>1. db[n].status = "failed"
    BY <1>3 DEF RowCarries, RetryIsDated
  <2>2. db'[n].attempts > 0
    BY <2>1 DEF RetryIsDated
  <2> QED
    BY <1>3, <2>2 DEF Concluded
<1>4. CASE n \notin Scheduled /\ ~RowCarries(n)
  <2>1. Concluded(n)
    BY <1>1, <1>4 DEF Kept, NobodyCarries, RowAtMost
  <2>2. CASE db[n].providerMessageID
    BY <2>2 DEF Concluded
  <2>3. CASE db[n].attempts >= MaxAttempts
    BY <2>3 DEF Concluded
  <2>4. CASE db[n].attempts > 0
    BY <1>4, <2>4 DEF Concluded
  <2> QED
    BY <1>4, <2>1, <2>2, <2>3, <2>4 DEF Concluded
<1> QED
  BY <1>2, <1>3, <1>4

--------------------------------------------------------------------------------
\* Requests.
LEMMA PersistKept ==
    ASSUME KeptInv, NEW h \in Handlers, HandlerPersist(h),
           UNCHANGED <<received, ticker, worker, ctx>>,
           NEW n \in Notifications, n \notin interrupted'
    PROVE  Safe(n)'
<1>1. PICK batch \in SUBSET Notifications, o \in RequestOutcomes :
         /\ CanInsert(batch)
         /\ IF Applied(o) THEN CreateBatch(batch) /\ Note(o, batch \ Scheduled)
                          ELSE UNCHANGED <<db, interrupted>>
         /\ IF Returned(o)
            THEN handler' = [handler EXCEPT ![h] = [pc   |-> "broadcastPending",
                                                    todo |-> batch,
                                                    cur  |-> Nil]]
            ELSE UNCHANGED handler
  BY DEF HandlerPersist
<1>2. n \notin interrupted
  BY <1>1, Heeded
<1>3. /\ IInv /\ TypeOK /\ Consistent(n)
      /\ Kept(n) /\ RetryIsDated(n)
  BY <1>2, Uninterrupted
<1>4. /\ handler \in [Handlers -> HandlerState]
      /\ handler[h].todo = {}
      /\ UNCHANGED <<stream, lastDelivered, worker, ticker, received>>
  BY <1>3 DEF HandlerPersist, queueVars, IInv, TypeOK, RequestConsistent
<1>5. \A t \in Tickers : TickerCarries(t, n) => TickerCarries(t, n)'
  BY <1>4 DEF TickerCarries, TickerHolds
<1>6. \A g \in Handlers : HandlerCarries(g, n) => HandlerCarries(g, n)'
  BY <1>1, <1>4 DEF HandlerCarries
<1>7. PlacesKept(n)
  BY <1>3, <1>4, <1>5, <1>6, PlacesStay
<1>8. CASE n \notin batch \/ ~Applied(o)
  <2>1. db'[n] = db[n]
    BY <1>1, <1>8 DEF CreateBatch
  <2> QED
    BY <1>3, <1>7, <2>1, StaysSafe
<1>9. CASE n \in batch /\ Applied(o)
  <2>1. db'[n] = NewNotification(n) /\ ~Exists(n)
    BY <1>1, <1>9 DEF CreateBatch, CanInsert
  <2>2. NobodyCarries(n)
    BY <1>3, <2>1, NoCarriers DEF Consistent, Exists
  <2>3. ~WorkerAt(n, "markFailed")'
    BY <1>7, <2>2 DEF PlacesKept, WorkerAt, NobodyCarries, WorkerCarries, Delivering
  <2>4. RetryIsDated(n)'
    BY <2>1, <2>3 DEF RetryIsDated, NewNotification
  <2>5. CASE n \in Scheduled
    <3>1. RowCarries(n)'
      BY <2>1, <2>5 DEF RowCarries, NewNotification
    <3> QED
      BY <2>4, <3>1, TakenOn DEF Safe
  <2>6. CASE n \notin Scheduled
    <3>1. Returned(o)
      BY <1>1, <1>9, <2>6, Heeded
    <3>2. HandlerCarries(h, n)'
      BY <1>1, <1>4, <1>9, <2>6, <3>1 DEF HandlerCarries
    <3> QED
      BY <2>4, <3>2, TakenOn DEF Safe
  <2> QED
    BY <2>5, <2>6
<1> QED
  BY <1>8, <1>9

LEMMA HandlerEnqueueKept ==
    ASSUME KeptInv, NEW h \in Handlers, HandlerEnqueue(h),
           UNCHANGED <<received, ticker, worker, ctx>>,
           NEW n \in Notifications, n \notin interrupted'
    PROVE  Safe(n)'
<1>1. PICK k \in handler[h].todo, o \in EnqueueOutcomes(RequestOutcomes) :
         /\ IF Applied(o) THEN Enqueue([n |-> k, attempts |-> 0]) ELSE UNCHANGED queueVars
         /\ Note(o, {k})
         /\ handler' = [handler EXCEPT ![h] =
               IF Returned(o)
               THEN [pc |-> "markQueued", todo |-> handler[h].todo \ {k}, cur |-> k]
               ELSE Continue(handler[h].todo \ {k})]
  BY DEF HandlerEnqueue
<1>2. /\ n \notin interrupted
      /\ n = k => Applied(o)
  BY <1>1, Heeded
<1>3. IInv /\ TypeOK /\ Kept(n) /\ RetryIsDated(n)
  BY <1>2, Uninterrupted
<1>4. /\ handler \in [Handlers -> HandlerState] /\ handler[h] \in HandlerState
      /\ UNCHANGED <<db, worker, ticker, received>>
  BY <1>3 DEF HandlerEnqueue, TypeOK
<1>5. PICK m : m = [n |-> k, attempts |-> 0]
  OBVIOUS
<1>6. m \in Message /\ m.n = k
  BY <1>4, <1>5 DEF HandlerState, Message
<1>7. UNCHANGED <<stream, lastDelivered>> \/ Added(m)
  BY <1>1, <1>5, EnqueueAdds DEF queueVars
<1>8. UNCHANGED lastDelivered
  BY <1>7 DEF Added
<1>9. \A t \in Tickers : TickerCarries(t, n) => TickerCarries(t, n)'
  BY <1>4 DEF TickerCarries, TickerHolds
<1>10. ASSUME NEW g \in Handlers, HandlerCarries(g, n)
       PROVE  HandlerCarries(g, n)' \/ n = k
  <2>1. g # h => handler'[g] = handler[g]
    BY <1>1, <1>4
  <2>2. handler'[h].todo = handler[h].todo \ {k}
    BY <1>1, <1>4 DEF Continue, IdleHandler
  <2> QED
    BY <1>10, <2>1, <2>2 DEF HandlerCarries
<1>11. CASE n = k
  <2>1. Added(m)
    BY <1>1, <1>2, <1>5, <1>11, EnqueueAdds
  <2>2. Kept(n)'
    BY <1>3, <1>6, <1>11, <2>1, NewEntry, TakenOn
  <2>3. WorkerAt(n, "markFailed")' => WorkerAt(n, "markFailed")
    <3>1. \A w \in Workers : WorkerCarries(w, n)' =>
             WorkerCarries(w, n) /\ worker'[w].pc = worker[w].pc /\ Held(w)' = Held(w)
      BY <1>3, <1>4, <1>6, <1>8, <2>1, WorkersStay
    <3> QED
      BY <3>1 DEF WorkerAt, WorkerCarries, Delivering
  <2>4. RetryIsDated(n)'
    BY <1>3, <1>4, <2>3, DatesStay DEF DatesKept, TimesKept
  <2> QED
    BY <2>2, <2>4 DEF Safe
<1>12. CASE n # k
  <2>1. PlacesKept(n)
    BY <1>3, <1>4, <1>6, <1>7, <1>8, <1>9, <1>10, <1>12, PlacesStay
  <2> QED
    BY <1>3, <1>4, <2>1, StaysSafe
<1> QED
  BY <1>11, <1>12

LEMMA HandlerResendKept ==
    ASSUME KeptInv, NEW h \in Handlers, HandlerResend(h),
           UNCHANGED <<received, ticker, worker, ctx>>,
           NEW n \in Notifications, n \notin interrupted'
    PROVE  Safe(n)'
<1>1. IInv /\ n \notin interrupted
  BY DEF KeptInv, HandlerResend
<1>2. PICK k \in handler[h].todo :
         /\ EnqueueUnanswered([n |-> k, attempts |-> 0])
         /\ \A g \in Handlers : handler'[g].todo = handler[g].todo
         /\ UNCHANGED <<db, worker, ticker, received>>
  BY <1>1, HandlerResendForms
<1>3. TypeOK /\ Kept(n) /\ RetryIsDated(n)
  BY <1>1, Uninterrupted
<1>4. PICK m : m = [n |-> k, attempts |-> 0]
  OBVIOUS
<1>5. m \in Message /\ Added(m)
  BY <1>2, <1>3, <1>4, EnqueueAdds DEF TypeOK, HandlerState, Message
<1>6. /\ \A g \in Handlers : HandlerCarries(g, n) => HandlerCarries(g, n)'
      /\ \A t \in Tickers : TickerCarries(t, n) => TickerCarries(t, n)'
  BY <1>2 DEF HandlerCarries, TickerCarries, TickerHolds
<1>7. PlacesKept(n)
  BY <1>2, <1>3, <1>5, <1>6, PlacesStay DEF Added
<1> QED
  BY <1>2, <1>3, <1>7, StaysSafe

\* The other steps of a request: what it has still to enqueue stays, unless the client
\* goes away.
LEMMA RequestKeepsTodo ==
    ASSUME KeptInv, NEW h \in Handlers,
           \/ HandlerBroadcastPending(h) \/ HandlerMarkQueued(h)
           \/ HandlerBroadcastQueued(h) \/ HandlerCancel(h)
           \/ HandlerBroadcastCancelled(h) \/ HandlerDisconnect(h),
           UNCHANGED <<received, ticker, worker, ctx>>,
           NEW n \in Notifications, n \notin interrupted'
    PROVE  PlacesKept(n) /\ n \notin interrupted
<1>1. n \notin interrupted
  BY DEF HandlerBroadcastPending, HandlerMarkQueued, HandlerBroadcastQueued, HandlerCancel,
         HandlerBroadcastCancelled, HandlerDisconnect
<1>2. /\ IInv /\ TypeOK
      /\ handler \in [Handlers -> HandlerState]
      /\ handler[h] \in HandlerState
      /\ handler[h].pc = "idle" => handler[h].todo = {}
      /\ handler[h].pc = "broadcastCancelled" => handler[h].todo = {}
      /\ UNCHANGED <<stream, lastDelivered, worker, ticker>>
  BY DEF HandlerBroadcastPending, HandlerMarkQueued, HandlerBroadcastQueued, HandlerCancel,
         HandlerBroadcastCancelled, HandlerDisconnect, queueVars, KeptInv, IInv, TypeOK,
         RequestConsistent
<1>3. \A g \in Handlers : g # h => handler'[g] = handler[g]
  BY <1>2 DEF HandlerBroadcastPending, HandlerMarkQueued, HandlerBroadcastQueued, HandlerCancel,
         HandlerBroadcastCancelled, HandlerDisconnect
<1>4. n \in handler[h].todo \ Scheduled => n \in handler'[h].todo
  <2>1. \A rest : rest \subseteq Continue(rest).todo
    BY DEF Continue, IdleHandler
  <2>2. CASE HandlerBroadcastPending(h)
    <3>1. handler'[h] = Continue(handler[h].todo \ Scheduled)
      BY <1>2, <2>2 DEF HandlerBroadcastPending
    <3> QED
      BY <2>1, <3>1
  <2>3. CASE HandlerMarkQueued(h)
    <3>1. \/ handler'[h] = [handler[h] EXCEPT !.pc = "broadcastQueued"]
          \/ handler'[h] = Continue(handler[h].todo)
      BY <1>2, <2>3 DEF HandlerMarkQueued
    <3> QED
      BY <1>2, <2>1, <3>1 DEF HandlerState
  <2>4. CASE HandlerBroadcastQueued(h)
    <3>1. handler'[h] = Continue(handler[h].todo)
      BY <1>2, <2>4 DEF HandlerBroadcastQueued
    <3> QED
      BY <2>1, <3>1
  <2>5. CASE HandlerCancel(h) \/ HandlerBroadcastCancelled(h)
    BY <1>2, <2>5 DEF HandlerCancel, HandlerBroadcastCancelled
  <2>6. CASE HandlerDisconnect(h)
    BY <2>6 DEF HandlerDisconnect
  <2> QED
    BY <2>2, <2>3, <2>4, <2>5, <2>6
<1>5. \A g \in Handlers : HandlerCarries(g, n) => HandlerCarries(g, n)'
  BY <1>3, <1>4 DEF HandlerCarries
<1>6. \A t \in Tickers : TickerCarries(t, n) => TickerCarries(t, n)'
  BY <1>2 DEF TickerCarries, TickerHolds
<1> QED
  BY <1>1, <1>2, <1>5, <1>6, PlacesStay

LEMMA HandlerOtherKept ==
    ASSUME KeptInv, RecordInv, NEW h \in Handlers,
           \/ HandlerBroadcastPending(h) \/ HandlerMarkQueued(h)
           \/ HandlerBroadcastQueued(h) \/ HandlerCancel(h)
           \/ HandlerBroadcastCancelled(h) \/ HandlerDisconnect(h),
           UNCHANGED <<received, ticker, worker, ctx>>,
           NEW n \in Notifications, n \notin interrupted'
    PROVE  Safe(n)'
<1>1. PlacesKept(n) /\ n \notin interrupted
  BY RequestKeepsTodo
<1>2. /\ TypeOK
      /\ Kept(n) /\ RetryIsDated(n)
  BY <1>1, Uninterrupted
<1>3. ASSUME db'[n] = db[n]
      PROVE  Safe(n)'
  BY <1>1, <1>2, <1>3, StaysSafe
<1>4. ASSUME NEW k \in Notifications, Exists(k), NEW status \in {"queued", "cancelled"},
             k \in Scheduled => status = "cancelled",
             \/ UpdateStatus(k, status, FALSE)
             \/ db' = [db EXCEPT ![k].status = status]
      PROVE  Safe(n)'
  <2>1. /\ DatesKept(n)
        /\ n # k => db'[n] = db[n]
        /\ db'[k].status = status
        /\ db'[k].providerMessageID <=> db[k].providerMessageID
    BY <1>2, <1>4, LeavingKeepsDates
  <2>2. CASE n = k
    <3>1. Kept(n)'
      BY <1>1, <1>2, <1>4, <2>1, <2>2, LeftRowKept DEF DatesKept, PlacesKept
    <3>2. RetryIsDated(n)'
      BY <1>1, <1>2, <2>1, DatesStay DEF PlacesKept
    <3> QED
      BY <3>1, <3>2 DEF Safe
  <2> QED
    BY <1>3, <2>1, <2>2
<1>5. CASE HandlerMarkQueued(h)
  <2>1. UpdateStatus(handler[h].cur, "queued", FALSE) \/ db' = db
    BY <1>5 DEF HandlerMarkQueued
  <2>2. /\ handler[h].cur \in Notifications
        /\ Exists(handler[h].cur)
        /\ handler[h].cur \notin Scheduled
    <3>1. handler[h] \in HandlerState /\ handler[h].cur # Nil /\ handler[h].pc = "markQueued"
      BY <1>2, <1>5 DEF HandlerMarkQueued, TypeOK
    <3>2. RequestStored(h)
      BY DEF RecordInv
    <3> QED
      BY <3>1, <3>2 DEF HandlerState, RequestStored
  <2> QED
    BY <1>3, <1>4, <2>1, <2>2
<1>6. CASE HandlerCancel(h)
  <2>1. PICK k \in Notifications :
           Cancellable(k) /\ (db' = [db EXCEPT ![k].status = "cancelled"] \/ db' = db)
    BY <1>6 DEF HandlerCancel, Cancel
  <2>2. Exists(k)
    BY <2>1 DEF Cancellable, Exists
  <2> QED
    BY <1>3, <1>4, <2>1, <2>2
<1> QED
  BY <1>3, <1>5, <1>6 DEF HandlerBroadcastPending, HandlerBroadcastQueued,
                          HandlerBroadcastCancelled, HandlerDisconnect

LEMMA HandlerKept ==
    ASSUME KeptInv, RecordInv, NEW h \in Handlers, HandlerNext(h),
           NEW n \in Notifications, n \notin interrupted'
    PROVE  Safe(n)'
<1>1. UNCHANGED <<received, ticker, worker, ctx>>
  BY DEF HandlerNext
<1> QED
  BY <1>1, PersistKept, HandlerEnqueueKept, HandlerResendKept, HandlerOtherKept
     DEF HandlerNext, HandlerStep, HandlerProceed

--------------------------------------------------------------------------------
\* Tickers.
LEMMA FetchKept ==
    ASSUME KeptInv, NEW t \in Tickers, NEW ready \in SUBSET Notifications,
           Fetch(t, ready), UNCHANGED <<announced, received, handler, worker, ctx>>,
           NEW n \in Notifications, n \notin interrupted'
    PROVE  Safe(n)'
<1>1. PICK batch \in SUBSET ready, o \in RequestOutcomes :
         /\ IF Applied(o) THEN MarkFetched(batch) /\ Note(o, batch)
                          ELSE UNCHANGED <<db, interrupted>>
         /\ IF Returned(o)
            THEN ticker' = [ticker EXCEPT ![t].todo = Fetched(batch)]
            ELSE UNCHANGED ticker
  BY DEF Fetch
<1>2. /\ n \notin interrupted
      /\ Applied(o) /\ n \in batch => Returned(o)
  BY <1>1, Heeded
<1>3. TypeOK /\ Kept(n) /\ RetryIsDated(n)
  BY <1>2, Uninterrupted
<1>4. /\ ticker \in [Tickers -> TickerState]
      /\ ticker[t] = IdleTicker
      /\ UNCHANGED <<stream, lastDelivered, worker, handler, received>>
  BY <1>3 DEF Fetch, Waiting, queueVars, TypeOK
<1>5. \A s \in Tickers : TickerCarries(s, n) => TickerCarries(s, n)'
  <2>1. \A s \in Tickers : s # t => ticker'[s] = ticker[s]
    BY <1>1, <1>4
  <2>2. TickerHolds(t) = {}
    BY <1>4 DEF TickerHolds, IdleTicker
  <2> QED
    BY <2>1, <2>2 DEF TickerCarries, TickerHolds
<1>6. PlacesKept(n)
  <2>1. \A h \in Handlers : HandlerCarries(h, n) => HandlerCarries(h, n)'
    BY <1>4 DEF HandlerCarries
  <2> QED
    BY <1>3, <1>4, <1>5, <2>1, PlacesStay
<1>7. CASE ~Applied(o) \/ n \notin batch
  <2>1. db'[n] = db[n]
    BY <1>1, <1>7 DEF MarkFetched
  <2> QED
    BY <1>3, <1>6, <2>1, StaysSafe
<1>8. CASE Applied(o) /\ n \in batch
  <2>1. batch \in SUBSET Notifications /\ MarkFetched(batch)
    BY <1>1, <1>8
  <2>2. TimesKept(n)
    BY <1>3, <2>1, FetchKeepsTimes
  <2>3. db'[n].status = "queued" /\ db'[n].attempts = db[n].attempts
    BY <1>3, <1>8, <2>1, FetchedRow
  <2>4. RetryIsDated(n)'
    BY <1>3, <1>6, <2>2, <2>3, DatesStay DEF DatesKept, PlacesKept
  <2>5. [n |-> n, attempts |-> db[n].attempts] \in Fetched(batch)
    BY <1>8 DEF Fetched
  <2>6. ticker'[t].todo = Fetched(batch)
    BY <1>1, <1>2, <1>4, <1>8 DEF TickerState
  <2>7. TickerCarries(t, n)'
    BY <2>5, <2>6 DEF TickerCarries, TickerHolds
  <2> QED
    BY <2>4, <2>7, TakenOn DEF Safe
<1> QED
  BY <1>7, <1>8

LEMMA TickerMarkKept ==
    ASSUME KeptInv, NEW t \in Tickers, TickerMarkQueued(t),
           UNCHANGED <<announced, received, handler, worker, ctx>>,
           NEW n \in Notifications, n \notin interrupted'
    PROVE  Safe(n)'
<1>1. PICK m \in ticker[t].todo, o \in Outcomes(ProcessOf[t]) :
         /\ IF Applied(o) THEN UpdateStatus(m.n, "queued", FALSE) ELSE UNCHANGED db
         /\ Note(o, {m.n})
         /\ ticker' = [ticker EXCEPT ![t].todo = @ \ {m},
                                     ![t].cur = IF Returned(o) THEN m ELSE Nil]
  BY DEF TickerMarkQueued
<1>2. /\ n \notin interrupted
      /\ n = m.n => Returned(o) /\ Applied(o)
  BY <1>1, Heeded
<1>3. TypeOK /\ Kept(n) /\ RetryIsDated(n)
  BY <1>2, Uninterrupted
<1>4. /\ ticker \in [Tickers -> TickerState]
      /\ ticker[t] \in TickerState
      /\ ticker[t].cur = Nil
      /\ UNCHANGED <<stream, lastDelivered, worker, handler, received>>
  BY <1>3 DEF TickerMarkQueued, queueVars, TypeOK
<1>5. m \in Message /\ m.n \in Notifications /\ m # Nil
  BY <1>4, SchedulerAssumption DEF TickerState, Message
<1>6. /\ ticker'[t].todo = ticker[t].todo \ {m}
      /\ ticker'[t].cur = IF Returned(o) THEN m ELSE Nil
      /\ \A s \in Tickers : s # t => ticker'[s] = ticker[s]
  BY <1>1, <1>4 DEF TickerState
<1>7. DatesKept(n) /\ (n # m.n => db'[n] = db[n])
  <2>1. CASE Applied(o)
    BY <1>1, <1>3, <1>5, <2>1, LeavingKeepsDates
  <2>2. CASE ~Applied(o)
    BY <1>1, <2>2 DEF DatesKept, TimesKept
  <2> QED
    BY <2>1, <2>2
<1>8. WorkerAt(n, "markFailed")' => WorkerAt(n, "markFailed")
  BY <1>4 DEF WorkerAt, Held
<1>9. CASE n = m.n
  <2>1. m \in TickerHolds(t)'
    BY <1>2, <1>5, <1>6, <1>9 DEF TickerHolds
  <2>2. TickerCarries(t, n)'
    BY <1>9, <2>1 DEF TickerCarries
  <2>3. RetryIsDated(n)'
    BY <1>3, <1>7, <1>8, DatesStay
  <2> QED
    BY <2>2, <2>3, TakenOn DEF Safe
<1>10. CASE n # m.n
  <2>1. \A h \in Handlers : HandlerCarries(h, n) => HandlerCarries(h, n)'
    BY <1>4 DEF HandlerCarries
  <2>2. \A s \in Tickers : s # t => TickerHolds(s)' = TickerHolds(s)
    BY <1>6 DEF TickerHolds
  <2>3. \A l \in TickerHolds(t) : l # m => l \in TickerHolds(t)'
    BY <1>4, <1>6 DEF TickerHolds
  <2>4. \A s \in Tickers : TickerCarries(s, n) => TickerCarries(s, n)'
    BY <1>10, <2>2, <2>3 DEF TickerCarries
  <2>5. PlacesKept(n)
    BY <1>3, <1>4, <2>1, <2>4, PlacesStay
  <2> QED
    BY <1>3, <1>7, <1>10, <2>5, StaysSafe
<1> QED
  BY <1>9, <1>10

LEMMA TickerEnqueueKept ==
    ASSUME KeptInv, NEW t \in Tickers, TickerEnqueue(t),
           UNCHANGED <<announced, received, handler, worker, ctx>>,
           NEW n \in Notifications, n \notin interrupted'
    PROVE  Safe(n)'
<1>1. PICK m : m = ticker[t].cur
  OBVIOUS
<1>2. PICK o \in EnqueueOutcomes(Outcomes(ProcessOf[t])) :
         /\ IF Applied(o) THEN Enqueue(m) ELSE UNCHANGED queueVars
         /\ Note(o, {m.n})
  BY <1>1 DEF TickerEnqueue
<1>3. /\ n \notin interrupted
      /\ n = m.n => Applied(o)
  BY <1>2, Heeded
<1>4. IInv /\ TypeOK /\ Kept(n) /\ RetryIsDated(n)
  BY <1>3, Uninterrupted
<1>5. /\ m \in Message /\ m.n \in Notifications
      /\ TickerHolds(t)' = ticker[t].todo
      /\ TickerHolds(t) = ticker[t].todo \cup {m}
      /\ \A s \in Tickers : s # t => TickerHolds(s)' = TickerHolds(s)
      /\ UNCHANGED <<db, worker, handler, received>>
      /\ UNCHANGED <<stream, lastDelivered>> \/ Added(m)
  BY <1>1, <1>4, TickerEnqueueForms
<1>6. UNCHANGED lastDelivered
  BY <1>5 DEF Added
<1>7. \A h \in Handlers : HandlerCarries(h, n) => HandlerCarries(h, n)'
  BY <1>5 DEF HandlerCarries
<1>8. CASE n = m.n
  <2>1. Added(m)
    BY <1>2, <1>3, <1>8, EnqueueAdds
  <2>2. Kept(n)'
    BY <1>4, <1>5, <1>8, <2>1, NewEntry, TakenOn
  <2>3. WorkerAt(n, "markFailed")' => WorkerAt(n, "markFailed")
    <3>1. \A w \in Workers : WorkerCarries(w, n)' =>
             WorkerCarries(w, n) /\ worker'[w].pc = worker[w].pc /\ Held(w)' = Held(w)
      BY <1>4, <1>5, <1>6, <2>1, WorkersStay
    <3> QED
      BY <3>1 DEF WorkerAt, WorkerCarries, Delivering
  <2>4. RetryIsDated(n)'
    BY <1>4, <1>5, <2>3, DatesStay DEF DatesKept, TimesKept
  <2> QED
    BY <2>2, <2>4 DEF Safe
<1>9. CASE n # m.n
  <2>1. \A s \in Tickers : TickerCarries(s, n) => TickerCarries(s, n)'
    BY <1>5, <1>9 DEF TickerCarries
  <2>2. PlacesKept(n)
    BY <1>4, <1>5, <1>6, <1>7, <2>1, PlacesStay
  <2> QED
    BY <1>4, <1>5, <2>2, StaysSafe
<1> QED
  BY <1>8, <1>9

LEMMA TickerResendKept ==
    ASSUME KeptInv, NEW t \in Tickers, TickerResend(t) \/ TickerExit(t),
           UNCHANGED <<announced, received, handler, worker, ctx>>,
           NEW n \in Notifications, n \notin interrupted'
    PROVE  Safe(n)'
<1>1. n \notin interrupted
  BY DEF TickerResend, TickerExit
<1>2. IInv /\ TypeOK /\ Kept(n) /\ RetryIsDated(n)
  BY <1>1, Uninterrupted
<1>3. UNCHANGED <<db, worker, handler, received>>
  BY DEF TickerResend, TickerExit
<1>4. UNCHANGED <<stream, lastDelivered>> \/ \E m \in Message : Added(m)
  <2>1. CASE TickerExit(t)
    BY <2>1 DEF TickerExit, queueVars
  <2>2. CASE TickerResend(t)
    <3>1. ticker[t].cur \in Message /\ EnqueueUnanswered(ticker[t].cur)
      BY <1>2, <2>2, TickerResendForms
    <3> QED
      BY <3>1, EnqueueAdds
  <2> QED
    BY <2>1, <2>2
<1>5. \A s \in Tickers : TickerCarries(s, n) => TickerCarries(s, n)'
  <2>1. CASE TickerResend(t)
    BY <2>1 DEF TickerResend, TickerCarries, TickerHolds
  <2>2. CASE TickerExit(t)
    <3>1. ticker \in [Tickers -> TickerState] /\ ticker[t] = IdleTicker
      BY <1>2, <2>2 DEF TypeOK, TickerExit, Waiting
    <3>2. TickerHolds(t) = {} /\ \A s \in Tickers : s # t => ticker'[s] = ticker[s]
      BY <2>2, <3>1 DEF TickerExit, TickerHolds, IdleTicker
    <3> QED
      BY <3>2 DEF TickerCarries, TickerHolds
  <2> QED
    BY <2>1, <2>2
<1>6. \A h \in Handlers : HandlerCarries(h, n) => HandlerCarries(h, n)'
  BY <1>3 DEF HandlerCarries
<1>7. UNCHANGED lastDelivered
  BY DEF TickerResend, TickerExit, EnqueueUnanswered, queueVars
<1>8. PlacesKept(n)
  BY <1>2, <1>3, <1>4, <1>5, <1>6, <1>7, PlacesStay
<1> QED
  BY <1>2, <1>3, <1>8, StaysSafe

LEMMA TickerKept ==
    ASSUME KeptInv, NEW t \in Tickers, TickerNext(t),
           NEW n \in Notifications, n \notin interrupted'
    PROVE  Safe(n)'
<1>1. UNCHANGED <<announced, received, handler, worker, ctx>>
  BY DEF TickerNext
<1>2. ScheduledReady \in SUBSET Notifications /\ RetryReady \in SUBSET Notifications
  BY DEF ScheduledReady, RetryReady
<1>3. CASE TickerFetchScheduled(t) \/ TickerFetchRetry(t)
  BY <1>1, <1>2, <1>3, FetchKept DEF TickerFetchScheduled, TickerFetchRetry
<1> QED
  BY <1>1, <1>3, TickerMarkKept, TickerEnqueueKept, TickerResendKept DEF TickerNext, TickerStep

--------------------------------------------------------------------------------
\* Time, and the life of the processes.
LEMMA TimeKept ==
    ASSUME KeptInv, NEW k \in Notifications, TimePasses(k),
           NEW n \in Notifications, n \notin interrupted'
    PROVE  Safe(n)'
<1>1. n \notin interrupted
  BY DEF TimePasses
<1>2. TypeOK /\ Kept(n) /\ RetryIsDated(n)
  BY <1>1, Uninterrupted
<1>3. /\ db \in [Notifications -> Row]
      /\ db[n] \in Row
      /\ UNCHANGED <<stream, lastDelivered, worker, handler, ticker>>
  BY <1>2 DEF TimePasses, queueVars, TypeOK
<1>4. \/ db'[n] = db[n]
      \/ db'[n] = [db[n] EXCEPT !.scheduledAt = "past"] /\ db[n].scheduledAt = "future"
      \/ db'[n] = [db[n] EXCEPT !.nextRetryAt = "past"] /\ db[n].nextRetryAt = "future"
  BY <1>3 DEF TimePasses, ScheduledTimeArrives, RetryTimeArrives
<1>5. /\ db'[n].status = db[n].status
      /\ db'[n].attempts = db[n].attempts
      /\ db'[n].scheduledAt # "null" <=> db[n].scheduledAt # "null"
      /\ db'[n].nextRetryAt # "null" <=> db[n].nextRetryAt # "null"
  BY <1>3, <1>4 DEF Row
<1>6. db'[n].providerMessageID = db[n].providerMessageID
  BY <1>3, <1>4 DEF Row
<1>7. PlacesKept(n)
  <2>1. /\ \A h \in Handlers : HandlerCarries(h, n) => HandlerCarries(h, n)'
        /\ \A t \in Tickers : TickerCarries(t, n) => TickerCarries(t, n)'
    BY <1>3 DEF HandlerCarries, TickerCarries, TickerHolds
  <2> QED
    BY <1>2, <1>3, <2>1, PlacesStay
<1>8. RowCarries(n)' <=> RowCarries(n)
  BY <1>5 DEF RowCarries
<1>9. Concluded(n) => Concluded(n)'
  BY <1>5, <1>6 DEF Concluded
<1>10. Kept(n)'
  BY <1>2, <1>5, <1>7, <1>8, <1>9 DEF Kept, Exists, NobodyCarries, RowAtMost, PlacesKept
<1>11. RetryIsDated(n)'
  BY <1>2, <1>5, <1>7 DEF RetryIsDated, PlacesKept
<1> QED
  BY <1>10, <1>11 DEF Safe

LEMMA ProcessKept ==
    ASSUME KeptInv,
           (\E p \in Processes : Shutdown(p) \/ StartProcess(p)) \/ UNCHANGED vars,
           NEW n \in Notifications, n \notin interrupted'
    PROVE  Safe(n)'
<1>1. /\ UNCHANGED <<db, stream, lastDelivered>>
      /\ n \notin interrupted
  BY DEF Shutdown, StartProcess, queueVars, vars
<1>2. TypeOK /\ Kept(n) /\ RetryIsDated(n)
  BY <1>1, Uninterrupted
<1>3. CASE UNCHANGED <<handler, ticker, worker>>
  <2>1. PlacesKept(n)
    BY <1>1, <1>3 DEF PlacesKept, RowAtMost, HandlerCarries, TickerCarries, TickerHolds, Unread,
                      EntryCarries, WorkerCarries, WorkerAt, Held
  <2> QED
    BY <1>1, <1>2, <2>1, StaysSafe
<1>4. ASSUME NEW p \in Processes, StartProcess(p)
      PROVE  Safe(n)'
  <2>1. ~HeldBy(p, n)
    BY <1>4 DEF StartProcess
  <2>2. \A h \in Handlers : HandlerCarries(h, n) => HandlerCarries(h, n)'
    BY <1>4, <2>1 DEF StartProcess, HeldBy, HandlerCarries
  <2>3. \A t \in Tickers : TickerCarries(t, n) => TickerCarries(t, n)'
    BY <1>4, <2>1 DEF StartProcess, HeldBy, TickerCarries, TickerHolds
  <2>4. \A w \in Workers : WorkerCarries(w, n) => worker'[w] = worker[w]
    BY <1>4, <2>1 DEF StartProcess, HeldBy
  <2>5. \A w \in Workers : WorkerCarries(w, n) => WorkerCarries(w, n)'
    BY <1>1, <2>4 DEF WorkerCarries, Held
  <2>6. \A w \in Workers : worker'[w] = worker[w] \/ worker'[w].pc = "idle"
    BY <1>4 DEF StartProcess, IdleWorker
  <2>7. WorkerAt(n, "markFailed")' => WorkerAt(n, "markFailed")
    BY <1>1, <2>6 DEF WorkerAt, Held
  <2>8. RowAtMost(n)' => RowAtMost(n)
    BY <1>1, <2>2, <2>3, <2>5 DEF RowAtMost, Unread, EntryCarries
  <2> QED
    BY <1>1, <1>2, <2>7, <2>8, StaysSafe DEF PlacesKept
<1> QED
  BY <1>3, <1>4 DEF Shutdown, vars

--------------------------------------------------------------------------------
\* Workers: each disturbs only what it delivers.
LEMMA OthersKept ==
    ASSUME KeptInv, NEW w \in Workers, UNCHANGED <<stream, lastDelivered, handler, ticker>>,
           NEW next, \/ worker' = [worker EXCEPT ![w].pc = next]
                     \/ worker' = [worker EXCEPT ![w] = IdleWorker],
           next \in Delivering => worker[w].pc \in Delivering,
           NEW n \in Notifications, n \notin interrupted,
           worker[w].pc \in Delivering => Held(w).n # n,
           db'[n] = db[n]
    PROVE  Safe(n)'
<1>1. /\ TypeOK
      /\ worker \in [Workers -> WorkerState]
      /\ worker[w] \in WorkerState
      /\ Kept(n) /\ RetryIsDated(n)
  BY Uninterrupted DEF TypeOK
<1>2. \A v \in Workers : v # w => worker'[v] = worker[v] /\ Held(v)' = Held(v)
  BY <1>1 DEF Held
<1>3. \A v \in Workers : WorkerCarries(v, n) => WorkerCarries(v, n)'
  BY <1>2 DEF WorkerCarries
<1>4. /\ \A h \in Handlers : HandlerCarries(h, n) => HandlerCarries(h, n)'
      /\ \A t \in Tickers : TickerCarries(t, n) => TickerCarries(t, n)'
      /\ Unread(QueueOf[n])' = Unread(QueueOf[n])
      /\ \A i : EntryCarries(i, n)' <=> EntryCarries(i, n)
  BY DEF HandlerCarries, TickerCarries, TickerHolds, Unread, EntryCarries
<1>5. RowAtMost(n)' => RowAtMost(n)
  BY <1>3, <1>4 DEF RowAtMost
<1>6. worker'[w].pc = "markFailed" =>
         worker'[w].pos = worker[w].pos /\ worker[w].pc \in Delivering
  BY <1>1 DEF WorkerState, IdleWorker, Delivering
<1>7. worker'[w].pc = "markFailed" => Held(w)'.n # n
  BY <1>6 DEF Held
<1>8. WorkerAt(n, "markFailed")' => WorkerAt(n, "markFailed")
  BY <1>2, <1>7 DEF WorkerAt
<1> QED
  BY <1>1, <1>5, <1>8, StaysSafe DEF PlacesKept

\* A worker that goes on with its notification.
LEMMA GoesOn ==
    ASSUME TypeOK, NEW w \in Workers, UNCHANGED stream, NEW next \in Delivering,
           worker' = [worker EXCEPT ![w].pc = next],
           NEW k, k = Held(w).n
    PROVE  /\ Kept(k)'
           /\ worker'[w].pc = next
<1>1. worker \in [Workers -> WorkerState] /\ worker[w] \in WorkerState
  BY DEF TypeOK
<1>2. worker'[w].pc = next /\ worker'[w].pos = worker[w].pos
  BY <1>1 DEF WorkerState
<1>3. WorkerCarries(w, k)'
  BY <1>2 DEF WorkerCarries, Held
<1> QED
  BY <1>2, <1>3, TakenOn

\* Only its worker is at a call for a notification that is delivered.
LEMMA OnlyItsWorker ==
    ASSUME IInv, NEW w \in Workers, worker[w].pc \in Delivering, UNCHANGED stream,
           NEW next, \/ worker' = [worker EXCEPT ![w].pc = next]
                     \/ worker' = [worker EXCEPT ![w] = IdleWorker],
           next # "markFailed", NEW k, k = Held(w).n, resent[k] = 0
    PROVE  ~WorkerAt(k, "markFailed")'
<1>1. worker \in [Workers -> WorkerState] /\ worker[w] \in WorkerState
  BY DEF IInv, TypeOK
<1>2. \A v \in Workers : WorkerCarries(v, k) => v = w
  BY WorkerAlone
<1> SUFFICES ASSUME WorkerAt(k, "markFailed")' PROVE FALSE
  OBVIOUS
<1>3. PICK v \in Workers : worker'[v].pc = "markFailed" /\ Held(v)'.n = k
  BY DEF WorkerAt
<1>4. CASE v # w
  <2>1. worker'[v] = worker[v]
    BY <1>1, <1>4
  <2>2. WorkerCarries(v, k)
    BY <1>3, <2>1 DEF WorkerCarries, Delivering, Held
  <2> QED
    BY <1>2, <1>4, <2>2
<1>5. CASE v = w
  BY <1>1, <1>3, <1>5 DEF WorkerState, IdleWorker
<1> QED
  BY <1>4, <1>5

\* A status that the worker writes, when it hears that it did.
LEMMA WrittenKept ==
    ASSUME KeptInv, NEW w \in Workers, UNCHANGED <<stream, lastDelivered, handler, ticker>>,
           NEW status, NEW p \in BOOLEAN, NEW next,
           \/ worker[w].pc = "markProcessing" /\ status = "processing" /\ next = "takeToken"
           \/ worker[w].pc = "markDelivered" /\ status = "delivered" /\ next = "ackDelivered"
           \/ worker[w].pc = "markFailed" /\ status = "failed" /\ next = "ackFailed",
           status = "delivered" => p,
           UpdateStatus(Held(w).n, status, p),
           worker' = [worker EXCEPT ![w].pc = next],
           NEW k, k = Held(w).n, k \notin interrupted, k \in Notifications
    PROVE  Safe(k)'
<1>1. /\ IInv /\ TypeOK
      /\ resent[k] = 0 /\ Consistent(k) /\ RetryIsDated(k)
      /\ db \in [Notifications -> Row]
      /\ worker[w].pc \in Delivering
  BY Uninterrupted DEF TypeOK, Delivering
<1>2. WorkerConsistent(w) /\ Held(w) \in Message
  BY <1>1, WorkerAlone
<1>3. db[k].attempts <= MaxAttempts
  BY <1>1 DEF Consistent
<1>4. status \in Statuses \ {"pending"}
  BY DEF Statuses
<1>5. /\ db'[k].status = status
      /\ db'[k].attempts = db[k].attempts
      /\ db'[k].nextRetryAt = db[k].nextRetryAt
      /\ db'[k].providerMessageID <=> db[k].providerMessageID \/ p
  BY <1>1, <1>4, UpdatedRow
<1>6. ~WorkerAt(k, "markFailed")'
  BY <1>1, OnlyItsWorker
<1>7. TimesKept(k)
  BY <1>1, <1>4, UpdateKeepsTimes
<1>8. status = "failed" => Counted(Held(w)) /\ WorkerAt(k, "markFailed")
  BY <1>2 DEF WorkerConsistent, WorkerAt
<1>9. status = "failed" => db[k].attempts > 0
  <2>1. Held(w).attempts \in Nat
    BY <1>2 DEF Message
  <2>2. status = "failed" => db[k].attempts = Held(w).attempts + 1
    BY <1>8 DEF Counted
  <2> QED
    BY <2>1, <2>2
<1>10. RetryIsDated(k)'
  BY <1>1, <1>5, <1>6, <1>7, <1>9 DEF RetryIsDated, TimesKept
<1>11. CASE status = "processing"
  <2>1. next \in Delivering
    BY <1>11 DEF Delivering
  <2>2. Kept(k)'
    BY <1>1, <2>1, GoesOn
  <2> QED
    BY <1>10, <2>2 DEF Safe
<1>12. CASE status = "delivered"
  BY <1>5, <1>10, <1>12 DEF Safe, Kept, Concluded
<1>13. CASE status = "failed"
  <2>1. db[k].attempts \in Nat /\ MaxAttempts \in Nat
    BY <1>1, NotificationAssumption DEF Row
  <2>2. db[k].attempts = MaxAttempts \/ db[k].nextRetryAt # "null"
    BY <1>1, <1>8, <1>13 DEF RetryIsDated
  <2>3. CASE db[k].attempts = MaxAttempts
    BY <1>5, <1>10, <2>1, <2>3 DEF Safe, Kept, Concluded
  <2>4. CASE db[k].attempts # MaxAttempts
    <3>1. db'[k].attempts < MaxAttempts
      BY <1>3, <1>5, <2>1, <2>4
    <3>2. RowCarries(k)'
      BY <1>5, <1>13, <2>2, <2>4, <3>1 DEF RowCarries
    <3> QED
      BY <1>10, <3>2, TakenOn DEF Safe
  <2> QED
    BY <2>3, <2>4
<1> QED
  BY <1>11, <1>12, <1>13

LEMMA WorkerMarkKept ==
    ASSUME KeptInv, NEW w \in Workers,
           WorkerMarkProcessing(w) \/ WorkerMarkDelivered(w) \/ WorkerMarkFailed(w),
           UNCHANGED <<handler, ticker, ctx>>,
           NEW n \in Notifications, n \notin interrupted'
    PROVE  Safe(n)'
<1>1. /\ UNCHANGED <<stream, lastDelivered, handler, ticker>>
      /\ worker[w].pc \in Delivering
      /\ TypeOK
  BY DEF WorkerMarkProcessing, WorkerMarkDelivered, WorkerMarkFailed, queueVars, Delivering,
         KeptInv, IInv
<1>2. PICK k \in Notifications : k = Held(w).n
  BY <1>1, HeldType DEF Delivering
<1>3. ASSUME NEW status, NEW p \in BOOLEAN, NEW next, RowUpdate(w, status, p, next),
             \/ worker[w].pc = "markProcessing" /\ status = "processing" /\ next = "takeToken"
             \/ worker[w].pc = "markDelivered" /\ status = "delivered" /\ next = "ackDelivered"
             \/ worker[w].pc = "markFailed" /\ status = "failed" /\ next = "ackFailed",
             status = "delivered" => p
      PROVE  Safe(n)'
  <2>1. PICK o \in Outcomes(ProcessOf[w]) :
           /\ IF Applied(o) THEN UpdateStatus(k, status, p) ELSE UNCHANGED db
           /\ Note(o, {k})
           /\ IF Returned(o) THEN worker' = [worker EXCEPT ![w].pc = next]
                             ELSE worker' = [worker EXCEPT ![w] = IdleWorker]
    BY <1>2, <1>3 DEF RowUpdate, Goto, Return
  <2>2. n \notin interrupted /\ (n = k => Returned(o) /\ Applied(o))
    BY <2>1, Heeded
  <2>3. CASE n = k
    <3>1. UpdateStatus(Held(w).n, status, p) /\ worker' = [worker EXCEPT ![w].pc = next]
      BY <1>2, <2>1, <2>2, <2>3
    <3> QED
      BY <1>1, <1>2, <1>3, <2>2, <2>3, <3>1, WrittenKept
  <2>4. CASE n # k
    <3>1. db'[n] = db[n]
      BY <1>1, <2>1, <2>4 DEF UpdateStatus, TypeOK
    <3> QED
      BY <1>1, <1>2, <2>1, <2>2, <2>4, <3>1, OthersKept
  <2> QED
    BY <2>3, <2>4
<1>4. CASE WorkerMarkProcessing(w)
  <2>1. worker[w].pc = "markProcessing" /\ RowUpdate(w, "processing", FALSE, "takeToken")
    BY <1>4 DEF WorkerMarkProcessing
  <2>2. "processing" # "delivered"
    OBVIOUS
  <2> QED
    BY <1>3, <2>1, <2>2, Zenon
<1>5. CASE WorkerMarkDelivered(w)
  BY <1>3, <1>5 DEF WorkerMarkDelivered
<1>6. CASE WorkerMarkFailed(w)
  <2>1. worker[w].pc = "markFailed" /\ RowUpdate(w, "failed", FALSE, "ackFailed")
    BY <1>6 DEF WorkerMarkFailed
  <2>2. "failed" # "delivered"
    OBVIOUS
  <2> QED
    BY <1>3, <2>1, <2>2, Zenon
<1> QED
  BY <1>4, <1>5, <1>6

LEMMA WorkerCallsKept ==
    ASSUME KeptInv, NEW w \in Workers, WorkerTakeToken(w) \/ WorkerSend(w),
           UNCHANGED <<handler, ticker, ctx>>,
           NEW n \in Notifications, n \notin interrupted'
    PROVE  Safe(n)'
<1>1. /\ UNCHANGED <<stream, lastDelivered, handler, ticker, db>>
      /\ worker[w].pc \in Delivering
      /\ TypeOK
  BY DEF WorkerTakeToken, WorkerSend, queueVars, Delivering, KeptInv, IInv
<1>2. PICK k \in Notifications : k = Held(w).n
  BY <1>1, HeldType DEF Delivering
<1>3. PICK next \in Delivering \ {"markFailed"} :
         /\ n \notin interrupted
         /\ \/ worker' = [worker EXCEPT ![w].pc = next]
            \/ n # k /\ worker' = [worker EXCEPT ![w] = IdleWorker]
  <2>1. CASE WorkerTakeToken(w)
    <3>1. PICK o \in Outcomes(ProcessOf[w]) :
             /\ Note(o, {k})
             /\ IF Returned(o) THEN worker' = [worker EXCEPT ![w].pc = "send"]
                               ELSE worker' = [worker EXCEPT ![w] = IdleWorker]
      BY <1>2, <2>1 DEF WorkerTakeToken, Goto, Return
    <3>2. n \notin interrupted /\ (n = k => Returned(o))
      BY <3>1, Heeded
    <3> QED
      BY <3>1, <3>2 DEF Delivering
  <2>2. CASE WorkerSend(w)
    BY <2>2 DEF WorkerSend, Goto, Delivering
  <2> QED
    BY <2>1, <2>2
<1>4. CASE n # k
  BY <1>1, <1>2, <1>3, <1>4, OthersKept
<1>5. CASE n = k
  <2>1. /\ IInv /\ resent[k] = 0 /\ RetryIsDated(k)
        /\ worker' = [worker EXCEPT ![w].pc = next] /\ next # "markFailed"
    BY <1>3, <1>5, Uninterrupted
  <2>2. Kept(k)'
    BY <1>1, <1>2, <2>1, GoesOn
  <2>3. ~WorkerAt(k, "markFailed")'
    BY <1>1, <1>2, <2>1, OnlyItsWorker
  <2>4. RetryIsDated(k)'
    BY <1>1, <2>1, <2>3, DatesStay DEF DatesKept, TimesKept
  <2> QED
    BY <1>5, <2>2, <2>4 DEF Safe
<1> QED
  BY <1>4, <1>5

\* The retry time is set as long as the scheduler would accept one.
LEMMA IncrementKept ==
    ASSUME KeptInv, NEW w \in Workers, WorkerIncrement(w),
           UNCHANGED <<handler, ticker, ctx>>,
           NEW n \in Notifications, n \notin interrupted'
    PROVE  Safe(n)'
<1>1. /\ UNCHANGED <<stream, lastDelivered, handler, ticker>>
      /\ worker[w].pc = "increment"
      /\ worker[w].pc \in Delivering
      /\ TypeOK
      /\ db \in [Notifications -> Row]
      /\ "markFailed" \in Delivering
  BY DEF WorkerIncrement, queueVars, Delivering, KeptInv, IInv, TypeOK
<1>2. PICK k \in Notifications : k = Held(w).n
  BY <1>1, HeldType DEF Delivering
<1>3. PICK at \in Instants : at = IF Retriable(Held(w)) THEN "future" ELSE "null"
  BY DEF Instants
<1>4. PICK o \in Outcomes(ProcessOf[w]) :
         /\ IF Applied(o) THEN IncrementAttempts(k, at) ELSE UNCHANGED db
         /\ Note(o, {k})
         /\ IF Returned(o) THEN worker' = [worker EXCEPT ![w].pc = "markFailed"]
                           ELSE worker' = [worker EXCEPT ![w] = IdleWorker]
  BY <1>2, <1>3 DEF WorkerIncrement, Goto, Return
<1>5. n \notin interrupted /\ (n = k => Returned(o) /\ Applied(o))
  BY <1>4, Heeded
<1>6. CASE n # k
  <2>1. db'[n] = db[n]
    BY <1>1, <1>4, <1>6 DEF IncrementAttempts
  <2> QED
    BY <1>1, <1>2, <1>4, <1>5, <1>6, <2>1, OthersKept
<1>7. CASE n = k
  <2>1. IncrementAttempts(k, at) /\ worker' = [worker EXCEPT ![w].pc = "markFailed"]
    BY <1>4, <1>5, <1>7
  <2>2. IInv /\ resent[k] = 0 /\ RetryIsDated(k)
    BY <1>5, <1>7, Uninterrupted
  <2>3. WorkerConsistent(w) /\ Held(w) \in Message
    BY <1>1, <1>2, <2>2, WorkerAlone
  <2>4. /\ db'[k].status = db[k].status
        /\ db'[k].attempts = db[k].attempts + 1
        /\ db'[k].nextRetryAt = at
    BY <1>1, <2>1, IncrementedRow
  <2>5. Kept(k)'
    BY <1>1, <1>2, <2>1, GoesOn
  <2>6. /\ db[k].attempts = Held(w).attempts
        /\ Held(w).attempts < MaxAttempts
        /\ db[k].status # "failed"
    BY <1>1, <1>2, <2>3 DEF WorkerConsistent, Attempted
  <2>7. Held(w).attempts \in Nat /\ MaxAttempts \in Nat
    BY <2>3, NotificationAssumption DEF Message
  <2>8. db'[k].attempts = MaxAttempts \/ db'[k].nextRetryAt # "null"
    BY <1>3, <2>4, <2>6, <2>7 DEF Retriable
  <2>9. db'[k].scheduledAt = db[k].scheduledAt
    BY <1>1, <2>1 DEF IncrementAttempts, Row
  <2>10. db'[k].status # "failed" /\ (db'[k].scheduledAt # "null" => k \in Scheduled)
    BY <2>2, <2>4, <2>6, <2>9 DEF RetryIsDated
  <2>11. RetryIsDated(k)'
    BY <2>8, <2>10, Zenon DEF RetryIsDated
  <2> QED
    BY <1>7, <2>5, <2>11 DEF Safe
<1> QED
  BY <1>6, <1>7

LEMMA DequeueKept ==
    ASSUME KeptInv, NEW w \in Workers, WorkerDequeue(w), UNCHANGED <<handler, ticker, ctx>>,
           NEW n \in Notifications, n \notin interrupted'
    PROVE  Safe(n)'
<1>1. PICK q : q = Serves[w]
  OBVIOUS
<1>2. PICK i : i = lastDelivered[q] + 1
  OBVIOUS
<1>3. PICK m : m = stream[q][i]
  OBVIOUS
<1>4. PICK o \in RequestOutcomes :
         /\ IF Applied(o) THEN Dequeue(q) /\ Note(o, {m.n})
                          ELSE UNCHANGED <<queueVars, interrupted>>
         /\ IF Returned(o)
            THEN worker' = [worker EXCEPT ![w] = [pc |-> "markProcessing", pos |-> i]]
            ELSE UNCHANGED worker
  BY <1>1, <1>2, <1>3 DEF WorkerDequeue
<1>5. n \notin interrupted /\ (Applied(o) /\ n = m.n => Returned(o))
  BY <1>4, Heeded
<1>6. IInv /\ TypeOK /\ Kept(n) /\ RetryIsDated(n)
  BY <1>5, Uninterrupted
<1>7. /\ q \in Queues /\ QueueOf[n] \in Queues
      /\ worker \in [Workers -> WorkerState]
      /\ worker[w].pc = "idle"
      /\ lastDelivered \in [Queues -> Nat]
      /\ UNCHANGED <<handler, ticker, db, stream>>
      /\ \/ UNCHANGED lastDelivered
         \/ Applied(o) /\ lastDelivered' = [lastDelivered EXCEPT ![q] = i]
  BY <1>1, <1>2, <1>4, <1>6, QueueAssumption, WorkerAssumption
     DEF TypeOK, WorkerDequeue, Dequeue, queueVars
<1>8. \A v \in Workers : v # w => worker'[v] = worker[v] /\ Held(v)' = Held(v)
  BY <1>4, <1>7 DEF Held
<1>9. worker'[w] = worker[w] \/ worker'[w] = [pc |-> "markProcessing", pos |-> i]
  BY <1>4, <1>7
<1>10. WorkerAt(n, "markFailed")' => WorkerAt(n, "markFailed")
  BY <1>7, <1>8, <1>9 DEF WorkerAt
<1>11. ASSUME RowAtMost(n)' PROVE RowAtMost(n)
  <2>1. /\ \A h \in Handlers : HandlerCarries(h, n) => HandlerCarries(h, n)'
        /\ \A t \in Tickers : TickerCarries(t, n) => TickerCarries(t, n)'
    BY <1>7 DEF HandlerCarries, TickerCarries, TickerHolds
  <2>2. \A v \in Workers : WorkerCarries(v, n) => WorkerCarries(v, n)'
    BY <1>7, <1>8 DEF WorkerCarries, Delivering
  <2>3. ASSUME NEW j \in Unread(QueueOf[n]), EntryCarries(j, n) PROVE FALSE
    <3>1. CASE QueueOf[n] = q /\ j = i /\ Applied(o)
      <4>1. n = m.n
        BY <1>3, <2>3, <3>1 DEF EntryCarries
      <4>2. worker'[w] = [pc |-> "markProcessing", pos |-> i]
        BY <1>4, <1>5, <1>7, <3>1, <4>1
      <4>3. WorkerCarries(w, n)'
        BY <1>1, <1>3, <1>7, <4>1, <4>2 DEF WorkerCarries, Delivering, Held
      <4> QED
        BY <1>11, <4>3 DEF RowAtMost
    <3>2. CASE ~(QueueOf[n] = q /\ j = i /\ Applied(o))
      <4>1. lastDelivered[QueueOf[n]] \in Nat
        BY <1>7
      <4>2. \/ lastDelivered'[QueueOf[n]] = lastDelivered[QueueOf[n]]
            \/ QueueOf[n] = q /\ Applied(o) /\ lastDelivered'[QueueOf[n]] = i
        BY <1>7
      <4>3. Len(stream[QueueOf[n]]) \in Nat
        BY <1>6, <1>7 DEF TypeOK
      <4>4. j \in Unread(QueueOf[n])'
        BY <1>2, <1>7, <2>3, <3>2, <4>1, <4>2, <4>3 DEF Unread
      <4>5. EntryCarries(j, n)'
        BY <1>7, <2>3 DEF EntryCarries
      <4> QED
        BY <1>11, <4>4, <4>5 DEF RowAtMost
    <3> QED
      BY <3>1, <3>2
  <2> QED
    BY <1>11, <2>1, <2>2, <2>3 DEF RowAtMost
<1> QED
  BY <1>6, <1>7, <1>10, <1>11, StaysSafe DEF PlacesKept

LEMMA WorkerKept ==
    ASSUME KeptInv, NEW w \in Workers, WorkerNext(w),
           NEW n \in Notifications, n \notin interrupted'
    PROVE  Safe(n)'
<1>1. UNCHANGED <<handler, ticker, ctx>>
  BY DEF WorkerNext
<1>2. CASE WorkerAck(w) \/ WorkerExit(w)
  <2>1. PICK next \in {"idle", "exited"} :
           \/ worker' = [worker EXCEPT ![w].pc = next]
           \/ worker' = [worker EXCEPT ![w] = IdleWorker]
    BY <1>2 DEF WorkerAck, WorkerExit, Return, Goto
  <2>2. /\ UNCHANGED <<stream, lastDelivered, handler, ticker, db>>
        /\ worker[w].pc \notin Delivering
        /\ n \notin interrupted
    BY <1>1, <1>2 DEF WorkerAck, WorkerExit, Ack, queueVars, Delivering
  <2>3. next \notin Delivering
    BY DEF Delivering
  <2> QED
    BY <2>1, <2>2, <2>3, OthersKept
<1> QED
  BY <1>1, <1>2, WorkerMarkKept, WorkerCallsKept, IncrementKept, DequeueKept
     DEF WorkerNext, WorkerStep

--------------------------------------------------------------------------------
\* A cancellation leaves its request with nothing to enqueue.
LEMMA CancellationsEmpty ==
    ASSUME KeptInv, [Next]_vars, NEW g \in Handlers, handler'[g].pc = "broadcastCancelled"
    PROVE  handler'[g].todo = {}
<1>1. /\ handler \in [Handlers -> HandlerState]
      /\ handler[g] \in HandlerState
      /\ handler[g].pc = "broadcastCancelled" => handler[g].todo = {}
  BY DEF KeptInv, IInv, TypeOK
<1>2. CASE handler'[g] = handler[g]
  BY <1>1, <1>2
<1>3. CASE handler'[g] # handler[g]
  <2>1. CASE \E p \in Processes : Restart(p) \/ Crash(p)
    BY <1>3, <2>1 DEF Restart, Crash, StartProcess, IdleHandler
  <2>2. CASE \E h \in Handlers : HandlerNext(h)
    <3>1. PICK h \in Handlers : HandlerNext(h)
      BY <2>2
    <3>2. h = g
      BY <1>1, <1>3, <3>1 DEF HandlerNext, HandlerStep, HandlerProceed, HandlerPersist,
         HandlerBroadcastPending, HandlerEnqueue, HandlerMarkQueued, HandlerBroadcastQueued,
         HandlerCancel, HandlerBroadcastCancelled, HandlerResend, HandlerDisconnect
    <3>3. \A rest : Continue(rest).pc # "broadcastCancelled"
      BY DEF Continue, IdleHandler
    <3>4. CASE HandlerCancel(g)
      <4>1. PICK k \in Notifications :
               \/ handler' = [handler EXCEPT ![g] = [pc   |-> "broadcastCancelled",
                                                     todo |-> {},
                                                     cur  |-> k]]
               \/ UNCHANGED handler
        BY <3>4 DEF HandlerCancel
      <4> QED
        BY <1>1, <1>3, <4>1
    <3>5. CASE HandlerPersist(g)
      BY <1>1, <1>3, <3>5 DEF HandlerPersist
    <3>6. CASE HandlerBroadcastPending(g) \/ HandlerBroadcastQueued(g)
      BY <1>1, <3>3, <3>6 DEF HandlerBroadcastPending, HandlerBroadcastQueued
    <3>7. CASE HandlerBroadcastCancelled(g) \/ HandlerDisconnect(g)
      BY <1>1, <3>7 DEF HandlerBroadcastCancelled, HandlerDisconnect, IdleHandler
    <3>8. CASE HandlerEnqueue(g)
      BY <1>1, <3>3, <3>8 DEF HandlerEnqueue
    <3>9. CASE HandlerMarkQueued(g)
      <4>1. \/ handler'[g] = [handler[g] EXCEPT !.pc = "broadcastQueued"]
            \/ handler'[g] = Continue(handler[g].todo)
        BY <1>1, <3>9 DEF HandlerMarkQueued
      <4> QED
        BY <1>1, <3>3, <4>1 DEF HandlerState
    <3>10. CASE HandlerResend(g)
      <4>1. PICK k : handler' = [handler EXCEPT ![g].cur = k]
        BY <3>10 DEF HandlerResend
      <4>2. handler[g].pc = "enqueue" /\ handler'[g] = [handler[g] EXCEPT !.cur = k]
        BY <1>1, <3>10, <4>1 DEF HandlerResend
      <4> QED
        BY <1>1, <4>2 DEF HandlerState
    <3> QED
      BY <3>1, <3>2, <3>4, <3>5, <3>6, <3>7, <3>8, <3>9, <3>10
         DEF HandlerNext, HandlerStep, HandlerProceed
  <2> QED
    BY <1>3, <2>1, <2>2 DEF Next, vars, TickerNext, WorkerNext, TimePasses, Shutdown
<1> QED
  BY <1>2, <1>3

\* A resend interrupts.
LEMMA ResendsInterrupt ==
    ASSUME KeptInv, [Next]_vars, NEW n \in Notifications, resent'[n] > 0
    PROVE  n \in interrupted'
<1>1. interrupted \subseteq interrupted'
  BY DEF Next, vars, HandlerNext, HandlerStep, HandlerProceed, HandlerPersist, HandlerCancel,
         HandlerBroadcastPending, HandlerEnqueue, HandlerMarkQueued, HandlerBroadcastQueued,
         HandlerBroadcastCancelled, HandlerResend, HandlerDisconnect, TickerNext, TickerStep,
         TickerFetchScheduled, TickerFetchRetry, Fetch, TickerMarkQueued, TickerEnqueue,
         TickerResend, TickerExit, WorkerNext, WorkerStep, WorkerDequeue,
         WorkerMarkProcessing, WorkerTakeToken, WorkerSend, WorkerMarkDelivered,
         WorkerIncrement, WorkerMarkFailed, WorkerAck, WorkerExit, RowUpdate, Note,
         TimePasses, Shutdown, Restart, Crash, StartProcess
<1>2. CASE resent'[n] = resent[n]
  BY <1>1, <1>2 DEF KeptInv
<1>3. CASE resent'[n] # resent[n]
  <2>1. \/ \E h \in Handlers : HandlerResend(h)
        \/ \E t \in Tickers : TickerResend(t)
    BY <1>3 DEF Next, vars, HandlerNext, HandlerStep, HandlerProceed, HandlerPersist,
         HandlerCancel, HandlerBroadcastPending, HandlerEnqueue, HandlerMarkQueued,
         HandlerBroadcastQueued, HandlerBroadcastCancelled, HandlerDisconnect, TickerNext,
         TickerStep, TickerFetchScheduled, TickerFetchRetry, Fetch, TickerMarkQueued,
         TickerEnqueue, TickerExit, WorkerNext, WorkerStep, WorkerDequeue,
         WorkerMarkProcessing, WorkerTakeToken, WorkerSend, WorkerMarkDelivered,
         WorkerIncrement, WorkerMarkFailed, WorkerAck, WorkerExit, TimePasses, Shutdown,
         Restart, Crash, StartProcess, queueVars, Enqueue, Dequeue, Ack
  <2>2. \A m : EnqueueUnanswered(m) => n = m.n
    BY <1>3 DEF EnqueueUnanswered, KeptInv, IInv, TypeOK
  <2>3. CASE \E h \in Handlers : HandlerResend(h)
    <3>1. PICK k : /\ EnqueueUnanswered([n |-> k, attempts |-> 0])
                   /\ interrupted' = interrupted \cup {k}
      BY <2>3 DEF HandlerResend
    <3>2. PICK m : m = [n |-> k, attempts |-> 0]
      OBVIOUS
    <3> QED
      BY <2>2, <3>1, <3>2
  <2>4. CASE \E t \in Tickers : TickerResend(t)
    BY <2>2, <2>4 DEF TickerResend
  <2> QED
    BY <2>1, <2>3, <2>4
<1> QED
  BY <1>2, <1>3

LEMMA KeptInit == Init => KeptInv
<1> SUFFICES ASSUME Init PROVE KeptInv
  OBVIOUS
<1>1. IInv
  BY IInvInit
<1>2. \A n \in Notifications : ~Exists(n)
  BY DEF Init, Exists, NoRow
<1>3. NothingIsLost
  BY <1>2 DEF NothingIsLost
<1>4. \A n \in Notifications : RetryIsDated(n)
  BY DEF Init, NoRow, RetryIsDated, WorkerAt, IdleWorker
<1> QED
  BY <1>1, <1>3, <1>4 DEF Init, KeptInv, IdleHandler

LEMMA KeptStep ==
    ASSUME KeptInv, RecordInv, [Next]_vars
    PROVE  KeptInv'
<1>1. IInv'
  BY IInvStep DEF KeptInv
<1>2. ASSUME NEW n \in Notifications, n \notin interrupted'
      PROVE  Safe(n)'
  <2>1. CASE (\E p \in Processes : Shutdown(p) \/ Restart(p) \/ Crash(p)) \/ UNCHANGED vars
    BY <1>2, <2>1, ProcessKept DEF Restart, Crash
  <2> QED
    BY <1>2, <2>1, HandlerKept, TickerKept, WorkerKept, TimeKept DEF Next
<1>3. NothingIsLost' /\ \A n \in Notifications : n \notin interrupted' => RetryIsDated(n)'
  BY <1>2, KeptMeansNotLost DEF Safe
<1> QED
  BY <1>1, <1>3, CancellationsEmpty, ResendsInterrupt DEF KeptInv

\* Every accepted notification is with somebody who goes on with it, concluded, or one
\* for which a call failed, a client went away or a process stopped: whatever the
\* provider answers and however requests, tickers and workers interleave.
THEOREM NothingIsLostCorrect == Spec => []NothingIsLost
<1>1. Init => KeptInv
  BY KeptInit
<1>2. KeptInv /\ RecordInv /\ [Next]_vars => KeptInv'
  BY KeptStep
<1>3. KeptInv => NothingIsLost
  BY DEF KeptInv
<1> QED
  BY <1>1, <1>2, <1>3, RecordInvCorrect, PTL DEF Spec
================================================================================
