-------------------------------- MODULE HubProofs -------------------------------
(***************************************************************************)
(* The WebSocket hub for any number of connections, any size of the        *)
(* buffers and any number of status updates.                               *)
(***************************************************************************)
EXTENDS WebSocketHub, SequenceTheorems, TLAPS

\* A connection whose client has not reached the hub has left no trace there.
Unknown ==
    \A c \in Connections :
        reader[c] \in {"none", "registering"} =>
            /\ writer[c] = "none"
            /\ c \notin clients
            /\ closes[c] = 0
            /\ send[c] = <<>>
            /\ written[c] = <<>>

UpdatesBounded == waiting + taken <= MaxUpdates

--------------------------------------------------------------------------------
(***************************************************************************)
(* Sequences.                                                              *)
(***************************************************************************)
LEMMA RestOfSequence ==
    ASSUME NEW s \in Seq(Nat), NEW k \in 0 .. Len(s)
    PROVE  /\ SubSeq(s, k + 1, Len(s)) \in Seq(Nat)
           /\ Len(SubSeq(s, k + 1, Len(s))) = Len(s) - k
<1>1. \A i \in k + 1 .. Len(s) : s[i] \in Nat
  BY ElementOfSeq
<1> QED
  BY <1>1, SubSeqProperties

LEMMA ConcatAppend ==
    ASSUME NEW s \in Seq(Nat), NEW t \in Seq(Nat), NEW e \in Nat
    PROVE  s \o Append(t, e) = Append(s \o t, e)
  OBVIOUS

--------------------------------------------------------------------------------
LEMMA HubTypeStep == TypeOK /\ UpdatesBounded /\ [Next]_vars => TypeOK' /\ UpdatesBounded'
<1> SUFFICES ASSUME TypeOK, UpdatesBounded, [Next]_vars PROVE TypeOK' /\ UpdatesBounded'
  OBVIOUS
<1> USE HubAssumption DEF TypeOK, UpdatesBounded
<1>1. CASE HubSubscribe
  BY <1>1 DEF HubSubscribe, feed, connection
<1>2. CASE Forward
  BY <1>2 DEF Forward, connection
<1>3. CASE ForwarderExit
  BY <1>3 DEF ForwarderExit, connection
<1>4. CASE HubBroadcast
  BY <1>4 DEF HubBroadcast, Broadcast, Disconnect, Full, connection
<1>5. CASE HubExit
  BY <1>5 DEF HubExit, feed, connection
<1>6. ASSUME NEW c \in Connections, HubRegister(c) PROVE TypeOK' /\ UpdatesBounded'
  BY <1>6 DEF HubRegister, feed
<1>7. ASSUME NEW c \in Connections, HubUnregister(c) PROVE TypeOK' /\ UpdatesBounded'
  BY <1>7 DEF HubUnregister, Disconnect, feed
<1>8. ASSUME NEW c \in Connections, Upgrade(c) PROVE TypeOK' /\ UpdatesBounded'
  BY <1>8 DEF Upgrade, feed
<1>9. ASSUME NEW c \in Connections, ConnectionBreaks(c) PROVE TypeOK' /\ UpdatesBounded'
  BY <1>9 DEF ConnectionBreaks, feed
<1>10. ASSUME NEW c \in Connections, ReadPumpFails(c) \/ ReadPumpExit(c)
       PROVE  TypeOK' /\ UpdatesBounded'
  BY <1>10 DEF ReadPumpFails, ReadPumpExit, feed
<1>11. ASSUME NEW c \in Connections, WritePumpWrites(c) PROVE TypeOK' /\ UpdatesBounded'
  BY <1>11 DEF WritePumpWrites, feed
<1>12. ASSUME NEW c \in Connections, WritePumpFails(c) PROVE TypeOK' /\ UpdatesBounded'
  <2>1. PICK k \in 0 .. Len(send[c]) :
           send' = [send EXCEPT ![c] = SubSeq(@, k + 1, Len(@))]
    BY <1>12 DEF WritePumpFails
  <2>2. /\ SubSeq(send[c], k + 1, Len(send[c])) \in Seq(Nat)
        /\ Len(SubSeq(send[c], k + 1, Len(send[c]))) <= SendBuffer
    BY RestOfSequence
  <2> QED
    BY <1>12, <2>1, <2>2 DEF WritePumpFails, feed
<1>13. ASSUME NEW c \in Connections, WritePumpCloses(c) \/ WritePumpExit(c)
       PROVE  TypeOK' /\ UpdatesBounded'
  BY <1>13 DEF WritePumpCloses, WritePumpExit, feed
<1>14. CASE Cancel
  BY <1>14 DEF Cancel, feed, connection
<1>15. CASE Stop
  BY <1>15 DEF Stop, Disconnect, feed, connection
<1>16. CASE UNCHANGED vars
  BY <1>16 DEF vars, feed, connection
<1> QED
  BY <1>1, <1>2, <1>3, <1>4, <1>5, <1>6, <1>7, <1>8, <1>9, <1>10, <1>11, <1>12, <1>13, <1>14,
     <1>15, <1>16 DEF Next, Hub, Pumps

\* The variables of the hub keep their types, and no buffer overflows.
THEOREM HubTypeCorrect == Spec => []TypeOK
<1>1. Init => TypeOK /\ UpdatesBounded
  <2> SUFFICES ASSUME Init PROVE TypeOK /\ UpdatesBounded
    OBVIOUS
  <2>1. <<>> \in Seq(Nat) /\ Len(<<>>) = 0
    BY EmptySeq
  <2>2. send \in [Connections -> Seq(Nat)] /\ written \in [Connections -> Seq(Nat)]
    BY <2>1 DEF Init
  <2>3. \A c \in Connections : Len(send[c]) <= SendBuffer
    <3>1. \A c \in Connections : send[c] = <<>>
      BY DEF Init
    <3>2. \A c \in Connections : Len(send[c]) = 0
      BY <2>1, <3>1, Zenon
    <3>3. 0 <= SendBuffer
      BY HubAssumption
    <3> QED
      BY <3>2, <3>3, Zenon
  <2>4. /\ waiting \in 0 .. FeedBuffer /\ taken \in 0 .. MaxUpdates
        /\ waiting + taken <= MaxUpdates
    BY HubAssumption DEF Init
  <2>5. /\ closes \in [Connections -> Nat] /\ joined \in [Connections -> Nat]
        /\ open \in [Connections -> BOOLEAN] /\ feedClosed \in BOOLEAN
        /\ clients \subseteq Connections
    BY DEF Init
  <2> QED
    BY <2>2, <2>3, <2>4, <2>5 DEF Init, TypeOK, UpdatesBounded
<1> QED
  BY <1>1, HubTypeStep, PTL DEF Spec

--------------------------------------------------------------------------------
\* What an invariant that speaks of one connection needs to know of a step.
LEMMA NoPanicStep == TypeOK /\ Unknown /\ NoPanic /\ [Next]_vars => Unknown' /\ NoPanic'
<1> SUFFICES ASSUME TypeOK, Unknown, NoPanic, [Next]_vars PROVE Unknown' /\ NoPanic'
  OBVIOUS
<1> USE DEF TypeOK, Unknown, NoPanic
<1>1. CASE HubSubscribe \/ Forward \/ ForwarderExit \/ HubExit \/ Cancel \/ UNCHANGED vars
  BY <1>1 DEF HubSubscribe, Forward, ForwarderExit, HubExit, Cancel, vars, connection
<1>2. CASE HubBroadcast
  BY <1>2 DEF HubBroadcast, Broadcast, Disconnect, Full, connection
<1>3. CASE Stop
  BY <1>3 DEF Stop, Disconnect, connection
<1>4. ASSUME NEW c \in Connections, HubRegister(c) PROVE Unknown' /\ NoPanic'
  BY <1>4 DEF HubRegister
<1>5. ASSUME NEW c \in Connections, HubUnregister(c) PROVE Unknown' /\ NoPanic'
  BY <1>5 DEF HubUnregister, Disconnect
<1>6. ASSUME NEW c \in Connections,
             Upgrade(c) \/ ConnectionBreaks(c) \/ ReadPumpFails(c) \/ ReadPumpExit(c)
      PROVE  Unknown' /\ NoPanic'
  BY <1>6 DEF Upgrade, ConnectionBreaks, ReadPumpFails, ReadPumpExit
<1>7. ASSUME NEW c \in Connections,
             \/ WritePumpWrites(c) \/ WritePumpFails(c)
             \/ WritePumpCloses(c) \/ WritePumpExit(c)
      PROVE  Unknown' /\ NoPanic'
  BY <1>7 DEF WritePumpWrites, WritePumpFails, WritePumpCloses, WritePumpExit
<1> QED
  BY <1>1, <1>2, <1>3, <1>4, <1>5, <1>6, <1>7 DEF Next, Hub, Pumps

\* Nothing is closed twice and nothing is sent on a closed channel, whichever of
\* the three places that close comes first.
THEOREM NoPanicCorrect == Spec => []NoPanic
<1>1. Init => Unknown /\ NoPanic
  BY DEF Init, Unknown, NoPanic
<1> QED
  BY <1>1, HubTypeCorrect, NoPanicStep, PTL DEF Spec

--------------------------------------------------------------------------------
\* The updates one client was sent or has waiting.
UpdatesOf(c) == written[c] \o send[c]

LEMMA GapsStep == TypeOK /\ Unknown /\ FeedHasNoGaps /\ [Next]_vars => FeedHasNoGaps'
<1> SUFFICES ASSUME TypeOK, Unknown, FeedHasNoGaps, [Next]_vars,
                    NEW c \in Connections, writer'[c] = "running"
             PROVE  /\ \A i \in DOMAIN UpdatesOf(c)' : UpdatesOf(c)'[i] = joined'[c] + i
                    /\ c \in clients' => Len(UpdatesOf(c)') = taken' - joined'[c]
  BY DEF FeedHasNoGaps, UpdatesOf
<1>1. /\ written[c] \in Seq(Nat) /\ send[c] \in Seq(Nat) /\ UpdatesOf(c) \in Seq(Nat)
      /\ taken \in Nat /\ joined[c] \in Nat
  BY HubAssumption DEF TypeOK, UpdatesOf
<1>2. CASE HubRegister(c)
  <2>1. send'[c] = <<>> /\ written'[c] = <<>> /\ joined'[c] = taken /\ taken' = taken
    BY <1>2 DEF HubRegister, Unknown, TypeOK, feed
  <2>2. UpdatesOf(c)' = <<>>
    BY <2>1 DEF UpdatesOf
  <2> QED
    BY <1>1, <2>1, <2>2
<1>3. CASE HubBroadcast
  <2>1. /\ writer[c] = "running" /\ joined' = joined /\ written' = written /\ taken' = taken + 1
    BY <1>3 DEF HubBroadcast, connection
  <2>2. CASE c \in clients \ Full
    <3>1. send'[c] = Append(send[c], taken + 1)
      BY <1>3, <2>2 DEF HubBroadcast, Broadcast
    <3>2. UpdatesOf(c)' = Append(UpdatesOf(c), taken + 1)
      <4>1. taken + 1 \in Nat
        BY <1>1
      <4>2. UpdatesOf(c)' = written[c] \o Append(send[c], taken + 1)
        BY <2>1, <3>1 DEF UpdatesOf
      <4> QED
        BY <1>1, <4>1, <4>2, ConcatAppend DEF UpdatesOf
    <3>3. /\ \A i \in DOMAIN UpdatesOf(c) : UpdatesOf(c)[i] = joined[c] + i
          /\ Len(UpdatesOf(c)) = taken - joined[c]
      BY <2>1, <2>2 DEF FeedHasNoGaps, UpdatesOf
    <3> HIDE DEF UpdatesOf
    <3> QED
      BY <1>1, <2>1, <3>2, <3>3
  <2>3. CASE c \notin clients \ Full
    <3>1. send'[c] = send[c] /\ c \notin clients'
      BY <1>3, <2>3 DEF HubBroadcast, Broadcast, Disconnect
    <3> QED
      BY <2>1, <3>1 DEF FeedHasNoGaps, UpdatesOf
  <2> QED
    BY <2>2, <2>3
<1>4. CASE WritePumpWrites(c)
  <2>1. /\ writer[c] = "running" /\ joined' = joined /\ taken' = taken /\ clients' = clients
        /\ written'[c] = UpdatesOf(c) /\ send'[c] = <<>>
    BY <1>4 DEF WritePumpWrites, TypeOK, feed, UpdatesOf
  <2>2. UpdatesOf(c)' = UpdatesOf(c)
    BY <1>1, <2>1 DEF UpdatesOf
  <2> QED
    BY <2>1, <2>2 DEF FeedHasNoGaps, UpdatesOf
<1>5. CASE ~(HubRegister(c) \/ HubBroadcast \/ WritePumpWrites(c))
  <2>1. ~(WritePumpFails(c) \/ WritePumpCloses(c) \/ WritePumpExit(c))
    BY DEF WritePumpFails, WritePumpCloses, WritePumpExit, TypeOK
  <2> DEFINE Same == /\ writer[c] = "running"
                     /\ joined'[c] = joined[c] /\ taken' = taken
                     /\ written'[c] = written[c] /\ send'[c] = send[c]
                     /\ c \in clients' => c \in clients
  <2>2. Same
    <3>1. ASSUME NEW d \in Connections, d # c, Hub(d) \/ Pumps(d)
          PROVE  Same
      BY <3>1 DEF Hub, HubRegister, HubUnregister, Disconnect, Pumps, ReadPumpFails, ReadPumpExit,
                  WritePumpWrites, WritePumpFails, WritePumpCloses, WritePumpExit, feed, TypeOK
    <3>2. ASSUME NEW d \in Connections,
                 \/ HubUnregister(d) \/ ReadPumpFails(d) \/ ReadPumpExit(d)
                 \/ Upgrade(d) \/ ConnectionBreaks(d)
          PROVE  Same
      BY <3>2 DEF HubUnregister, Disconnect, ReadPumpFails, ReadPumpExit, Upgrade,
                  ConnectionBreaks, feed
    <3>3. CASE \/ HubSubscribe \/ Forward \/ ForwarderExit \/ HubExit \/ Cancel \/ Stop
               \/ UNCHANGED vars
      BY <3>3 DEF HubSubscribe, Forward, ForwarderExit, HubExit, Cancel, Stop, Disconnect, vars,
                  feed, connection
    <3> QED
      BY <1>5, <2>1, <3>1, <3>2, <3>3 DEF Next, Hub, Pumps
  <2>3. UpdatesOf(c)' = UpdatesOf(c)
    BY <2>2 DEF UpdatesOf
  <2>4. /\ \A i \in DOMAIN UpdatesOf(c) : UpdatesOf(c)[i] = joined[c] + i
        /\ c \in clients => Len(UpdatesOf(c)) = taken - joined[c]
    BY <2>2 DEF FeedHasNoGaps, UpdatesOf
  <2> QED
    BY <2>2, <2>3, <2>4
<1> QED
  BY <1>2, <1>3, <1>4, <1>5

\* No client is left out of an update it is still there to receive.
THEOREM FeedHasNoGapsCorrect == Spec => []FeedHasNoGaps
<1>1. Init => Unknown /\ NoPanic /\ FeedHasNoGaps
  BY DEF Init, Unknown, NoPanic, FeedHasNoGaps
<1> QED
  BY <1>1, HubTypeCorrect, NoPanicStep, GapsStep, PTL DEF Spec
================================================================================
