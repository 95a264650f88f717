------------------------------ MODULE WebSocketHub ------------------------------
(***************************************************************************)
(* The WebSocket side of the status feed: the hub goroutine                *)
(* (internal/delivery/websocket/hub.go), the read pump and the write pump  *)
(* of each connection (client.go, handler.go) and the forwarder that feeds *)
(* the hub from Redis Pub/Sub (internal/infrastructure/redis/pubsub.go).   *)
(*                                                                         *)
(* register and unregister are unbuffered: sending on them and the hub's   *)
(* receiving is one step of both.  The hub's select takes any case that is *)
(* ready.  Status updates are numbered in the order the hub takes them.    *)
(***************************************************************************)
EXTENDS Integers, Sequences

CONSTANTS
    Connections,    \* HTTP connections that ask for an upgrade
    SendBuffer,     \* sendBufferSize
    FeedBuffer,     \* capacity of the channel that Subscribe returns
    MaxUpdates      \* bound: how many status updates are published

ASSUME HubAssumption ==
    /\ SendBuffer \in Nat \ {0}
    /\ FeedBuffer \in Nat \ {0}
    /\ MaxUpdates \in Nat

VARIABLES
    main,       \* how far the shutdown sequence of main has come
    hub,        \* where Hub.Start is
    waiting,    \* updates in the channel that Subscribe returned
    feedClosed, \* the forwarder has closed that channel
    taken,      \* updates the hub has taken from it
    clients,    \* Hub.clients
    send,       \* what is in the send channel of each client
    closes,     \* how often that channel was closed
    reader,     \* where the goroutine of the request, then ReadPump, is
    writer,     \* where WritePump is
    open,       \* whether the connection works
    joined,     \* the updates that were taken when the client registered
    written     \* the updates written to the connection

feed       == <<waiting, feedClosed, taken>>
connection == <<reader, writer, open, joined, written>>
vars       == <<main, hub, feed, clients, send, closes, connection>>

Init ==
    /\ main = "serving"
    /\ hub = "starting"
    /\ waiting = 0
    /\ feedClosed = FALSE
    /\ taken = 0
    /\ clients = {}
    /\ send = [c \in Connections |-> <<>>]
    /\ closes = [c \in Connections |-> 0]
    /\ reader = [c \in Connections |-> "none"]
    /\ writer = [c \in Connections |-> "none"]
    /\ open = [c \in Connections |-> FALSE]
    /\ joined = [c \in Connections |-> 0]
    /\ written = [c \in Connections |-> <<>>]

\* delete from the map and close(client.send), for the clients in cs.
Disconnect(cs) ==
    /\ clients' = clients \ cs
    /\ closes' = [c \in Connections |-> IF c \in cs THEN closes[c] + 1 ELSE closes[c]]

--------------------------------------------------------------------------------
\* PubSub.Subscribe; when it fails, Start returns and nothing starts it again.
HubSubscribe ==
    /\ hub = "starting"
    /\ \/ main = "serving" /\ hub' = "running"
       \/ hub' = "exited"
    /\ UNCHANGED <<main, feed, clients, send, closes, connection>>

\* An update reaches the subscription; one that is published while the hub is
\* not subscribed, or that Pub/Sub drops, is never seen.
Forward ==
    /\ hub = "running"
    /\ ~feedClosed
    /\ waiting < FeedBuffer
    /\ waiting + taken < MaxUpdates
    /\ waiting' = waiting + 1
    /\ UNCHANGED <<main, hub, feedClosed, taken, clients, send, closes, connection>>

\* The forwarder returns, because the context is done.  It also returns when the
\* hub has unsubscribed, which nobody is left to notice.
ForwarderExit ==
    /\ main # "serving"
    /\ hub = "running"
    /\ ~feedClosed
    /\ feedClosed' = TRUE
    /\ UNCHANGED <<main, hub, waiting, taken, clients, send, closes, connection>>

\* client := <-h.register, with which the request starts both pumps.
HubRegister(c) ==
    /\ hub = "running"
    /\ reader[c] = "registering"
    /\ clients' = clients \cup {c}
    /\ joined' = [joined EXCEPT ![c] = taken]
    /\ reader' = [reader EXCEPT ![c] = "reading"]
    /\ writer' = [writer EXCEPT ![c] = "running"]
    /\ UNCHANGED <<main, hub, feed, send, closes, open, written>>

\* Mutant: the channel is closed without a look at the map.
UnregisterUnchecked(c) ==
    /\ hub = "running"
    /\ reader[c] = "unregistering"
    /\ Disconnect({c})
    /\ reader' = [reader EXCEPT ![c] = "closing"]
    /\ UNCHANGED <<main, hub, feed, send, writer, open, joined, written>>

\* client := <-h.unregister; a client the hub has dropped is no longer in the map.
HubUnregister(c) ==
    /\ hub = "running"
    /\ reader[c] = "unregistering"
    /\ Disconnect({c} \cap clients)
    /\ reader' = [reader EXCEPT ![c] = "closing"]
    /\ UNCHANGED <<main, hub, feed, send, writer, open, joined, written>>

\* Mutant: the test comes one update late.
FullOneLate == {c \in clients : Len(send[c]) > SendBuffer}

Full == {c \in clients : Len(send[c]) = SendBuffer}

\* Mutant: a client whose buffer is full misses the update and stays.
BroadcastSkipping ==
    /\ send' = [c \in Connections |-> IF c \in clients \ Full
                                      THEN Append(send[c], taken + 1)
                                      ELSE send[c]]
    /\ UNCHANGED <<clients, closes>>

\* broadcast: a client whose buffer is full is dropped.
Broadcast ==
    /\ send' = [c \in Connections |-> IF c \in clients \ Full
                                      THEN Append(send[c], taken + 1)
                                      ELSE send[c]]
    /\ Disconnect(Full)

HubBroadcast ==
    /\ hub = "running"
    /\ waiting > 0
    /\ waiting' = waiting - 1
    /\ taken' = taken + 1
    /\ Broadcast
    /\ UNCHANGED <<main, hub, feedClosed, connection>>

\* ctx.Done(), or the subscription channel is drained and closed.
HubExit ==
    /\ hub = "running"
    /\ main # "serving" \/ (feedClosed /\ waiting = 0)
    /\ hub' = "exited"
    /\ UNCHANGED <<main, feed, clients, send, closes, connection>>

--------------------------------------------------------------------------------
\* HandleWebSocket: the upgrade, and the request blocks on hub.register.
Upgrade(c) ==
    /\ main = "serving"
    /\ reader[c] = "none"
    /\ reader' = [reader EXCEPT ![c] = "registering"]
    /\ open' = [open EXCEPT ![c] = TRUE]
    /\ UNCHANGED <<main, hub, feed, clients, send, closes, writer, joined, written>>

\* The peer closes, no pong comes in time, or a write misses its deadline.
ConnectionBreaks(c) ==
    /\ open[c]
    /\ open' = [open EXCEPT ![c] = FALSE]
    /\ UNCHANGED <<main, hub, feed, clients, send, closes, reader, writer, joined, written>>

\* ReadMessage returns an error.
ReadPumpFails(c) ==
    /\ reader[c] = "reading"
    /\ ~open[c]
    /\ reader' = [reader EXCEPT ![c] = "unregistering"]
    /\ UNCHANGED <<main, hub, feed, clients, send, closes, writer, open, joined, written>>

\* conn.Close, once the hub has taken the client from unregister.
ReadPumpExit(c) ==
    /\ reader[c] = "closing"
    /\ reader' = [reader EXCEPT ![c] = "done"]
    /\ open' = [open EXCEPT ![c] = FALSE]
    /\ UNCHANGED <<main, hub, feed, clients, send, closes, writer, joined, written>>

\* The first update and all that are in the channel behind it, in one frame.
WritePumpWrites(c) ==
    /\ writer[c] = "running"
    /\ send[c] # <<>>
    /\ open[c]
    /\ written' = [written EXCEPT ![c] = @ \o send[c]]
    /\ send' = [send EXCEPT ![c] = <<>>]
    /\ UNCHANGED <<main, hub, feed, clients, closes, reader, writer, open, joined>>

\* A write fails; the updates taken from the channel so far are gone.
WritePumpFails(c) ==
    /\ writer[c] = "running"
    /\ ~open[c]
    /\ \E k \in 0 .. Len(send[c]) :
          send' = [send EXCEPT ![c] = SubSeq(@, k + 1, Len(@))]
    /\ writer' = [writer EXCEPT ![c] = "closing"]
    /\ UNCHANGED <<main, hub, feed, clients, closes, reader, open, joined, written>>

\* The channel is drained and closed: a close frame is written.
WritePumpCloses(c) ==
    /\ writer[c] = "running"
    /\ send[c] = <<>>
    /\ closes[c] > 0
    /\ writer' = [writer EXCEPT ![c] = "closing"]
    /\ UNCHANGED <<main, hub, feed, clients, send, closes, reader, open, joined, written>>

\* Mutant: the deferred conn.Close is missing.
WritePumpExitLeavingOpen(c) ==
    /\ writer[c] = "closing"
    /\ writer' = [writer EXCEPT ![c] = "done"]
    /\ UNCHANGED <<main, hub, feed, clients, send, closes, reader, open, joined, written>>

\* The deferred conn.Close, which ends the read pump too.
WritePumpExit(c) ==
    /\ writer[c] = "closing"
    /\ writer' = [writer EXCEPT ![c] = "done"]
    /\ open' = [open EXCEPT ![c] = FALSE]
    /\ UNCHANGED <<main, hub, feed, clients, send, closes, reader, joined, written>>

--------------------------------------------------------------------------------
\* main cancels the context, and later calls Stop; it waits for the hub at no
\* time.
Cancel ==
    /\ main = "serving"
    /\ main' = "cancelled"
    /\ UNCHANGED <<hub, feed, clients, send, closes, connection>>

Stop ==
    /\ main = "cancelled"
    /\ main' = "stopped"
    /\ Disconnect(clients)
    /\ UNCHANGED <<hub, feed, send, connection>>

--------------------------------------------------------------------------------
Hub(c)   == HubRegister(c) \/ HubUnregister(c)
Pumps(c) == \/ ReadPumpFails(c) \/ ReadPumpExit(c)
            \/ WritePumpWrites(c) \/ WritePumpFails(c)
            \/ WritePumpCloses(c) \/ WritePumpExit(c)

Next ==
    \/ HubSubscribe \/ Forward \/ ForwarderExit \/ HubBroadcast \/ HubExit
    \/ \E c \in Connections :
          Hub(c) \/ Pumps(c) \/ Upgrade(c) \/ ConnectionBreaks(c)
    \/ Cancel \/ Stop

Spec == Init /\ [][Next]_vars

(***************************************************************************)
(* Every goroutine that can go on does.  select chooses at random among    *)
(* the cases that are ready, so none that stays ready is passed over for   *)
(* ever.  Nobody has to connect, to publish or to stop the process.        *)
(***************************************************************************)
Fairness ==
    /\ WF_vars(HubSubscribe) /\ WF_vars(HubBroadcast) /\ WF_vars(HubExit)
    /\ \A c \in Connections :
          /\ WF_vars(HubRegister(c))
          /\ WF_vars(HubUnregister(c))
          /\ WF_vars(ReadPumpFails(c) \/ ReadPumpExit(c))
          /\ WF_vars(WritePumpWrites(c) \/ WritePumpFails(c))
          /\ WF_vars(WritePumpCloses(c) \/ WritePumpExit(c))

FairSpec == Spec /\ Fairness

--------------------------------------------------------------------------------
\* The variables have the types the code declares, and no buffer overflows.
TypeOK ==
    /\ main \in {"serving", "cancelled", "stopped"}
    /\ hub \in {"starting", "running", "exited"}
    /\ waiting \in 0 .. FeedBuffer
    /\ feedClosed \in BOOLEAN
    /\ taken \in 0 .. MaxUpdates
    /\ clients \subseteq Connections
    /\ send \in [Connections -> Seq(Nat)]
    /\ \A c \in Connections : Len(send[c]) <= SendBuffer
    /\ closes \in [Connections -> Nat]
    /\ reader \in [Connections -> {"none", "registering", "reading", "unregistering",
                                   "closing", "done"}]
    /\ writer \in [Connections -> {"none", "running", "closing", "done"}]
    /\ open \in [Connections -> BOOLEAN]
    /\ joined \in [Connections -> Nat]
    /\ written \in [Connections -> Seq(Nat)]

\* No send channel is closed twice, and none of a client in the map is closed,
\* so that neither close nor the send of broadcast panics: three places close
\* (unregister, a full buffer, Stop) and two goroutines reach them.
NoPanic ==
    \A c \in Connections :
        /\ closes[c] <= 1
        /\ c \in clients => closes[c] = 0

\* What a client was sent, and has yet to be sent, are the updates taken since it
\* registered, in order and without a gap: a slow client is dropped rather than
\* left out of an update.
FeedHasNoGaps ==
    \A c \in Connections :
        writer[c] = "running" =>
            LET updates == written[c] \o send[c] IN
            /\ \A i \in DOMAIN updates : updates[i] = joined[c] + i
            /\ c \in clients => Len(updates) = taken - joined[c]

\* A connection that breaks, or that the hub drops, gives back both goroutines
\* and its place in the map, unless the hub itself has ended.
BrokenIsReleased ==
    \A c \in Connections :
        (closes[c] > 0 \/ (reader[c] = "reading" /\ ~open[c]))
            ~> \/ reader[c] = "done" /\ writer[c] = "done" /\ c \notin clients
               \/ hub = "exited"
================================================================================
