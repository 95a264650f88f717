------------------------------ MODULE StreamQueue ------------------------------
(***************************************************************************)
(* The Redis Streams behind queue.Producer and queue.Consumer              *)
(* (internal/infrastructure/redis/queue.go): one stream per channel and    *)
(* priority, all read through one consumer group.                          *)
(*                                                                         *)
(* A stream is a log that is only appended to (XADD without MAXLEN; XACK   *)
(* does not remove the entry).  The ID of an entry is its position.  The   *)
(* group keeps the ID it delivered last and the pending entries list.      *)
(* XREADGROUP is only ever given ">", so an entry is delivered once and    *)
(* one that is left in the pending list is never read again.               *)
(***************************************************************************)
EXTENDS Notification, Sequences

CONSTANTS
    Queues,     \* the streams, notifications:{channel}:{priority}
    QueueOf,    \* the stream each notification goes to (streamKey)
    MaxResends  \* bound: how often the XADDs of one notification are resent

ASSUME QueueAssumption ==
    /\ QueueOf \in [Notifications -> Queues]
    /\ MaxResends \in Nat

VARIABLES
    stream,         \* the entries of each stream
    lastDelivered,  \* last-delivered-id of the consumer group on each stream
    pel,            \* its pending entries list
    resent          \* observer: how often an XADD of each notification was resent

queueVars == <<stream, lastDelivered, pel, resent>>

\* StreamProducer.Enqueue
Enqueue(message) ==
    /\ stream' = [stream EXCEPT ![QueueOf[message.n]] = Append(@, message)]
    /\ UNCHANGED <<lastDelivered, pel, resent>>

\* The XADD took effect, its reply is lost and the client, which retries by default
\* (redis.go:15), is about to send it again.
EnqueueUnanswered(message) ==
    /\ resent[message.n] < MaxResends
    /\ stream' = [stream EXCEPT ![QueueOf[message.n]] = Append(@, message)]
    /\ resent' = [resent EXCEPT ![message.n] = @ + 1]
    /\ UNCHANGED <<lastDelivered, pel>>

\* Mutants of Dequeue: XREADGROUP with NOACK; a group whose position stays where it was.
DequeueNoAck(q) ==
    /\ lastDelivered' = [lastDelivered EXCEPT ![q] = @ + 1]
    /\ UNCHANGED <<stream, pel, resent>>

DequeueNotAdvancing(q) ==
    /\ pel' = [pel EXCEPT ![q] = @ \cup {lastDelivered[q] + 1}]
    /\ UNCHANGED <<stream, lastDelivered, resent>>

\* StreamConsumer.Dequeue with count 1, when the stream has a new entry.
HasNew(q) == lastDelivered[q] < Len(stream[q])

Dequeue(q) ==
    /\ lastDelivered' = [lastDelivered EXCEPT ![q] = @ + 1]
    /\ pel' = [pel EXCEPT ![q] = @ \cup {lastDelivered[q] + 1}]
    /\ UNCHANGED <<stream, resent>>

\* StreamConsumer.Ack
Ack(q, id) ==
    /\ pel' = [pel EXCEPT ![q] = @ \ {id}]
    /\ UNCHANGED <<stream, lastDelivered, resent>>
================================================================================
