------------------------------- MODULE StatusFeed -------------------------------
(***************************************************************************)
(* Redis Pub/Sub on ws:notifications (internal/infrastructure/redis/       *)
(* pubsub.go): the status updates that the service and the workers publish *)
(* for the WebSocket hub.  The model keeps what a client that listens all  *)
(* the time heard last of each notification.                               *)
(***************************************************************************)
EXTENDS Notification

VARIABLE announced

\* Publish; errors are logged and otherwise ignored by every caller.
Publish(ns, status) ==
    announced' = [n \in Notifications |-> IF n \in ns THEN status ELSE announced[n]]
================================================================================
