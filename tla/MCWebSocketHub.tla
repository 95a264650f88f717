----------------------------- MODULE MCWebSocketHub -----------------------------
(***************************************************************************)
(* Small instances of the WebSocket hub for TLC.                           *)
(***************************************************************************)
EXTENDS WebSocketHub

CONSTANTS c1, c2

TwoConnections == {c1, c2}
================================================================================
