----------------------------- MODULE MCNotification -----------------------------
(***************************************************************************)
(* Small instances of the notification pipeline for TLC.                   *)
(***************************************************************************)
EXTENDS DeliveryRefinement, TLC

CONSTANTS n1, n2, q1, p1, p2, h1, h2, s1, s2, r1, r2, w1, w2

OneScheduled == {n2}
Keys         == [n \in Notifications |-> n]
SameKey      == [n \in Notifications |-> n1]
OneQueueOf   == [n \in Notifications |-> q1]
OneServes    == [w \in Workers |-> q1]

\* One instance of the service runs everything; or one serves requests and ticks while
\* another delivers.  What else each of them runs has nothing to do.
OneProcess == [g \in Handlers \cup Tickers \cup Workers |-> p1]

TwoProcesses == [g \in Handlers \cup Tickers \cup Workers |-> IF g \in Workers THEN p2 ELSE p1]

\* Two workers of one process that read the same stream.
Interchangeable == Permutations({w1, w2})

\* Bound: what follows when an instance is asked to stop is left out where an XADD was
\* resent (what follows when it crashes is not).
OneTrouble == (\E n \in Notifications : resent[n] > 0) => \A p \in Processes : ctx[p] = "live"
================================================================================
