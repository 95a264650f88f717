----------------------------- MODULE MCRetrySchedule -----------------------------
(***************************************************************************)
(* The default configuration, in units of 200 ms, for TLC: the worker of   *)
(* the notification and one more.                                          *)
(***************************************************************************)
EXTENDS RetrySchedule

CONSTANTS c1, c2

Workers == {c1, c2}

MeanAndExtremes == {-1, 0, 1}

\* 8, 25, 50 and 75 units: the least delay of the first retry, then one, two and
\* three ticks.
ASSUME DefaultsOutlast ==
    Outlasts([a \in 0 .. 4 |-> CASE a = 0 -> 158 [] a = 1 -> 150 [] a = 2 -> 125
                                [] a = 3 -> 75 [] a = 4 -> 0])
================================================================================
