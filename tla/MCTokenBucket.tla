----------------------------- MODULE MCTokenBucket -----------------------------
(***************************************************************************)
(* A bucket shared by workers of two instances.                            *)
(***************************************************************************)
EXTENDS TokenBucket

CONSTANTS c1, c2, i1, i2

TwoInstances == [c \in Callers |-> IF c = c2 THEN i2 ELSE i1]
================================================================================
