------------------------------- MODULE MCListing -------------------------------
(***************************************************************************)
(* A small instance of the listings for TLC: four rows, two of them with   *)
(* the same created_at, in two groups.                                     *)
(***************************************************************************)
EXTENDS Listing

CONSTANTS r1, r2, r3, r4

TwoAtOnce == [r \in Rows |-> CASE r = r1 -> 1 [] r = r4 -> 3 [] OTHER -> 2]

LastApart == [r \in Rows |-> IF r = r4 THEN 2 ELSE 1]

Nowhere == {Absent, -1}

Raw == {Absent, -1, 9}
================================================================================
