-------------------------------- MODULE Delivery --------------------------------
(***************************************************************************)
(* What the pipeline promises of every notification, whatever fails.       *)
(* With its acceptance comes one right to attempt its delivery.  Whoever   *)
(* has a right may hand the notification to the provider once.  What the   *)
(* provider accepts is recorded, which ends the right; what it refuses is  *)
(* counted, and the right then rests until it becomes due for the next     *)
(* attempt, while any is left.  Rights may get lost at any time, and the   *)
(* only other way to get one is that the queue doubles it.                 *)
(***************************************************************************)
EXTENDS Naturals

CONSTANTS
    Notifications,
    MaxAttempts     \* how often delivery may be attempted

VARIABLES
    accepted,   \* the notifications that are stored
    rights,     \* how many rights of each notification are at each stage
    handed,     \* how often the provider got it
    failures,   \* how many of its attempts are counted as failed
    recorded,   \* whether the provider's message ID is known
    doubled     \* how often the queue doubled a right of it

vars == <<accepted, rights, handed, failures, recorded, doubled>>

\* waiting for an attempt, attempted, counted as failed, and resting until a retry
Rights == [waiting : Nat, sent : Nat, counted : Nat, resting : Nat]

NoRights == [waiting |-> 0, sent |-> 0, counted |-> 0, resting |-> 0]

Init ==
    /\ accepted = {}
    /\ rights = [n \in Notifications |-> NoRights]
    /\ handed = [n \in Notifications |-> 0]
    /\ failures = [n \in Notifications |-> 0]
    /\ recorded = [n \in Notifications |-> FALSE]
    /\ doubled = [n \in Notifications |-> 0]

\* The rights that are left after a step, in which any may get lost.
UpTo(most) == [waiting : 0 .. most.waiting, sent    : 0 .. most.sent,
               counted : 0 .. most.counted, resting : 0 .. most.resting]

AtMost(bound) ==
    /\ rights' \in [Notifications -> Rights]
    /\ \A n \in Notifications : rights'[n] \in UpTo(bound[n])

Lose ==
    /\ UNCHANGED <<accepted, handed, failures, recorded, doubled>>
    /\ AtMost(rights)

Accept(batch) ==
    /\ UNCHANGED <<handed, failures, recorded, doubled>>
    /\ batch \cap accepted = {}
    /\ accepted' = accepted \cup batch
    /\ AtMost([n \in Notifications |-> IF n \in batch THEN [NoRights EXCEPT !.waiting = 1]
                                                      ELSE rights[n]])

Double(n) ==
    /\ UNCHANGED <<accepted, handed, failures, recorded>>
    /\ n \in accepted
    /\ doubled' = [doubled EXCEPT ![n] = @ + 1]
    /\ AtMost([rights EXCEPT ![n].waiting = @ + 1])

\* A failure does not tell whether the provider got the notification.
HandOver(n) ==
    /\ UNCHANGED <<accepted, failures, recorded, doubled>>
    /\ handed' \in {handed, [handed EXCEPT ![n] = @ + 1]}
    /\ rights[n].waiting > 0
    /\ AtMost([rights EXCEPT ![n].waiting = @ - 1, ![n].sent = @ + 1])

Record(n) ==
    /\ UNCHANGED <<accepted, handed, failures, doubled>>
    /\ recorded' = [recorded EXCEPT ![n] = TRUE]
    /\ rights[n].sent > 0
    /\ AtMost([rights EXCEPT ![n].sent = @ - 1])

Count(n) ==
    /\ UNCHANGED <<accepted, handed, recorded, doubled>>
    /\ failures' = [failures EXCEPT ![n] = @ + 1]
    /\ rights[n].sent > 0
    /\ AtMost([rights EXCEPT ![n].sent = @ - 1, ![n].counted = @ + 1])

Rest(n) ==
    /\ UNCHANGED <<accepted, handed, failures, recorded, doubled>>
    /\ rights[n].counted > 0
    /\ AtMost([rights EXCEPT ![n].counted = @ - 1, ![n].resting = @ + 1])

Retry(batch) ==
    /\ UNCHANGED <<accepted, handed, failures, recorded, doubled>>
    /\ \A n \in batch : failures[n] < MaxAttempts /\ rights[n].resting > 0
    /\ AtMost([n \in Notifications |->
                  IF n \in batch
                  THEN [rights[n] EXCEPT !.resting = @ - 1, !.waiting = @ + 1]
                  ELSE rights[n]])

Next ==
    \/ Lose
    \/ \E batch \in SUBSET Notifications : Accept(batch) \/ Retry(batch)
    \/ \E n \in Notifications :
          Double(n) \/ HandOver(n) \/ Record(n) \/ Count(n) \/ Rest(n)

Spec == Init /\ [][Next]_vars

================================================================================
