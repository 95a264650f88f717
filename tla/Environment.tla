------------------------------ MODULE Environment ------------------------------
(***************************************************************************)
(* What a process of the service depends on: the background context that   *)
(* its main cancels at shutdown, and the ways a call to PostgreSQL, Redis  *)
(* or the webhook provider may end.  Several processes may run, each with  *)
(* the goroutines that ProcessOf gives it.  Faults selects the failures an *)
(* instance of the model explores:                                         *)
(*   "err"       a call fails and has no effect                            *)
(*   "lost"      a call takes effect, but its reply is lost                *)
(*   "resent"    XADD takes effect, its reply is lost, and the Redis       *)
(*               client sends the command again                            *)
(*   "full"      Redis is at its memory limit and refuses an XADD          *)
(*   "unheard"   a status is not published                                 *)
(*   "rejected"  the delivery client fails and the provider got nothing    *)
(*   "timeout"   the provider accepts, but the delivery client fails       *)
(*   "disconnect"  the client of a request goes away                       *)
(*   "crash"     a process dies and is started again                       *)
(*   "shutdown"  a process is asked to stop, and is started again          *)
(***************************************************************************)

CONSTANTS
    Processes,  \* the running instances of the service
    ProcessOf,  \* the process each goroutine belongs to
    Faults      \* the failures to explore

FaultKinds == {"err", "lost", "resent", "full", "unheard", "rejected",
               "timeout", "disconnect", "crash", "shutdown"}

ASSUME FaultsAssumption == Faults \subseteq FaultKinds

VARIABLES
    ctx,            \* the context of each main: "live" or "cancelled"
    interrupted     \* observer: the notifications for which a call that mattered
                    \* failed, or that somebody held who was stopped

\* A call under the context of an HTTP request whose client is there.
RequestOutcomes == {"ok"} \cup (Faults \cap {"err", "lost"})

\* A call under the context of main fails at once when that is cancelled.
Outcomes(p) == IF ctx[p] = "live" THEN RequestOutcomes ELSE {"err"}

\* XADD needs memory.
EnqueueOutcomes(outcomes) == IF "ok" \in outcomes
                             THEN outcomes \cup (Faults \cap {"full"})
                             ELSE outcomes

Applied(outcome)  == outcome \in {"ok", "lost"}
Returned(outcome) == outcome = "ok"

\* Whether a call took effect whose reply makes no difference: XACK, and PUBLISH.
Effects(outcomes) == {Applied(o) : o \in outcomes}

Heard(outcomes) == {"ok" \in outcomes} \cup {FALSE : f \in Faults \cap {"unheard"}}

\* What the observer notes of a call for ns.
Note(outcome, ns) ==
    interrupted' = IF Returned(outcome) THEN interrupted ELSE interrupted \cup ns

\* DeliveryClient.Send; a cancelled context interrupts or prevents the request.
SendOutcomes(p) == IF ctx[p] = "live"
                   THEN {"accepted"} \cup (Faults \cap {"rejected", "timeout"})
                   ELSE {"rejected", "timeout"}
================================================================================
