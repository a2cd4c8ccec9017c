----------------------------- MODULE Conversation -----------------------------
(***************************************************************************)
(* What a user may expect of the messages of one case session: a message   *)
(* is accepted once; it then waits until it is answered for good or its    *)
(* turn is interrupted; an interrupted message waits again only when the   *)
(* user retries it.  Whatever happens concerns one message at a time.      *)
(***************************************************************************)
CONSTANT Msg

VARIABLE phase   \* phase[m]

Init == phase = [m \in Msg |-> "absent"]

Becomes(m, from, to) == phase[m] = from /\ phase' = [phase EXCEPT ![m] = to]

Accept(m) == Becomes(m, "absent", "waiting")
Answer(m) == Becomes(m, "waiting", "answered")
Interrupt(m) == Becomes(m, "waiting", "interrupted")
Retry(m) == Becomes(m, "interrupted", "waiting")

Next == \E m \in Msg : Accept(m) \/ Answer(m) \/ Interrupt(m) \/ Retry(m)

Spec == Init /\ [][Next]_phase
=============================================================================
