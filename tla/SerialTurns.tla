----------------------------- MODULE SerialTurns -----------------------------
(***************************************************************************)
(* What the runtime promises about the turns of a case, independently of   *)
(* how it schedules them: the turns of one case run one at a time, in the  *)
(* order in which they were submitted, whether or not earlier ones failed, *)
(* and the turns of different cases do not wait for one another.           *)
(*                                                                         *)
(* A turn is a call of CaseTurnQueue.run; stamp records the order of the   *)
(* calls and is 0 for a call that has not been made.                       *)
(***************************************************************************)
EXTENDS Naturals

CONSTANTS Turn, Case, CaseOf

VARIABLES phase, stamp, clock

avars == <<phase, stamp, clock>>

Submitted(t) == stamp[t] # 0

\* u was submitted for the same case as t, and before it.
Before(u, t) == /\ Submitted(u)
                /\ CaseOf[u] = CaseOf[t]
                /\ stamp[u] < stamp[t]

AInit == /\ phase = [t \in Turn |-> "new"]
         /\ stamp = [t \in Turn |-> 0]
         /\ clock = 0

Submit(t) == /\ phase[t] = "new"
             /\ phase' = [phase EXCEPT ![t] = "waiting"]
             /\ stamp' = [stamp EXCEPT ![t] = clock + 1]
             /\ clock' = clock + 1

Begin(t) == /\ phase[t] = "waiting"
            /\ \A u \in Turn : Before(u, t) => phase[u] = "over"
            /\ phase' = [phase EXCEPT ![t] = "running"]
            /\ UNCHANGED <<stamp, clock>>

Finish(t) == /\ phase[t] = "running"
             /\ phase' = [phase EXCEPT ![t] = "over"]
             /\ UNCHANGED <<stamp, clock>>

ANext == \E t \in Turn : Submit(t) \/ Begin(t) \/ Finish(t)

ASpec == AInit /\ [][ANext]_avars
=============================================================================
