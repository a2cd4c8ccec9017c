-------------------------------- MODULE Lease --------------------------------
(***************************************************************************)
(* What a lock of the experience store promises its callers: one of them   *)
(* works at a time, the lock passes from one to the next only after it was *)
(* given back, and the lock of a caller that died is taken from nobody     *)
(* alive.                                                                  *)
(***************************************************************************)
CONSTANT Caller

VARIABLES
  inside,   \* the callers that work under the lock
  free      \* the lock can be taken

lvars == <<inside, free>>

LInit == inside = {} /\ free = TRUE

Take(c) == /\ free /\ inside = {}
           /\ inside' = {c} /\ free' = FALSE

GiveBack(c) == /\ inside = {c}
               /\ inside' = {} /\ free' = TRUE

\* The process of the caller dies: the lock stays taken.
Die(c) == /\ inside = {c}
          /\ inside' = {} /\ UNCHANGED free

Reclaim == /\ ~free /\ inside = {}
           /\ free' = TRUE /\ UNCHANGED inside

LNext == Reclaim \/ \E c \in Caller : Take(c) \/ GiveBack(c) \/ Die(c)

LSpec == LInit /\ [][LNext]_lvars
=============================================================================
