--------------------------- MODULE MCClaudeWorker ---------------------------
(***************************************************************************)
(* Three turns of one case, one in the queue of an old runtime and two in  *)
(* that of its reload; they share a Claude session.                        *)
(***************************************************************************)
EXTENDS ClaudeWorker

CONSTANTS t1, t2, t3, old, reloaded

MCTurn == {t1, t2, t3}
MCCase == {old, reloaded}
MCCaseOf == [t \in MCTurn |-> IF t = t1 THEN old ELSE reloaded]
MCMayFail == {t2}
MCSessionOf == [c \in MCCase |-> "session"]
MCProfile == [t \in MCTurn |-> CASE t = t1 -> "none" [] t = t2 -> "fast" [] OTHER -> "deep"]
=============================================================================
