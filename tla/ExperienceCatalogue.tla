------------------------- MODULE ExperienceCatalogue -------------------------
(***************************************************************************)
(* What the store of published experiences promises to whoever reads it:   *)
(* a ticket has at most one entry; its revision grows only with the source *)
(* it was made from, and what was withdrawn stays withdrawn.               *)
(***************************************************************************)
EXTENDS Naturals

CONSTANTS Tickets, Sources, NoSource
VARIABLE entries   \* ticket -> [source, revision, lifecycle]

NoEntry == [source |-> NoSource, revision |-> 0, lifecycle |-> "none"]
Init == entries = [t \in Tickets |-> NoEntry]

Publish(t) == \E s \in Sources \ {entries[t].source} :
  /\ s.ticket = t /\ entries[t].lifecycle # "withdrawn"
  /\ entries' = [entries EXCEPT ![t] = [source |-> s, revision |-> @.revision + 1, lifecycle |-> "published"]]

Withdraw(t) ==
  /\ entries[t].lifecycle # "none"
  /\ entries' = [entries EXCEPT ![t].lifecycle = "withdrawn"]

Next == \E t \in Tickets : Publish(t) \/ Withdraw(t)
Spec == Init /\ [][Next]_entries
=============================================================================
