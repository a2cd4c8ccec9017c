------------------------ MODULE MCExperienceProduction ------------------------
(***************************************************************************)
(* One file in which a ticket appears twice, with a later date: an import  *)
(* that is stopped leaves the later revision to its repetition, which may  *)
(* come in the midst of a job.  Two jobs compete for the ticket.           *)
(***************************************************************************)
EXTENDS ExperienceProduction

Source(rev, ticket, updated) == [rev |-> rev, ticket |-> ticket, updated |-> updated]
NoRow == Source(0, "none", 0)
Rows == {Source(1, "a", 1), Source(2, "a", 2)}
OneFile == {<<Source(1, "a", 1), Source(2, "a", 2)>>}
=============================================================================
