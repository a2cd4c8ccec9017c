----------------------------- MODULE RedmineScan -----------------------------
(***************************************************************************)
(* The Redmine MCP server looks for historical issues (src/src/mcp-servers/*)
(* redmine/redmine-api): either the search of Redmine names them and each  *)
(* is read, or the issues of the project are listed page by page, the last *)
(* updated first, and ranked.  People go on working on the issues between  *)
(* two pages.  The server lives for one investigation (its transport is    *)
(* stdio), so that the scan it keeps in memory never answers a second one. *)
(***************************************************************************)
EXTENDS Naturals, Sequences, FiniteSets, SequencesExt

CONSTANTS
  Tracked,      \* ids of the issues of the project
  PageSize,     \* REDMINE_PAGE_SIZE
  MaxPages,     \* REDMINE_MAX_PAGES
  Backends,     \* REDMINE_SEARCH_BACKEND: "rest_search" or "issues_scan"
  MayLeave,     \* whether issues are deleted, or moved to another project
  MaxChanges    \* bound: changes to the issues during the search

ASSUME ScanAssumption ==
  /\ PageSize \in Nat \ {0} /\ MaxPages \in Nat \ {0}
  /\ IsFiniteSet(Tracked) /\ MayLeave \in BOOLEAN

VARIABLES
  backend,      \* chosen when the server starts
  tracker,      \* the issues, as Redmine would list them by last update
  touched,      \* the issues created, updated or removed during the search
  found         \* the search: its stage, page and issues

scanVars == <<backend, tracker, touched, found>>

NoSearch == [stage |-> "idle", page |-> 0, issues |-> <<>>]
MovedFirst(issue, list) == <<issue>> \o RemoveFirst(list, issue)

ScanInit ==
  /\ backend \in Backends /\ touched = <<>> /\ found = NoSearch
  /\ \E listed \in SUBSET Tracked : tracker \in SetToSeqs(listed)

\* Somebody creates or updates an issue: it is first in the list by then.
Touch(issue) ==
  /\ found.stage = "reading" /\ Len(touched) < MaxChanges
  /\ tracker' = MovedFirst(issue, tracker) /\ touched' = Append(touched, issue)
  /\ UNCHANGED <<backend, found>>

Leave(issue) ==
  /\ MayLeave /\ found.stage = "reading" /\ Len(touched) < MaxChanges
  /\ issue \in ToSet(tracker)
  /\ tracker' = RemoveFirst(tracker, issue)
  /\ touched' = Append(touched, issue)
  /\ UNCHANGED <<backend, found>>
-----------------------------------------------------------------------------
(* client.ts request: one more attempt, and only for an answer that asks for  *)
(* it (429 or 5xx).  When that one is lost, what the first said is reported.  *)

Attempts == {"ok", "busy", "refused", "unreadable", "late", "lost"}

Request(first, second) ==
  CASE first = "ok" \/ (first = "busy" /\ second = "ok") -> "ok"
    [] first = "late" -> "timeout"
    [] OTHER -> "failed"

RequestOutcomes == {Request(first, second) : first \in Attempts, second \in Attempts}
-----------------------------------------------------------------------------
(* search.ts *)

\* The server is asked: the pages will be read one after the other.
BeginSearch ==
  /\ found.stage = "idle"
  /\ found' = [NoSearch EXCEPT !.stage = "reading"]
  /\ UNCHANGED <<backend, tracker, touched>>

\* Mutant of Listing: the issue updated last comes last.
ListingOldestFirst(list) == Reverse(list)

\* listIssuePage: sort=updated_on:desc.
Listing(list) == list

\* scanIssues: a short page, or one that reaches total_count, is the last.
ReadPage(outcome) ==
  /\ found.stage = "reading" /\ backend = "issues_scan"
  /\ LET offset == found.page * PageSize
         page == SubSeq(Listing(tracker), offset + 1,
                        IF offset + PageSize < Len(tracker) THEN offset + PageSize ELSE Len(tracker))
         last == Len(page) < PageSize \/ offset + Len(page) >= Len(tracker)
                   \/ found.page + 1 = MaxPages
     IN found' = IF outcome # "ok" THEN [NoSearch EXCEPT !.stage = outcome]
                 ELSE [stage |-> IF last THEN "found" ELSE "reading", page |-> found.page + 1,
                       issues |-> found.issues \o page]
  /\ UNCHANGED <<backend, tracker, touched>>

\* searchIssueIds and getRawIssue: what Redmine names and still has, in any order.
Readable(named) == SetToSeq(ToSet(tracker) \cap named)

\* restSearch: the ids Redmine names are read one by one; one that cannot be
\* read fails the search, one of another project is passed over.
ReadNamed(named, outcome) ==
  /\ found.stage = "reading" /\ backend = "rest_search"
  /\ found' = IF outcome = "ok"
              THEN [NoSearch EXCEPT !.stage = "found",
                                    !.issues = Readable(named)]
              ELSE [NoSearch EXCEPT !.stage = outcome]
  /\ UNCHANGED <<backend, tracker, touched>>

\* searchIssues: the candidates are the issues found that match, and they are
\* granted; a grant refuses an id twice, which makes the search a failure.
Candidates(matching) == SelectSeq(found.issues, LAMBDA issue : issue \in matching)
SearchStatus(matching) ==
  CASE found.stage # "found" -> found.stage
    [] found.stage = "found" /\ ~IsInjective(Candidates(matching)) -> "failed"
    [] OTHER -> "ok"

ScanNext ==
  \/ BeginSearch
  \/ \E issue \in Tracked : Touch(issue) \/ Leave(issue)
  \/ \E outcome \in RequestOutcomes : ReadPage(outcome)
  \/ \E named \in SUBSET Tracked, outcome \in RequestOutcomes : ReadNamed(named, outcome)
-----------------------------------------------------------------------------
\* The list moves while it is read page by page, and yet no issue that nobody
\* touched meanwhile is passed over: it can only move towards pages that are
\* still to be read (search.ts scanIssues, sorted by the last update).
UntouchedIssuesAreFound ==
  found.stage = "found" /\ backend = "issues_scan" =>
    \A place \in DOMAIN tracker :
      tracker[place] \notin ToSet(touched) /\ place <= MaxPages * PageSize =>
        tracker[place] \in ToSet(found.issues)

\* A search that was answered gives candidates.  Not so: an issue at the end of
\* a page that another one pushes to the next is listed twice.
AnsweredSearchSucceeds ==
  found.stage = "found" => \A matching \in SUBSET Tracked : SearchStatus(matching) = "ok"
=============================================================================
