----------------------------- MODULE SolvedCases -----------------------------
(***************************************************************************)
(* What becomes of a reviewed result when the user confirms it: the card   *)
(* of the solved case (src/src/runtime/case-curator.ts), the cards of      *)
(* Redmine issues beside it (knowledge/redmine-card.ts), and their review  *)
(* (knowledge/case-review.ts).                                             *)
(*                                                                         *)
(* A card is a file: its folder, its module and its name, the day for the  *)
(* case and the number for an issue, say where.  What it says is the       *)
(* number of the command that wrote it.  The commands are synchronous; a   *)
(* process may die after the file, before it marks the index dirty.        *)
(***************************************************************************)
EXTENDS AnswerReview

CONSTANTS
  CaseModule,       \* the module inferModuleId finds for the case
  Days,             \* the days on which the user may confirm it
  Issue,            \* a Redmine issue
  IssueModules,     \* the modules its text may point to, from import to import
  MaxCommands       \* bound: commands on cards

VARIABLES
  cards,            \* path |-> card, below knowledge/tickets/
  decided,          \* what reviewers accepted: texts and actions (history)
  dirty,            \* knowledge/indexes/dirty.flag exists
  commands

cardVars == <<cards, decided, dirty, commands>>

Solved == "solved-cases"
Unresolved == "unresolved-cases"
Path(folder, module, name) == [folder |-> folder, module |-> module, name |-> name]
TypeFor(folder) == IF folder = Solved THEN "solved_case" ELSE "unresolved_case"

CardsInit == cards = <<>> /\ decided = {} /\ dirty = FALSE /\ commands = 0

Command == commands < MaxCommands /\ commands' = commands + 1
Marked(alive) == dirty' = (alive \/ dirty)
-----------------------------------------------------------------------------
(* Curation *)

\* case-curator.ts supportedClaims: those that cite evidence of the result.
Backed(r) ==
  {i \in DOMAIN r.claims : /\ r.claims[i].type # "unknown" /\ r.claims[i].evidence # {}
                           /\ r.claims[i].evidence \subseteq IdsIn(r.evidence)}

\* hasCuratableDiagnosticResult.
HasCuratableResult == phase = "done" /\ run.status = "concluded" /\ Backed(run) # {}

NewCard(folder, facts) ==
  [type |-> TypeFor(folder), status |-> "review_required", review |-> "none",
   facts |-> facts, text |-> commands]

\* writeCaseFile: a file is made, or written over.
Put(path, card, files) ==
  [p \in {path} \cup DOMAIN files |-> IF p = path THEN card ELSE files[p]]

\* Mutant of Written: what was decided of the card before stays on it.
WrittenOver(path, card) ==
  Put(path, IF path \in DOMAIN cards
            THEN [card EXCEPT !.status = cards[path].status, !.review = cards[path].review]
            ELSE card, cards)

\* A card is written anew, whatever the file held.
Written(path, card) == Put(path, card, cards)

\* curateSolvedCase: the same day, the same file.
Curate(day, alive) ==
  /\ Command /\ HasCuratableResult
  /\ cards' = Written(Path(Solved, CaseModule, day),
                      NewCard(Solved, {i \in Backed(run) : run.claims[i].type \in Factual \cup {"assumption"}}))
  /\ Marked(alive) /\ UNCHANGED decided

\* importRedmineIssueFixture: a closed issue with a word of its resolution is
\* solved.  A card an earlier import put elsewhere stays there.
ImportIssue(closed, resolution, module, alive) ==
  LET folder == IF closed /\ resolution THEN Solved ELSE Unresolved IN
  /\ Command
  /\ cards' = Written(Path(folder, module, Issue), NewCard(folder, {}))
  /\ Marked(alive) /\ UNCHANGED decided
-----------------------------------------------------------------------------
(* Review *)

\* resolveSolvedCasePath: only what lies in solved-cases can be reviewed.
Reviewable == {path \in DOMAIN cards : path.folder = Solved}
Decide(path, action) == decided' = decided \cup {<<cards[path].text, action>>}

\* applyReviewAction; the card is rewritten where it lies.
Judged(path, status, verdict) ==
  [cards[path] EXCEPT !.status = status, !.type = "solved_case", !.review = verdict]

Approve(path, alive) ==
  /\ Command /\ path \in Reviewable
  /\ cards' = [cards EXCEPT ![path] = Judged(path, "active", "approved")]
  /\ Decide(path, "approve") /\ Marked(alive)

SendBack(path, verdict, alive) ==
  /\ Command /\ path \in Reviewable
  /\ cards' = [cards EXCEPT ![path] = Judged(path, "review_required", verdict)]
  /\ Marked(alive) /\ UNCHANGED decided

Without(path, files) == [p \in DOMAIN files \ {path} |-> files[p]]

\* Mutant of Converted: the file is renamed over the one just written.
ConvertedByRename(path, target, card) == Put(target, cards[path], Without(path, cards))

\* The card as an unresolved one, over any that lies at the target.
Converted(path, target, card) == Put(target, card, Without(path, cards))

\* convert_to_unresolved: the new file first, then the old one is removed; when
\* that fails it is ignored, and when the process dies in between both stay.
Convert(path, removed, alive) ==
  LET target == [path EXCEPT !.folder = Unresolved]
      card == [cards[path] EXCEPT !.type = "unresolved_case", !.status = "active", !.review = "pending"]
  IN  /\ Command /\ path \in Reviewable
      /\ cards' = IF removed THEN Converted(path, target, card) ELSE Put(target, card, cards)
      /\ Decide(path, "convert_to_unresolved") /\ Marked(alive)

\* The next index is built of all cards.
Reindex ==
  /\ dirty /\ Command
  /\ dirty' = FALSE /\ UNCHANGED <<cards, decided>>

-----------------------------------------------------------------------------
CardsNext ==
  \E alive \in BOOLEAN :
    \/ \E day \in Days : Curate(day, alive)
    \/ \E closed, resolution \in BOOLEAN, module \in IssueModules :
         ImportIssue(closed, resolution, module, alive)
    \/ \E path \in Reviewable :
         \/ Approve(path, alive)
         \/ \E verdict \in {"rejected", "pending"} : SendBack(path, verdict, alive)
         \/ \E removed \in BOOLEAN : Convert(path, removed, alive)
    \/ Reindex

CasesInit == Init /\ CardsInit

\* A case is confirmed after its turn.  Issues are imported beside a case that
\* can be: a bound of the exploration, they do not depend on it.
CasesNext ==
  \/ Next /\ UNCHANGED cardVars
  \/ HasCuratableResult /\ CardsNext /\ UNCHANGED vars

CasesSpec == CasesInit /\ [][CasesNext]_<<vars, cardVars>>
-----------------------------------------------------------------------------
\* No card is in force that nobody accepted: an active one says what a reviewer
\* approved as solved, or turned into an unresolved case, and it lies where its
\* type belongs, also after the case was confirmed or the issue imported again
\* (openspec/specs/knowledge-diagnosis-hardening/spec.md:294).
ActiveCardWasAccepted ==
  \A path \in DOMAIN cards :
    LET card == cards[path] IN
    /\ card.type = TypeFor(path.folder)
    /\ card.status = "active" =>
         <<card.text, IF path.folder = Solved THEN "approve" ELSE "convert_to_unresolved">> \in decided

\* One card for one case or issue; an issue that is closed later, or a card
\* whose old file could not be removed, has two.
OneCardPerName ==
  \A p, q \in DOMAIN cards : p.name = q.name => p = q

\* A card states as facts only what the review showed to the user.
CardTellsTheReply ==
  \A path \in DOMAIN cards : cards[path].facts \subseteq reply.primary \cup reply.supporting \cup reply.actions
=============================================================================
