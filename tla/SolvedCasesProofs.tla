-------------------------- MODULE SolvedCasesProofs --------------------------
EXTENDS SolvedCases, WellFoundedInduction, TLAPS

(***************************************************************************)
(* Proofs about the review of an answer (AnswerReview) and about the cards *)
(* that people accept (SolvedCases), for every set of requests, answers of *)
(* the reviewer and items of the question.                                 *)
(*                                                                         *)
(* The argument for the answer has two halves.  ReviewInv says what stands *)
(* between two steps of the review: the review that is kept is one the     *)
(* Runtime may keep (ReviewStands), and once the reply is out, run and     *)
(* reply are the presentation of the outcome frozen from the Worker's      *)
(* result and that review (PresentedAs).  The lemmas before it say what    *)
(* each function of the presentation does, so that the five properties of  *)
(* the reply follow from ReviewInv without looking at a step again.        *)
(*                                                                         *)
(* CardsInv is the invariant of the cards: what a card says of itself and  *)
(* what a person decided about its text.                                   *)
(***************************************************************************)
-----------------------------------------------------------------------------
(* The terms of the argument. *)

\* The result is judged by the reviewer: one is configured and the result is
\* not the Runtime's own; what is left of it after the check of its structure;
\* the result frozen with a review.
Reviewer(r) == r.reviewer /\ ~r.authority
Validated(r) == Structure(r.result, Items)
FrozenOf(r, rv) ==
  Freeze(r.result, Validated(r), rv, IF r.authority THEN {} ELSE r.upstream)

\* A review that is accepted binds valid claims by evidence that is vouched for;
\* without a reviewer there is none.
ReviewStands(rv, r) ==
  IF Reviewer(r)
  THEN /\ rv.status \in {"accepted", "unknown"}
       /\ rv.status = "accepted" =>
            /\ Materializes(Validated(r), r.envelopes)
            /\ Len(rv.bindings) \in Nat /\ DOMAIN rv.bindings = 1 .. Len(rv.bindings)
            /\ \A k \in DOMAIN rv.bindings : ValidBinding(rv.bindings[k], Validated(r))
  ELSE rv.status = "none"

-----------------------------------------------------------------------------
(* Positions in lists. *)

\* A set of positions has a first one.
LEMMA Least ==
  ASSUME NEW T, T \subseteq Nat, T # {}
  PROVE  \E m \in T : \A n \in T : m <= n
<1>1. \E x \in T : \A y \in T : ~ (<<y, x>> \in OpToRel(<, Nat))
  <2>1. IsWellFoundedOn(OpToRel(<, Nat), Nat)
    BY NatLessThanWellFounded
  <2> QED
    BY <2>1, WFMin
<1>2. \A x, y \in T : ~(<<y, x>> \in OpToRel(<, Nat)) => x <= y
  BY DEF OpToRel
<1> QED
  BY <1>1, <1>2

\* A set of positions of a list has a last one, and Max is it.
LEMMA Greatest ==
  ASSUME NEW n \in Nat, NEW K, K \subseteq 1 .. n, K # {}
  PROVE  Max(K) \in K
<1> DEFINE T == {m \in Nat : n - m \in K}
<1>1. T # {}
  <2>1. PICK k \in K : TRUE
    OBVIOUS
  <2>2. k \in 1 .. n /\ n - k \in Nat /\ n - (n - k) = k
    BY <2>1
  <2> QED
    BY <2>1, <2>2
<1>2. PICK m \in T : \A t \in T : m <= t
  <2> HIDE DEF T
  <2>1. T \subseteq Nat
    BY DEF T
  <2> QED
    BY <2>1, <1>1, Least
<1>3. ASSUME NEW l \in K PROVE n - m >= l
  <2>1. l \in 1 .. n /\ n - l \in Nat /\ n - (n - l) = l
    OBVIOUS
  <2>2. n - l \in T
    BY <2>1
  <2>3. m <= n - l
    BY <2>2, <1>2
  <2> QED
    BY <2>1, <2>3, <1>2
<1>4. n - m \in K
  BY <1>2
<1> HIDE DEF T
<1> QED
  BY <1>3, <1>4 DEF Max

-----------------------------------------------------------------------------
(* The claims that are kept, and the bindings. *)

\* What is kept of a result keeps its place, is supported, and is told apart
\* by its id.
LEMMA KeptClaims ==
  ASSUME NEW r \in Requests
  PROVE  LET st == Validated(r) IN
         /\ DOMAIN st.claims \subseteq Nat
         /\ \A i \in DOMAIN st.claims :
              /\ i \in DOMAIN r.result.claims /\ st.claims[i] = r.result.claims[i]
              /\ Supported(st.claims[i], st.evidence)
         /\ \A i, j \in DOMAIN st.claims : st.claims[i].id = st.claims[j].id => i = j
<1> DEFINE c == r.result.claims
           e == Restrict(r.result.evidence, Firsts(r.result.evidence))
           kept == {i \in Firsts(c) : Supported(c[i], e)}
           st == Validated(r)
<1>1. DOMAIN c \subseteq Nat
  BY RequestAssumption
<1>2. kept \subseteq Firsts(c) /\ Firsts(c) \subseteq DOMAIN c
  BY DEF Firsts
<1>3. st.claims = [i \in kept |-> c[i]] /\ st.evidence = e
  BY DEF Validated, Structure, Restrict
<1>4. \A i, j \in Firsts(c) : c[i].id = c[j].id => i = j
  <2> HIDE DEF c
  <2>1. \A i, j \in DOMAIN c : i < j \/ j < i \/ i = j
    BY <1>1
  <2> QED
    BY <2>1 DEF Firsts
<1>5. DOMAIN st.claims = kept /\ \A i \in kept : st.claims[i] = c[i]
  BY <1>3
<1>6. \A i \in kept : Supported(c[i], e)
  OBVIOUS
<1> HIDE DEF c, e, kept, st
<1>7. \A i \in DOMAIN st.claims : i \in kept /\ i \in DOMAIN c /\ i \in Firsts(c)
  BY <1>2, <1>5
<1>8. \A i \in DOMAIN st.claims : Supported(st.claims[i], st.evidence)
  BY <1>3, <1>5, <1>6
<1> QED
  BY <1>1, <1>2, <1>4, <1>5, <1>7, <1>8 DEF c, st

\* The binding of a claim is the last one given for its id.
LEMMA LastBinding ==
  ASSUME NEW rv, Len(rv.bindings) \in Nat, DOMAIN rv.bindings = 1 .. Len(rv.bindings),
         NEW id, \E k \in DOMAIN rv.bindings : rv.bindings[k].claim = id
  PROVE  \E k \in DOMAIN rv.bindings :
           rv.bindings[k].claim = id /\ Binding(rv, id) = rv.bindings[k]
<1> DEFINE K == {k \in DOMAIN rv.bindings : rv.bindings[k].claim = id}
<1>1. K \subseteq 1 .. Len(rv.bindings) /\ K # {}
  OBVIOUS
<1>2. Max(K) \in K
  <2> HIDE DEF K
  <2> QED
    BY <1>1, Greatest
<1>3. Binding(rv, id) = rv.bindings[Max(K)]
  BY DEF Binding
<1> QED
  BY <1>2, <1>3

\* A claim selected as primary answer was accepted and bound.
LEMMA PrimaryIsBound ==
  ASSUME NEW claims, NEW rv, NEW i \in SelectFrozenPrimary(claims, rv)
  PROVE  /\ rv.status = "accepted"
         /\ i \in DOMAIN claims
         /\ claims[i].role = "primary_answer" /\ claims[i].type \in Factual
         /\ \E k \in DOMAIN rv.bindings : rv.bindings[k].claim = claims[i].id
BY DEF SelectFrozenPrimary

\* Dropping the claims that add no item loses none: the first claim bound to
\* an item is never dropped.
LEMMA PrimaryCovers ==
  ASSUME NEW claims, DOMAIN claims \subseteq Nat, NEW rv,
         SelectFrozenPrimary(claims, rv) # {}, NEW item \in Items
  PROVE  \E i \in SelectFrozenPrimary(claims, rv) : item \in Binding(rv, claims[i].id).items
<1> DEFINE eligible == {i \in DOMAIN claims :
                     /\ claims[i].role = "primary_answer" /\ claims[i].type \in Factual
                     /\ \E k \in DOMAIN rv.bindings : rv.bindings[k].claim = claims[i].id}
           ItemsOf(i) == Binding(rv, claims[i].id).items
           Before(i) == UNION {ItemsOf(j) : j \in {j \in eligible : j < i}}
           needed == {i \in eligible : claims[i].id \in rv.fullClaims}
           T == {i \in eligible : item \in ItemsOf(i)}
<1>1. /\ Items \subseteq UNION {ItemsOf(i) : i \in eligible}
      /\ SelectFrozenPrimary(claims, rv)
           = {i \in eligible : ~(ItemsOf(i) \subseteq Before(i))} \cup needed
  BY DEF SelectFrozenPrimary
<1>2. T \subseteq Nat /\ T # {}
  BY <1>1
<1>3. PICK i \in T : \A j \in T : i <= j
  <2> HIDE DEF T
  <2> QED
    BY <1>2, Least
<1>4. item \notin Before(i)
  <2>1. \A j \in eligible : j < i => item \notin ItemsOf(j)
    BY <1>3, <1>2
  <2> QED
    BY <2>1
<1>5. i \in eligible /\ ~(ItemsOf(i) \subseteq Before(i))
  BY <1>4
<1> QED
  BY <1>1, <1>5

-----------------------------------------------------------------------------
(* The frozen outcome. *)

\* The outcomes that are told apart.
LEMMA OutcomeCases ==
  ASSUME NEW f
  PROVE  /\ OutcomeOf(f) \in {"escalate", "ask_user", "final", "partial"}
         /\ OutcomeOf(f) = "escalate" <=> f.action = "escalate_to_human"
         /\ OutcomeOf(f) = "final" <=> f.status = "concluded" /\ f.action = "final_answer"
BY Zenon DEF OutcomeOf

\* Freezing as a cascade: the first case that applies wins.
LEMMA FreezeCases ==
  ASSUME NEW r, NEW covered, NEW blockers
  PROVE  FreezeOutcome(r, covered, blockers) =
           IF r.action = "escalate_to_human" \/ blockers \cap Severe # {}
           THEN <<"partial", "escalate_to_human">>
           ELSE IF r.status = "need_input" \/ r.action = "ask_user" THEN <<"need_input", "ask_user">>
           ELSE IF r.status = "partial" \/ r.action = "continue_diagnosis" THEN <<"partial", "continue_diagnosis">>
           ELSE IF covered /\ blockers = {} THEN <<"concluded", "final_answer">>
           ELSE IF r.missing # <<>> THEN <<"need_input", "ask_user">>
           ELSE <<"partial", "continue_diagnosis">>
<1>1. CASE r.action = "escalate_to_human"
  BY <1>1, Zenon DEF FreezeOutcome
<1>2. CASE r.action # "escalate_to_human" /\ blockers \cap Severe # {}
  BY <1>2, Zenon DEF FreezeOutcome
<1>3. CASE r.action # "escalate_to_human" /\ ~(blockers \cap Severe # {})
  BY <1>3, Zenon DEF FreezeOutcome
<1> QED
  BY <1>1, <1>2, <1>3

\* The primary claims answer every item; what blocks a conclusion; what
\* freezing can yield.
Covered(r, rv) ==
  /\ FrozenPrimary(Validated(r), rv) # {}
  /\ Items \subseteq UNION {Validated(r).claims[i].answers : i \in FrozenPrimary(Validated(r), rv)}
Blockers(r, rv) ==
  Validated(r).blockers \cup (IF r.authority THEN {} ELSE r.upstream)
  \cup (IF (r.result.status = "concluded" \/ r.result.action = "final_answer") /\ ~Covered(r, rv)
        THEN {"primary_coverage_incomplete"} ELSE {})

FrozenOutcomes == {<<"partial", "escalate_to_human">>, <<"need_input", "ask_user">>,
             <<"partial", "continue_diagnosis">>, <<"concluded", "final_answer">>}

\* The fields of the frozen result.
LEMMA FrozenFields ==
  ASSUME NEW r, NEW rv
  PROVE  LET f == FrozenOf(r, rv)
             o == FreezeOutcome(r.result, Covered(r, rv), Blockers(r, rv))
         IN f = [status |-> o[1], action |-> o[2], missing |-> r.result.missing,
                 claims |-> Validated(r).claims, evidence |-> Validated(r).evidence,
                 primary |-> FrozenPrimary(Validated(r), rv)]
BY DEF FrozenOf, Freeze, Covered, Blockers

\* Status and action of a frozen result agree with each other.
LEMMA FrozenOutcome ==
  ASSUME NEW r, NEW rv
  PROVE  LET f == FrozenOf(r, rv)
             o == FreezeOutcome(r.result, Covered(r, rv), Blockers(r, rv))
         IN /\ o \in FrozenOutcomes /\ <<f.status, f.action>> = o
            /\ f.status = o[1] /\ f.action = o[2]
            /\ f.claims = Validated(r).claims /\ f.evidence = Validated(r).evidence
            /\ f.missing = r.result.missing
            /\ f.primary = FrozenPrimary(Validated(r), rv)
<1> DEFINE o == FreezeOutcome(r.result, Covered(r, rv), Blockers(r, rv))
<1>1. o \in FrozenOutcomes
  BY FreezeCases DEF FrozenOutcomes
<1> HIDE DEF o
<1>2. o = <<o[1], o[2]>>
  <2>1. PICK q \in FrozenOutcomes : o = q
    BY <1>1
  <2> QED
    BY <2>1 DEF FrozenOutcomes
<1>3. FrozenOf(r, rv) = [status |-> o[1], action |-> o[2], missing |-> r.result.missing,
                 claims |-> Validated(r).claims, evidence |-> Validated(r).evidence,
                 primary |-> FrozenPrimary(Validated(r), rv)]
  BY FrozenFields, Zenon DEF o
<1>4. /\ FrozenOf(r, rv).status = o[1] /\ FrozenOf(r, rv).action = o[2]
      /\ FrozenOf(r, rv).claims = Validated(r).claims
      /\ FrozenOf(r, rv).evidence = Validated(r).evidence
      /\ FrozenOf(r, rv).missing = r.result.missing
      /\ FrozenOf(r, rv).primary = FrozenPrimary(Validated(r), rv)
  BY <1>3
<1> QED
  BY <1>1, <1>2, <1>4 DEF o

\* The primary claims of a frozen result are factual, supported and, with a
\* reviewer, bound.
LEMMA FrozenPrimaries ==
  ASSUME NEW r \in Requests, NEW rv, ReviewStands(rv, r), NEW i \in FrozenPrimary(Validated(r), rv)
  PROVE  LET st == Validated(r) IN
         /\ i \in DOMAIN st.claims
         /\ st.claims[i].role = "primary_answer" /\ st.claims[i].type \in Factual
         /\ st.claims[i].answers # {} /\ st.claims[i].evidence # {}
         /\ Supported(st.claims[i], st.evidence)
         /\ Reviewer(r) => /\ rv.status = "accepted"
                           /\ \E k \in DOMAIN rv.bindings : rv.bindings[k].claim = st.claims[i].id
<1> DEFINE st == Validated(r)
<1>1. \A j \in DOMAIN st.claims : Supported(st.claims[j], st.evidence)
  BY KeptClaims
<1> HIDE DEF st
<1>2. CASE rv.status = "none"
  BY <1>1, <1>2 DEF FrozenPrimary, ReviewStands, Supported, st
<1>3. CASE rv.status # "none"
  <2>1. i \in SelectFrozenPrimary(st.claims, rv)
    BY <1>3 DEF FrozenPrimary, st
  <2> QED
    BY <2>1, <1>1, PrimaryIsBound DEF Supported, Factual, st
<1> QED
  BY <1>2, <1>3

\* What it takes that a frozen result is concluded.
LEMMA FrozenFinal ==
  ASSUME NEW r, NEW rv, FrozenOf(r, rv).status = "concluded"
  PROVE  /\ FrozenOf(r, rv).action = "final_answer"
         /\ r.result.status \notin {"partial", "need_input"}
         /\ r.result.action \notin {"ask_user", "continue_diagnosis", "escalate_to_human"}
         /\ Validated(r).blockers = {}
         /\ ~r.authority => r.upstream = {}
         /\ Covered(r, rv)
<1> DEFINE o == FreezeOutcome(r.result, Covered(r, rv), Blockers(r, rv))
<1>1. o \in FrozenOutcomes /\ o[1] = "concluded" /\ FrozenOf(r, rv).action = o[2]
  BY FrozenOutcome
<1>2. o = <<"concluded", "final_answer">>
  <2> HIDE DEF o
  <2> QED
    BY <1>1 DEF FrozenOutcomes
<1>3. /\ ~(r.result.action = "escalate_to_human" \/ Blockers(r, rv) \cap Severe # {})
      /\ ~(r.result.status = "need_input" \/ r.result.action = "ask_user")
      /\ ~(r.result.status = "partial" \/ r.result.action = "continue_diagnosis")
      /\ Covered(r, rv) /\ Blockers(r, rv) = {}
  BY <1>2, FreezeCases
<1>4. FrozenOf(r, rv).action = "final_answer"
  BY <1>1, <1>2
<1> QED
  BY <1>3, <1>4 DEF Blockers

-----------------------------------------------------------------------------
(* The projection and the reply. *)

ShownOutcomes == {"escalate", "ask_user", "final", "partial"}

\* A claim the review lets through.
Bound(i, claims, rv) ==
  /\ i \in DOMAIN claims
  /\ \/ rv.status = "none"
     \/ rv.status = "accepted" /\ \E k \in DOMAIN rv.bindings : rv.bindings[k].claim = claims[i].id

\* ReviewedClaims lets through bound claims only.
LEMMA ReviewedAreBound ==
  ASSUME NEW f, NEW rv, NEW i \in ReviewedClaims(f, rv)
  PROVE  Bound(i, f.claims, rv)
<1>1. CASE rv.status = "none"
  BY <1>1, Zenon DEF ReviewedClaims, Bound
<1>2. CASE rv.status = "accepted"
  BY <1>2, Zenon DEF ReviewedClaims, Bound
<1>3. CASE rv.status # "none" /\ rv.status # "accepted"
  BY <1>3, Zenon DEF ReviewedClaims
<1> QED
  BY <1>1, <1>2, <1>3

\* The projection shows bound claims, and keeps or takes down the outcome.
LEMMA Projection ==
  ASSUME NEW f, NEW rv, NEW accepted
  PROVE  LET p == Project(f, rv, accepted) IN
         /\ p.outcome \in ShownOutcomes
         /\ p.outcome = "final" => OutcomeOf(f) = "final" /\ p.primary = f.primary
         /\ p.outcome = "ask_user" => OutcomeOf(f) = "ask_user" /\ p.prompts # {}
         /\ p.outcome = "escalate" <=> OutcomeOf(f) = "escalate"
         /\ p.prompts = PromptCandidates(f) \cap accepted
         /\ \A i \in p.primary : i \in f.primary \/ Bound(i, f.claims, rv)
         /\ \A i \in p.supporting : Bound(i, f.claims, rv)
         /\ \A i \in p.actions : Bound(i, f.claims, rv) /\ f.claims[i].role = "next_action"
<1> DEFINE
      bound == ReviewedClaims(f, rv)
      WithRole(role) == {i \in bound : f.claims[i].role = role}
      source == IF f.primary # {} THEN f.primary
                ELSE IF OutcomeOf(f) = "final" THEN {}
                ELSE {i \in WithRole("primary_answer") : f.claims[i].type \in Factual}
      primary == {i \in source : Showable(f.claims[i], RequiredLimit)}
      actions == {i \in WithRole("next_action") : Showable(f.claims[i], RequiredLimit)}
      supporting == {i \in WithRole("supporting_context") : Showable(f.claims[i], SupportingLimit)}
      Citing(e) == {i \in primary \cup actions \cup supporting : e \in f.claims[i].evidence}
      required == UNION {f.claims[i].evidence : i \in primary \cup actions}
      shown == {e \in IdsIn(f.evidence) :
                  MapThenSumSet(LAMBDA i : f.claims[i].text, Citing(e)) \in 1 .. RequiredLimit}
      blocked == \/ primary # source
                 \/ actions # WithRole("next_action")
                 \/ ~(required \subseteq shown)
      prompts == PromptCandidates(f) \cap accepted
      frozen == OutcomeOf(f)
      outcome == IF blocked THEN (IF frozen = "escalate" THEN "escalate" ELSE "partial") ELSE frozen
      last == IF outcome = "ask_user" /\ prompts = {} THEN "partial" ELSE outcome
      p == Project(f, rv, accepted)
<1>1. p = [outcome |-> last, primary |-> primary, supporting |-> supporting,
           actions |-> actions, prompts |-> prompts]
  BY Zenon DEF Project
<1>2. /\ primary \subseteq source
      /\ \A i \in source : i \in f.primary \/ i \in bound
      /\ f.primary = {} /\ frozen = "final" => source = {}
      /\ f.primary # {} => source = f.primary
      /\ ~blocked => primary = source
  <2> HIDE DEF shown, required, bound
  <2> QED
    OBVIOUS
<1>3. /\ \A i \in actions : i \in bound /\ f.claims[i].role = "next_action"
      /\ \A i \in supporting : i \in bound
  OBVIOUS
<1>4. \A i \in bound : Bound(i, f.claims, rv)
  BY ReviewedAreBound
<1>5. frozen \in ShownOutcomes
  BY OutcomeCases DEF ShownOutcomes
<1> HIDE DEF bound, source, primary, actions, supporting, blocked, prompts, frozen
<1>6. /\ last \in ShownOutcomes
      /\ last = "final" => frozen = "final" /\ ~blocked
      /\ last = "ask_user" => frozen = "ask_user" /\ prompts # {}
      /\ last = "escalate" <=> frozen = "escalate"
  BY <1>5 DEF ShownOutcomes
<1> HIDE DEF last, p
<1>7. /\ p.outcome = last /\ p.primary = primary /\ p.supporting = supporting
      /\ p.actions = actions /\ p.prompts = prompts
  BY <1>1
<1>8. last = "final" => primary = f.primary
  BY <1>2, <1>6
<1> QED
  BY <1>2, <1>3, <1>4, <1>6, <1>7, <1>8 DEF p, frozen, prompts

\* What the review leaves of a frozen result.
LEMMA Applied ==
  ASSUME NEW r, NEW rv, NEW o \in ShownOutcomes,
         o = "final" => OutcomeOf(FrozenOf(r, rv)) = "final"
  PROVE  LET f == FrozenOf(r, rv)
             result == ApplyOutcome(f, o)
         IN /\ result.claims = f.claims /\ result.evidence = f.evidence
            /\ result.missing = f.missing /\ result.primary = f.primary
            /\ o = "final" => /\ result.status = "concluded" /\ result.action = "final_answer"
                              /\ result = f
            /\ o = "ask_user" => result.status = "need_input" /\ result.action = "ask_user"
            /\ o = "escalate" => result.status = "partial" /\ result.action = "escalate_to_human"
            /\ o = "partial" => result.status = "partial" /\ result.action = "continue_diagnosis"
<1> DEFINE f == FrozenOf(r, rv)
           result == ApplyOutcome(f, o)
<1>1. PICK s, a, m, c, e, p : f = [status |-> s, action |-> a, missing |-> m, claims |-> c,
                                   evidence |-> e, primary |-> p]
  BY FrozenFields, Zenon
<1>2. CASE o = "final"
  <2>1. result = f
    BY <1>2, Zenon DEF ApplyOutcome
  <2>2. f.status = "concluded" /\ f.action = "final_answer"
    BY <1>2, OutcomeCases
  <2> QED
    BY <1>2, <2>1, <2>2
<1>3. CASE o = "ask_user"
  <2>1. result = [f EXCEPT !.status = "need_input", !.action = "ask_user"]
    BY <1>3, Zenon DEF ApplyOutcome
  <2> HIDE DEF f, result
  <2> QED
    BY <1>3, <2>1, <1>1 DEF f, result
<1>4. CASE o = "escalate"
  <2>1. result = [f EXCEPT !.status = "partial", !.action = "escalate_to_human"]
    BY <1>4, Zenon DEF ApplyOutcome
  <2> HIDE DEF f, result
  <2> QED
    BY <1>4, <2>1, <1>1 DEF f, result
<1>5. CASE o = "partial"
  <2>1. result = [f EXCEPT !.status = "partial", !.action = "continue_diagnosis"]
    BY <1>5, Zenon DEF ApplyOutcome
  <2> HIDE DEF f, result
  <2> QED
    BY <1>5, <2>1, <1>1 DEF f, result
<1> QED
  BY <1>2, <1>3, <1>4, <1>5 DEF ShownOutcomes

\* A binding that was accepted is one of the claim with its id, by evidence
\* of the claim, all of which is vouched for.
LEMMA BindingIsSound ==
  ASSUME NEW r \in Requests, NEW rv, ReviewStands(rv, r), Reviewer(r), rv.status = "accepted",
         NEW k \in DOMAIN rv.bindings, NEW i \in DOMAIN Validated(r).claims,
         rv.bindings[k].claim = Validated(r).claims[i].id
  PROVE  LET st == Validated(r)
             b == rv.bindings[k] IN
         /\ b.items \subseteq st.claims[i].answers
         /\ b.evidence \subseteq st.claims[i].evidence
         /\ \A j \in DOMAIN st.evidence :
              st.evidence[j].id \in st.claims[i].evidence => Vouched(st.evidence[j], r.envelopes)
<1> DEFINE st == Validated(r)
           b == rv.bindings[k]
<1>1. ValidBinding(b, st) /\ Materializes(st, r.envelopes)
  BY DEF ReviewStands
<1>2. \A j \in Candidates(st.claims) : st.claims[j].id = st.claims[i].id => i = j
  BY KeptClaims DEF Candidates
<1>3. b.claim = st.claims[i].id
  OBVIOUS
<1> HIDE DEF st, b
<1>4. /\ i \in Candidates(st.claims)
      /\ b.items \subseteq st.claims[i].answers /\ b.evidence \subseteq st.claims[i].evidence
  BY <1>1, <1>2, <1>3 DEF ValidBinding
<1>5. st.claims[i].evidence \subseteq Selected(st)
  BY <1>4 DEF Selected
<1>6. \A j \in DOMAIN st.evidence :
        st.evidence[j].id \in Selected(st) => Vouched(st.evidence[j], r.envelopes)
  BY <1>1 DEF Materializes
<1> QED
  BY <1>4, <1>5, <1>6 DEF st, b

\* The decision told, by status and action of the result.
LEMMA DecisionCases ==
  ASSUME NEW f
  PROVE  /\ f.action = "ask_user" => DecisionOf(f) = "ask_user"
         /\ f.action = "escalate_to_human" /\ f.status = "partial" => DecisionOf(f) = "escalate"
         /\ f.action = "continue_diagnosis" /\ f.status = "partial" => DecisionOf(f) = "partial"
         /\ f.action = "final_answer" /\ f.status = "concluded" /\ HasPrimaryShape(f) =>
              DecisionOf(f) = "final"
BY Zenon DEF DecisionOf

\* What the reply says in any case, of a failed Worker and of another one.
LEMMA RenderDecides ==
  ASSUME NEW f, NEW p, NEW failed, NEW answer, answer = Render(f, p, failed)
  PROVE  answer.decision = DecisionOf(f) /\ answer.caseStatus = CaseStatusOf(f)
<1>1. CASE failed
  BY <1>1 DEF Render, NoReply
<1>2. CASE ~failed
  BY <1>2, Zenon DEF Render
<1> QED
  BY <1>1, <1>2

LEMMA RenderFailed ==
  ASSUME NEW f, NEW p, NEW failed, NEW answer, answer = Render(f, p, failed), failed
  PROVE  /\ answer.label = "failure" /\ answer.reviewed = FALSE
         /\ answer.primary = {} /\ answer.supporting = {} /\ answer.actions = {}
BY DEF Render, NoReply

LEMMA RenderShown ==
  ASSUME NEW f, NEW p, NEW failed, NEW answer, answer = Render(f, p, failed), ~failed
  PROVE  /\ (answer.label = "conclusion") <=> (p.primary # {} /\ p.outcome = "final")
         /\ answer.label # "failure"
         /\ answer.reviewed \in BOOLEAN /\ (p.primary # {} => answer.reviewed)
         /\ answer.primary = p.primary /\ answer.supporting = p.supporting
         /\ answer.actions = p.actions /\ answer.prompts = p.prompts
<1> DEFINE label == CASE p.primary # {} /\ p.outcome = "final" -> "conclusion"
                      [] p.primary # {} /\ p.outcome # "final" -> "preliminary"
                      [] OTHER -> "insufficient"
           reviewed == p.primary \cup p.supporting # {}
<1>1. p.primary # {} /\ p.outcome = "final" => label = "conclusion"
  BY Zenon
<1>2. p.primary # {} /\ p.outcome # "final" => label = "preliminary"
  BY Zenon
<1>3. p.primary = {} => label = "insufficient"
  BY Zenon
<1>4. reviewed \in BOOLEAN /\ (p.primary # {} => reviewed)
  OBVIOUS
<1>5. answer = [label |-> label, decision |-> DecisionOf(f), caseStatus |-> CaseStatusOf(f),
                reviewed |-> reviewed, primary |-> p.primary, supporting |-> p.supporting,
                actions |-> p.actions, prompts |-> p.prompts]
  BY Zenon DEF Render
<1> HIDE DEF label, reviewed
<1> QED
  BY <1>1, <1>2, <1>3, <1>4, <1>5

-----------------------------------------------------------------------------
(* The presentation as a whole. *)

\* The run and the reply made from a frozen result: projected once to apply the
\* outcome, and once more to render it.
PresentedAs(r, rv, prompts, result, answer) ==
  LET f == FrozenOf(r, rv) IN
  /\ result = ApplyOutcome(f, Project(f, rv, prompts).outcome)
  /\ answer = Render(result, Project(result, rv, prompts), WorkerFailed(r, result))

\* Decision, status of the case, label and result, by the outcome shown.
Told(o, result, answer) ==
  /\ answer.reviewed \in BOOLEAN
  /\ o = "final" => /\ answer.decision = "final" /\ answer.caseStatus = "concluded"
                    /\ answer.label = "conclusion" /\ answer.reviewed
                    /\ result.status = "concluded"
  /\ o # "final" => answer.label # "conclusion"
  /\ o = "ask_user" => /\ answer.decision = "ask_user" /\ answer.caseStatus = "need_input"
                       /\ answer.prompts # {} \/ answer.label = "failure"
                       /\ result.status = "need_input"
  /\ o = "escalate" => /\ answer.decision = "escalate" /\ answer.caseStatus = "partial"
                       /\ result.status = "partial"
  /\ o = "partial" => /\ answer.decision = "partial" /\ answer.caseStatus = "partial"
                      /\ result.status = "partial"

\* A concluded result has the shape a final decision asks for.
LEMMA FinalHasShape ==
  ASSUME NEW r \in Requests, NEW rv, ReviewStands(rv, r), FrozenOf(r, rv).status = "concluded"
  PROVE  HasPrimaryShape(FrozenOf(r, rv))
<1> DEFINE f == FrozenOf(r, rv)
<1>1. PICK i \in FrozenPrimary(Validated(r), rv) : TRUE
  BY FrozenFinal DEF Covered
<1>2. /\ i \in DOMAIN f.claims
      /\ f.claims[i].role = "primary_answer" /\ f.claims[i].type \in Factual
      /\ f.claims[i].answers # {} /\ f.claims[i].evidence # {}
      /\ Supported(f.claims[i], f.evidence)
  BY <1>1, FrozenPrimaries, FrozenOutcome
<1> HIDE DEF f
<1>3. HasPrimaryShape(f)
  BY <1>2 DEF HasPrimaryShape
<1> QED
  BY <1>3 DEF f

\* The reply tells the outcome of the first projection: the second one, of the
\* result the outcome was applied to, neither adds nor takes.
LEMMA ToldByOutcome ==
  ASSUME NEW r \in Requests, NEW rv, ReviewStands(rv, r), NEW prompts, NEW result, NEW answer,
         PresentedAs(r, rv, prompts, result, answer)
  PROVE  LET o == Project(FrozenOf(r, rv), rv, prompts).outcome IN
         o \in ShownOutcomes /\ Told(o, result, answer)
<1> DEFINE f == FrozenOf(r, rv)
           first == Project(f, rv, prompts)
           o == first.outcome
           second == Project(result, rv, prompts)
           failed == WorkerFailed(r, result)
<1>1. /\ o \in ShownOutcomes
      /\ o = "final" => OutcomeOf(f) = "final" /\ first.primary = f.primary
      /\ o = "ask_user" => first.prompts # {}
      /\ first.prompts = PromptCandidates(f) \cap prompts
  BY Projection
<1>2. /\ second.outcome = "final" => OutcomeOf(result) = "final"
      /\ second.prompts = PromptCandidates(result) \cap prompts
  BY Projection
<1>3. result = ApplyOutcome(f, o) /\ answer = Render(result, second, failed)
  BY DEF PresentedAs
<1>4. /\ result.claims = f.claims /\ result.missing = f.missing
      /\ o = "final" => /\ result.status = "concluded" /\ result.action = "final_answer"
                        /\ result = f
      /\ o = "ask_user" => result.status = "need_input" /\ result.action = "ask_user"
      /\ o = "escalate" => result.status = "partial" /\ result.action = "escalate_to_human"
      /\ o = "partial" => result.status = "partial" /\ result.action = "continue_diagnosis"
  BY <1>1, <1>3, Applied
<1>5. /\ answer.decision = DecisionOf(result) /\ answer.caseStatus = CaseStatusOf(result)
      /\ failed => answer.label = "failure" /\ answer.reviewed = FALSE
      /\ ~failed => /\ (answer.label = "conclusion") <=> (second.primary # {} /\ second.outcome = "final")
                    /\ answer.reviewed \in BOOLEAN /\ (second.primary # {} => answer.reviewed)
                    /\ answer.prompts = second.prompts
  <2> HIDE DEF second, failed
  <2>1. answer = Render(result, second, failed)
    BY <1>3
  <2>2. answer.decision = DecisionOf(result) /\ answer.caseStatus = CaseStatusOf(result)
    BY <2>1, RenderDecides
  <2>3. ASSUME failed PROVE answer.label = "failure" /\ answer.reviewed = FALSE
    BY <2>1, <2>3, RenderFailed
  <2>4. ASSUME ~failed
        PROVE  /\ (answer.label = "conclusion") <=> (second.primary # {} /\ second.outcome = "final")
               /\ answer.reviewed \in BOOLEAN /\ (second.primary # {} => answer.reviewed)
               /\ answer.prompts = second.prompts
    BY <2>1, <2>4, RenderShown
  <2> QED
    BY <2>2, <2>3, <2>4
<1>6. second.prompts = first.prompts
  BY <1>1, <1>2, <1>4 DEF PromptCandidates
<1>7. OutcomeOf(result) = "final" <=> result.status = "concluded" /\ result.action = "final_answer"
  BY OutcomeCases
<1>8. o = "final" => /\ second.primary # {} /\ second.outcome = "final"
                     /\ HasPrimaryShape(result) /\ ~failed
  <2> SUFFICES ASSUME o = "final" PROVE /\ second.primary # {} /\ second.outcome = "final"
                                        /\ HasPrimaryShape(result) /\ ~failed
    OBVIOUS
  <2>1. result = f /\ f.status = "concluded" /\ second = first
    BY <1>4
  <2>2. HasPrimaryShape(result)
    BY <2>1, FinalHasShape
  <2>3. second.primary # {}
    <3>1. second.primary = f.primary
      BY <2>1, <1>1
    <3>2. f.primary = FrozenPrimary(Validated(r), rv)
      BY FrozenOutcome
    <3>3. FrozenPrimary(Validated(r), rv) # {}
      BY <2>1, FrozenFinal DEF Covered
    <3> HIDE DEF f, second
    <3> QED
      BY <3>1, <3>2, <3>3
  <2>4. ~r.failed
    BY <2>1, FrozenFinal, RequestAssumption
  <2> QED
    BY <2>1, <2>2, <2>3, <2>4 DEF WorkerFailed
<1> HIDE DEF f, first, o, second, failed
<1>9. /\ o = "ask_user" => answer.decision = "ask_user"
      /\ o = "escalate" => answer.decision = "escalate"
      /\ o = "partial" => answer.decision = "partial"
      /\ o = "final" => answer.decision = "final"
  BY <1>4, <1>5, <1>8, DecisionCases
<1>10. /\ o = "ask_user" => answer.caseStatus = "need_input"
       /\ o = "escalate" => answer.caseStatus = "partial"
       /\ o = "partial" => answer.caseStatus = "partial"
       /\ o = "final" => answer.caseStatus = "concluded"
  BY <1>4, <1>5, <1>8 DEF CaseStatusOf
<1>11. answer.reviewed \in BOOLEAN /\ (o = "final" => answer.reviewed = TRUE)
  BY <1>5, <1>8
<1>12. /\ o = "final" => answer.label = "conclusion"
       /\ o # "final" => answer.label # "conclusion"
  BY <1>1, <1>2, <1>4, <1>5, <1>7, <1>8 DEF ShownOutcomes
<1>13. o = "ask_user" => answer.prompts # {} \/ answer.label = "failure"
  BY <1>1, <1>5, <1>6
<1>14. Told(o, result, answer)
  BY <1>4, <1>9, <1>10, <1>11, <1>12, <1>13 DEF Told
<1> QED
  BY <1>1, <1>14 DEF o, first, f

\* Whatever is shown was bound, and actions are actions.
LEMMA ShownIsBound ==
  ASSUME NEW r \in Requests, NEW rv, ReviewStands(rv, r), NEW prompts, NEW result, NEW answer,
         PresentedAs(r, rv, prompts, result, answer)
  PROVE  LET st == Validated(r) IN
         /\ result.claims = st.claims /\ result.evidence = st.evidence
         /\ \A i \in answer.actions : i \in DOMAIN st.claims /\ st.claims[i].role = "next_action"
         /\ \A i \in answer.primary \cup answer.supporting \cup answer.actions :
              /\ i \in DOMAIN st.claims
              /\ Reviewer(r) => /\ rv.status = "accepted"
                                /\ \E k \in DOMAIN rv.bindings : rv.bindings[k].claim = st.claims[i].id
<1> DEFINE st == Validated(r)
           f == FrozenOf(r, rv)
           o == Project(f, rv, prompts).outcome
           second == Project(result, rv, prompts)
           failed == WorkerFailed(r, result)
<1>1. result = ApplyOutcome(f, o) /\ answer = Render(result, second, failed)
  BY DEF PresentedAs
<1>2. o \in ShownOutcomes /\ (o = "final" => OutcomeOf(f) = "final")
  BY Projection
<1>3. result.claims = f.claims /\ result.evidence = f.evidence /\ result.primary = f.primary
  BY <1>1, <1>2, Applied
<1>4. f.claims = st.claims /\ f.evidence = st.evidence /\ f.primary = FrozenPrimary(st, rv)
  BY FrozenOutcome
<1>5. /\ \A i \in second.primary : i \in result.primary \/ Bound(i, result.claims, rv)
      /\ \A i \in second.supporting : Bound(i, result.claims, rv)
      /\ \A i \in second.actions : Bound(i, result.claims, rv) /\ result.claims[i].role = "next_action"
  BY Projection
<1>6. /\ answer.primary \subseteq second.primary /\ answer.supporting \subseteq second.supporting
      /\ answer.actions \subseteq second.actions
  <2> HIDE DEF second, failed
  <2>1. answer = Render(result, second, failed)
    BY <1>1
  <2>2. ASSUME failed PROVE answer.primary = {} /\ answer.supporting = {} /\ answer.actions = {}
    BY <2>1, <2>2, RenderFailed
  <2>3. ASSUME ~failed
        PROVE  /\ answer.primary = second.primary /\ answer.supporting = second.supporting
               /\ answer.actions = second.actions
    BY <2>1, <2>3, RenderShown
  <2> QED
    BY <2>2, <2>3
<1>7. \A i \in FrozenPrimary(st, rv) :
        /\ i \in DOMAIN st.claims
        /\ Reviewer(r) => /\ rv.status = "accepted"
                          /\ \E k \in DOMAIN rv.bindings : rv.bindings[k].claim = st.claims[i].id
  BY FrozenPrimaries
<1>8. \A i : Bound(i, st.claims, rv) =>
        /\ i \in DOMAIN st.claims
        /\ Reviewer(r) => /\ rv.status = "accepted"
                          /\ \E k \in DOMAIN rv.bindings : rv.bindings[k].claim = st.claims[i].id
  BY DEF Bound, ReviewStands
<1> HIDE DEF st, f, o, second, failed
<1> QED
  BY <1>3, <1>4, <1>5, <1>6, <1>7, <1>8 DEF st

\* The contract of the review, by the outcome shown.
LEMMA ContractCases ==
  ASSUME NEW p
  PROVE  /\ p.action = "escalate_to_human" => DecisionsFor(p) = {"escalate"}
         /\ p.action = "ask_user" => DecisionsFor(p) = {"ask_user", "partial"}
         /\ p.action = "continue_diagnosis" =>
              DecisionsFor(p) = IF p.status = "need_input" THEN {"ask_user", "partial"} ELSE {"partial"}
         /\ p.action \notin {"escalate_to_human", "ask_user", "continue_diagnosis"} =>
              DecisionsFor(p) = IF p.status = "partial" THEN {"partial"} ELSE {"final", "ask_user", "partial"}
<1>1. p.action = "escalate_to_human" => DecisionsFor(p) = {"escalate"}
  BY Zenon DEF DecisionsFor
<1>2. p.action = "ask_user" => DecisionsFor(p) = {"ask_user", "partial"}
  BY Zenon DEF DecisionsFor
<1>3. p.action = "continue_diagnosis" =>
        DecisionsFor(p) = IF p.status = "need_input" THEN {"ask_user", "partial"} ELSE {"partial"}
  BY Zenon DEF DecisionsFor
<1>4. p.action # "escalate_to_human" /\ p.action # "ask_user" /\ p.action # "continue_diagnosis" =>
        DecisionsFor(p) = IF p.status = "partial" THEN {"partial"} ELSE {"final", "ask_user", "partial"}
  BY Zenon DEF DecisionsFor
<1> QED
  BY <1>1, <1>2, <1>3, <1>4

\* The status of the run, by decision.
LEMMA RunStatusCases ==
  /\ RunStatus("final") = "concluded" /\ RunStatus("ask_user") = "need_input"
  /\ RunStatus("partial") = "partial" /\ RunStatus("escalate") = "partial"
<1>1. RunStatus("final") = "concluded"
  BY Zenon DEF RunStatus
<1>2. RunStatus("ask_user") = "need_input"
  BY Zenon DEF RunStatus
<1>3. RunStatus("partial") = "partial"
  BY Zenon DEF RunStatus
<1>4. RunStatus("escalate") = "partial"
  BY Zenon DEF RunStatus
<1> QED
  BY <1>1, <1>2, <1>3, <1>4

\* Which outcomes freezing can reach, from what the producer said.
LEMMA DecisionAllowed ==
  ASSUME NEW r, NEW rv, NEW o, NEW p,
         o \in ShownOutcomes,
         o \in {"final", "ask_user"} => OutcomeOf(FrozenOf(r, rv)) = o,
         o = "escalate" <=> OutcomeOf(FrozenOf(r, rv)) = "escalate",
         p.status = r.result.status, p.action = r.result.action
  PROVE  o \in DecisionsFor(p) \cup (IF r.authority THEN {} ELSE {"escalate"})
<1> DEFINE f == FrozenOf(r, rv)
           q == FreezeOutcome(r.result, Covered(r, rv), Blockers(r, rv))
<1>1. f.status = q[1] /\ f.action = q[2] /\ q \in FrozenOutcomes
  BY FrozenOutcome
<1>2. /\ r.result.action = "escalate_to_human" => f.action = "escalate_to_human"
      /\ f.action = "escalate_to_human" =>
           r.result.action = "escalate_to_human" \/ Blockers(r, rv) \cap Severe # {}
      /\ f.status = "need_input" =>
           \/ r.result.status = "need_input" \/ r.result.action = "ask_user"
           \/ r.result.status # "partial" /\ r.result.action # "continue_diagnosis"
  BY <1>1, FreezeCases
<1>3. r.authority => Blockers(r, rv) \cap Severe = {}
  BY DEF Blockers, Severe, Validated, Structure
<1>4. OutcomeOf(f) = "escalate" <=> f.action = "escalate_to_human"
  BY OutcomeCases
<1>5. OutcomeOf(f) = "final" => f.status = "concluded"
  BY OutcomeCases
<1>6. OutcomeOf(f) = "ask_user" => f.status = "need_input"
  <2>1. /\ f.action # "escalate_to_human" /\ ~(f.status = "need_input" \/ f.action = "ask_user")
        => OutcomeOf(f) # "ask_user"
    BY Zenon DEF OutcomeOf
  <2>2. f.action = "ask_user" => f.status = "need_input"
    <3> HIDE DEF f, q
    <3>1. q[2] = "ask_user" => q = <<"need_input", "ask_user">>
      BY <1>1 DEF FrozenOutcomes
    <3> QED
      BY <1>1, <3>1
  <2> QED
    BY <2>1, <2>2, <1>4
<1>7. f.status = "concluded" =>
        /\ r.result.status # "partial"
        /\ r.result.action \notin {"ask_user", "continue_diagnosis", "escalate_to_human"}
  BY FrozenFinal
<1> HIDE DEF f, q
<1>8. CASE o = "escalate"
  BY <1>2, <1>3, <1>4, <1>8, ContractCases DEF f
<1>9. CASE o = "final"
  BY <1>5, <1>7, <1>9, ContractCases DEF f
<1>10. CASE o = "ask_user"
  <2>1. f.status = "need_input" /\ r.result.action # "escalate_to_human"
    BY <1>2, <1>4, <1>6, <1>10 DEF f
  <2> QED
    BY <2>1, <1>2, <1>10, ContractCases
<1>11. CASE o = "partial"
  <2>1. r.result.action # "escalate_to_human"
    BY <1>2, <1>4, <1>11 DEF f
  <2> QED
    BY <2>1, <1>11, ContractCases
<1> QED
  BY <1>8, <1>9, <1>10, <1>11 DEF ShownOutcomes
-----------------------------------------------------------------------------
(* The invariant of the review. *)

\* Before the reply nothing is shown and the result is the Worker's; the
\* reviewer is asked only about evidence that is vouched for; from the prompts
\* on, the review stands; and the reply, once there, is the presentation.
ReviewInv ==
  /\ request \in Requests
  /\ phase \in {"start", "coverage", "prompts", "done", "cancelled"}
  /\ phase # "done" => reply = NoReply /\ run = request.result
  /\ phase \in {"start", "coverage"} => review = NoReview
  /\ phase = "coverage" => Reviewer(request) /\ Materializes(Validated(request), request.envelopes)
  /\ phase \in {"prompts", "done"} => ReviewStands(review, request)
  /\ phase = "done" => \E prompts : PresentedAs(request, review, prompts, run, reply)

\* What ReviewInv leaves open of the other variables.
ViewTyped ==
  /\ aborted \in BOOLEAN
  /\ review \in CoverageAnswers \cup {NoReview, Unknown}

\* It holds when a review begins, and each step keeps it.
LEMMA InitReview == Init => ReviewInv /\ ViewTyped
BY DEF Init, ReviewInv, ViewTyped

LEMMA StartKeeps == ReviewInv /\ ViewTyped /\ Start => ReviewInv' /\ ViewTyped'
<1> SUFFICES ASSUME ReviewInv, ViewTyped, Start PROVE ReviewInv' /\ ViewTyped'
  OBVIOUS
<1> DEFINE st == Structure(request.result, Items)
<1>1. phase = "start" /\ UNCHANGED <<request, aborted, run, reply>>
  BY DEF Start
<1>2. CASE aborted
  <2>1. phase' = "cancelled" /\ review' = review
    BY <1>2, Zenon DEF Start
  <2> QED
    BY <1>1, <2>1 DEF ReviewInv, ViewTyped
<1>3. CASE ~aborted /\ (request.authority \/ ~request.reviewer)
  <2>1. phase' = "prompts" /\ review' = NoReview
    BY <1>3, Zenon DEF Start
  <2>2. ReviewStands(review, request)'
    BY <1>1, <1>3, <2>1 DEF ReviewStands, Reviewer, NoReview
  <2> QED
    BY <1>1, <2>1, <2>2 DEF ReviewInv, ViewTyped
<1>4. CASE ~aborted /\ ~(request.authority \/ ~request.reviewer)
  <2>1. IF Materializes(st, request.envelopes)
        THEN phase' = "coverage" /\ review' = review
        ELSE phase' = "prompts" /\ review' = Unknown
    BY <1>4, Zenon DEF Start
  <2>2. Reviewer(request)
    BY <1>4 DEF Reviewer
  <2>3. CASE Materializes(st, request.envelopes)
    BY <1>1, <2>1, <2>2, <2>3 DEF ReviewInv, ViewTyped, Validated, Reviewer
  <2>4. CASE ~Materializes(st, request.envelopes)
    <3>1. phase' = "prompts" /\ review' = Unknown
      BY <2>1, <2>4
    <3>2. ReviewStands(review, request)'
      BY <1>1, <2>2, <3>1 DEF ReviewStands, Reviewer, Unknown, NoReview
    <3> QED
      BY <1>1, <3>1, <3>2 DEF ReviewInv, ViewTyped
  <2> QED
    BY <2>3, <2>4
<1> QED
  BY <1>2, <1>3, <1>4

LEMMA CoverageKeeps ==
  ReviewInv /\ ViewTyped /\ (\E a \in CoverageAnswers : Coverage(a)) => ReviewInv' /\ ViewTyped'
<1> SUFFICES ASSUME ReviewInv, ViewTyped, NEW a \in CoverageAnswers, Coverage(a)
             PROVE  ReviewInv' /\ ViewTyped'
  OBVIOUS
<1> DEFINE st == Structure(request.result, Items)
<1>1. phase = "coverage" /\ UNCHANGED <<request, aborted, run, reply>>
  BY DEF Coverage
<1>2. CASE aborted
  BY <1>1, <1>2 DEF Coverage, ReviewInv, ViewTyped
<1>3. CASE ~aborted
  <2>1. phase' = "prompts" /\ review' = ValidateCoverage(a, st)
    BY <1>3 DEF Coverage
  <2>2. \/ review' = Unknown
        \/ /\ review' = a /\ a.status = "accepted"
           /\ \A k \in DOMAIN a.bindings : ValidBinding(a.bindings[k], st)
    BY <2>1 DEF ValidateCoverage
  <2>3. Reviewer(request) /\ Materializes(st, request.envelopes)
    BY <1>1 DEF ReviewInv, Validated
  <2>4. ReviewStands(review', request)
    <3>1. CASE review' = Unknown
      BY <2>3, <3>1 DEF ReviewStands, Unknown, NoReview
    <3>2. CASE /\ review' = a /\ a.status = "accepted"
               /\ \A k \in DOMAIN a.bindings : ValidBinding(a.bindings[k], st)
      BY <2>3, <3>2, AnswerAssumption DEF ReviewStands, Validated
    <3> QED
      BY <2>2, <3>1, <3>2
  <2> QED
    BY <1>1, <2>1, <2>2, <2>4 DEF ReviewInv, ViewTyped
<1> QED
  BY <1>2, <1>3

LEMMA PresentKeeps ==
  ASSUME ReviewInv, ViewTyped, NEW accepted, Present(accepted)
  PROVE  ReviewInv' /\ ViewTyped'
<1>1. phase = "prompts" /\ phase' = "done" /\ UNCHANGED <<request, aborted, review>>
  BY DEF Present
<1>2. Frozen = FrozenOf(request, review)
  BY DEF Frozen, FrozenOf, Validated
<1>3. PresentedAs(request, review, IF aborted THEN {} ELSE accepted, run', reply')
  BY <1>2, Zenon DEF Present, PresentedAs
<1>4. \E prompts : PresentedAs(request, review, prompts, run', reply')
  BY <1>3
<1> QED
  BY <1>1, <1>4 DEF ReviewInv, ViewTyped

LEMMA StepKeeps == ReviewInv /\ ViewTyped /\ [Next]_vars => ReviewInv' /\ ViewTyped'
<1> SUFFICES ASSUME ReviewInv, ViewTyped, [Next]_vars PROVE ReviewInv' /\ ViewTyped'
  OBVIOUS
<1>1. CASE Start
  BY <1>1, StartKeeps
<1>2. CASE \E a \in CoverageAnswers : Coverage(a)
  BY <1>2, CoverageKeeps
<1>3. CASE \E accepted \in SUBSET (IF phase = "prompts" THEN PromptCandidates(Frozen) ELSE {}) : Present(accepted)
  BY <1>3, PresentKeeps
<1>4. CASE Abort
  BY <1>4 DEF Abort, ReviewInv, ViewTyped
<1>5. CASE UNCHANGED vars
  BY <1>5 DEF vars, ReviewInv, ViewTyped
<1> QED
  BY <1>1, <1>2, <1>3, <1>4, <1>5 DEF Next

\* Between any two steps of a review, of the curation or of a person's decision,
\* the review that is kept stands and the reply is its presentation
\* (reviewAndFormat, modelDrivenPresentation).
THEOREM ReviewInvariant == CasesSpec => [](ReviewInv /\ ViewTyped)
<1>1. CasesInit => ReviewInv /\ ViewTyped
  BY InitReview DEF CasesInit
<1>2. [CasesNext]_<<vars, cardVars>> => [Next]_vars
  BY DEF CasesNext, cardVars, vars
<1>3. ReviewInv /\ ViewTyped /\ [CasesNext]_<<vars, cardVars>> => (ReviewInv /\ ViewTyped)'
  BY <1>2, StepKeeps
<1> QED
  BY <1>1, <1>3, PTL DEF CasesSpec
-----------------------------------------------------------------------------
(* What follows from it. *)

\* The statuses and actions of a run are the ones the code names.
LEMMA TypeHolds == ReviewInv /\ ViewTyped => TypeOK
<1> SUFFICES ASSUME ReviewInv, ViewTyped PROVE TypeOK
  OBVIOUS
<1>1. phase # "done" => run = request.result
  BY DEF ReviewInv
<1>2. ASSUME phase = "done" PROVE <<run.status, run.action>> \in FrozenOutcomes
  <2>1. PICK prompts : PresentedAs(request, review, prompts, run, reply)
    BY <1>2 DEF ReviewInv
  <2> DEFINE o == Project(FrozenOf(request, review), review, prompts).outcome
  <2>2. run = ApplyOutcome(FrozenOf(request, review), o)
    BY <2>1 DEF PresentedAs
  <2>3. o \in ShownOutcomes /\ (o = "final" => OutcomeOf(FrozenOf(request, review)) = "final")
    BY Projection
  <2> HIDE DEF o
  <2>4. /\ o = "final" => run.status = "concluded" /\ run.action = "final_answer"
        /\ o = "ask_user" => run.status = "need_input" /\ run.action = "ask_user"
        /\ o = "escalate" => run.status = "partial" /\ run.action = "escalate_to_human"
        /\ o = "partial" => run.status = "partial" /\ run.action = "continue_diagnosis"
    BY <2>2, <2>3, Applied
  <2> QED
    BY <2>3, <2>4 DEF ShownOutcomes, FrozenOutcomes
<1> QED
  BY <1>1, <1>2 DEF TypeOK, ReviewInv, ViewTyped, FrozenOutcomes

\* Decision, status and label, from what the outcome tells.
LEMMA ReplyHolds == ReviewInv => ReplyAgrees
<1> SUFFICES ASSUME ReviewInv, phase = "done"
             PROVE  /\ (reply.decision = "final") <=> (reply.caseStatus = "concluded")
                    /\ (reply.decision = "final") <=> (reply.label = "conclusion")
                    /\ (reply.decision = "ask_user") <=> (reply.caseStatus = "need_input")
                    /\ reply.decision = "ask_user" => reply.prompts # {} \/ reply.label = "failure"
  BY DEF ReplyAgrees
<1>1. PICK prompts : PresentedAs(request, review, prompts, run, reply)
  BY DEF ReviewInv
<1>2. PICK o \in ShownOutcomes : Told(o, run, reply)
  BY <1>1, ToldByOutcome DEF ReviewInv
<1> QED
  BY <1>2 DEF Told, ShownOutcomes

\* The outcome is one of those the contract allows for the Worker's result.
LEMMA ContractHolds == ReviewInv => KeepsContract
<1> SUFFICES ASSUME ReviewInv, phase = "done"
             PROVE  LET p == [status |-> request.result.status, action |-> request.result.action,
                              authority |-> request.authority, failed |-> WorkerFailed(request, run)]
                    IN /\ [decision |-> reply.decision, reviewed |-> reply.reviewed] \in Outcomes(p)
                       /\ run.status = RunStatus(reply.decision)
  BY DEF KeepsContract
<1> DEFINE p == [status |-> request.result.status, action |-> request.result.action,
                 authority |-> request.authority, failed |-> WorkerFailed(request, run)]
           f == FrozenOf(request, review)
<1>1. PICK prompts : PresentedAs(request, review, prompts, run, reply)
  BY DEF ReviewInv
<1> DEFINE o == Project(f, review, prompts).outcome
<1>2. o \in ShownOutcomes /\ Told(o, run, reply)
  BY <1>1, ToldByOutcome DEF ReviewInv
<1>3. o \in DecisionsFor(p) \cup (IF request.authority THEN {} ELSE {"escalate"})
  <2>1. /\ o \in {"final", "ask_user"} => OutcomeOf(f) = o
        /\ o = "escalate" <=> OutcomeOf(f) = "escalate"
    BY Projection
  <2>2. p.status = request.result.status /\ p.action = request.result.action
    OBVIOUS
  <2> HIDE DEF p, o
  <2> QED
    BY <1>2, <2>1, <2>2, DecisionAllowed DEF f
<1>4. reply.decision = o /\ reply.reviewed \in BOOLEAN /\ (o = "final" => reply.reviewed)
      /\ run.status = RunStatus(o)
  <2> HIDE DEF o
  <2> QED
    BY <1>2, RunStatusCases DEF Told, ShownOutcomes
<1>5. p.failed => reply.reviewed = FALSE
  <2>1. reply = Render(run, Project(run, review, prompts), WorkerFailed(request, run))
    BY <1>1 DEF PresentedAs
  <2>2. p.failed = WorkerFailed(request, run)
    OBVIOUS
  <2>3. ASSUME WorkerFailed(request, run) PROVE reply.reviewed = FALSE
    BY <2>1, <2>3, RenderFailed
  <2> HIDE DEF p
  <2> QED
    BY <2>2, <2>3
<1>6. p.authority = request.authority
  OBVIOUS
<1>7. [decision |-> reply.decision, reviewed |-> reply.reviewed] \in Outcomes(p)
  <2> HIDE DEF p, o
  <2> QED
    BY <1>3, <1>4, <1>5, <1>6 DEF Outcomes
<1> QED
  BY <1>4, <1>7

\* What is shown was bound, by evidence that is vouched for.
LEMMA ShownHolds == ASSUME ActionsAreProposed PROVE ReviewInv => ShownIsReviewed
<1> SUFFICES ASSUME ReviewInv, phase = "done"
             PROVE  /\ \A i \in reply.actions : Proposed(run.claims[i])
                    /\ Reviewer(request) =>
                         \A i \in reply.primary \cup reply.supporting \cup reply.actions :
                           /\ review.status = "accepted"
                           /\ \E k \in DOMAIN review.bindings :
                                review.bindings[k].claim = run.claims[i].id
                                /\ review.bindings[k].evidence \subseteq run.claims[i].evidence
                           /\ \A j \in DOMAIN run.evidence :
                                run.evidence[j].id \in run.claims[i].evidence =>
                                  Vouched(run.evidence[j], request.envelopes)
  BY DEF ShownIsReviewed, Reviewer
<1> DEFINE st == Validated(request)
<1>1. PICK prompts : PresentedAs(request, review, prompts, run, reply)
  BY DEF ReviewInv
<1>2. request \in Requests /\ ReviewStands(review, request)
  BY DEF ReviewInv
<1>3. /\ run.claims = st.claims /\ run.evidence = st.evidence
      /\ \A i \in reply.actions : i \in DOMAIN st.claims /\ st.claims[i].role = "next_action"
      /\ \A i \in reply.primary \cup reply.supporting \cup reply.actions :
           /\ i \in DOMAIN st.claims
           /\ Reviewer(request) =>
                /\ review.status = "accepted"
                /\ \E k \in DOMAIN review.bindings : review.bindings[k].claim = st.claims[i].id
  BY <1>1, <1>2, ShownIsBound
<1>4. ASSUME NEW i \in reply.actions PROVE Proposed(run.claims[i])
  <2>1. /\ i \in DOMAIN request.result.claims /\ st.claims[i] = request.result.claims[i]
    BY <1>2, <1>3, KeptClaims
  <2> HIDE DEF st
  <2> QED
    BY <1>2, <1>3, <2>1 DEF ActionsAreProposed
<1>5. ASSUME Reviewer(request), NEW i \in reply.primary \cup reply.supporting \cup reply.actions
      PROVE  /\ review.status = "accepted"
             /\ \E k \in DOMAIN review.bindings :
                  review.bindings[k].claim = run.claims[i].id
                  /\ review.bindings[k].evidence \subseteq run.claims[i].evidence
             /\ \A j \in DOMAIN run.evidence :
                  run.evidence[j].id \in run.claims[i].evidence => Vouched(run.evidence[j], request.envelopes)
  <2>1. PICK k \in DOMAIN review.bindings : review.bindings[k].claim = st.claims[i].id
    BY <1>3, <1>5
  <2>2. i \in DOMAIN st.claims /\ review.status = "accepted"
    BY <1>3, <1>5
  <2>3. /\ review.bindings[k].evidence \subseteq st.claims[i].evidence
        /\ \A j \in DOMAIN st.evidence :
             st.evidence[j].id \in st.claims[i].evidence => Vouched(st.evidence[j], request.envelopes)
    BY <1>2, <1>5, <2>1, <2>2, BindingIsSound
  <2> HIDE DEF st
  <2> QED
    BY <1>3, <2>1, <2>2, <2>3
<1> QED
  BY <1>4, <1>5

\* Every item is answered by a primary claim that is bound to it.
LEMMA ItemsAreProven ==
  ASSUME NEW r \in Requests, NEW rv, ReviewStands(rv, r), Covered(r, rv), NEW item \in Items
  PROVE  LET st == Validated(r) IN
         \E i \in FrozenPrimary(st, rv) :
           /\ item \in st.claims[i].answers
           /\ Reviewer(r) =>
                \E k \in DOMAIN rv.bindings :
                  /\ rv.bindings[k].claim = st.claims[i].id /\ item \in rv.bindings[k].items
                  /\ \A j \in DOMAIN st.evidence :
                       st.evidence[j].id \in rv.bindings[k].evidence => Vouched(st.evidence[j], r.envelopes)
<1> DEFINE st == Validated(r)
<1>1. CASE ~Reviewer(r)
  <2>1. Items \subseteq UNION {st.claims[i].answers : i \in FrozenPrimary(st, rv)}
    BY DEF Covered
  <2> HIDE DEF st
  <2> QED
    BY <1>1, <2>1 DEF st
<1>2. CASE Reviewer(r)
  <2>1. FrozenPrimary(st, rv) = SelectFrozenPrimary(st.claims, rv) /\ FrozenPrimary(st, rv) # {}
    BY <1>2 DEF FrozenPrimary, ReviewStands, Covered
  <2>2. DOMAIN st.claims \subseteq Nat
    BY KeptClaims
  <2>3. PICK i \in SelectFrozenPrimary(st.claims, rv) : item \in Binding(rv, st.claims[i].id).items
    BY <2>1, <2>2, PrimaryCovers
  <2>4. /\ rv.status = "accepted" /\ i \in DOMAIN st.claims
        /\ \E k \in DOMAIN rv.bindings : rv.bindings[k].claim = st.claims[i].id
    BY <2>3, PrimaryIsBound
  <2>5. Len(rv.bindings) \in Nat /\ DOMAIN rv.bindings = 1 .. Len(rv.bindings)
    BY <1>2, <2>4 DEF ReviewStands
  <2>6. PICK k \in DOMAIN rv.bindings :
          rv.bindings[k].claim = st.claims[i].id /\ Binding(rv, st.claims[i].id) = rv.bindings[k]
    BY <2>4, <2>5, LastBinding
  <2>7. /\ rv.bindings[k].items \subseteq st.claims[i].answers
        /\ rv.bindings[k].evidence \subseteq st.claims[i].evidence
        /\ \A j \in DOMAIN st.evidence :
             st.evidence[j].id \in st.claims[i].evidence => Vouched(st.evidence[j], r.envelopes)
    BY <1>2, <2>4, <2>6, BindingIsSound
  <2> HIDE DEF st
  <2> QED
    BY <2>1, <2>3, <2>6, <2>7 DEF st
<1> QED
  BY <1>1, <1>2

\* A final decision was frozen as one.
LEMMA FinalHolds == ReviewInv => FinalIsProven
<1> SUFFICES ASSUME ReviewInv, reply.decision = "final"
             PROVE
    /\ request.result.status \notin {"partial", "need_input"}
    /\ request.result.action \notin {"ask_user", "continue_diagnosis", "escalate_to_human"}
    /\ Validated(request).blockers = {}
    /\ ~request.authority => request.upstream = {}
    /\ \A item \in Items : \E i \in reply.primary :
         /\ item \in run.claims[i].answers /\ run.claims[i].role = "primary_answer"
         /\ Supported(run.claims[i], run.evidence)
         /\ Reviewer(request) =>
              \E k \in DOMAIN review.bindings :
                /\ review.bindings[k].claim = run.claims[i].id /\ item \in review.bindings[k].items
                /\ \A j \in DOMAIN run.evidence :
                     run.evidence[j].id \in review.bindings[k].evidence =>
                       Vouched(run.evidence[j], request.envelopes)
  BY DEF FinalIsProven, Validated, Reviewer
<1> DEFINE st == Validated(request)
           f == FrozenOf(request, review)
<1>1. phase = "done" /\ request \in Requests /\ ReviewStands(review, request)
  BY DEF ReviewInv, NoReply
<1>2. PICK prompts : PresentedAs(request, review, prompts, run, reply)
  BY <1>1 DEF ReviewInv
<1> DEFINE first == Project(f, review, prompts)
           o == first.outcome
<1>3. o \in ShownOutcomes /\ Told(o, run, reply)
  BY <1>1, <1>2, ToldByOutcome
<1>4. o = "final" /\ reply.label = "conclusion"
  <2> HIDE DEF o
  <2> QED
    BY <1>3 DEF Told, ShownOutcomes
<1>5. run = ApplyOutcome(f, o) /\ reply = Render(run, Project(run, review, prompts), WorkerFailed(request, run))
  BY <1>2 DEF PresentedAs
<1>6. OutcomeOf(f) = "final" /\ first.primary = f.primary
  BY <1>4, Projection
<1>7. run = f /\ f.status = "concluded"
  <2> HIDE DEF o
  <2> QED
    BY <1>3, <1>4, <1>5, <1>6, Applied
<1>8. f.claims = st.claims /\ f.evidence = st.evidence /\ f.primary = FrozenPrimary(st, review)
  BY FrozenOutcome
<1>9. /\ request.result.status \notin {"partial", "need_input"}
      /\ request.result.action \notin {"ask_user", "continue_diagnosis", "escalate_to_human"}
      /\ st.blockers = {}
      /\ ~request.authority => request.upstream = {}
      /\ Covered(request, review)
  BY <1>7, FrozenFinal
<1>10. reply.primary = FrozenPrimary(st, review)
  <2>1. ~WorkerFailed(request, run)
    BY <1>4, <1>5, RenderFailed
  <2>2. reply.primary = Project(run, review, prompts).primary
    BY <1>5, <2>1, RenderShown
  <2> QED
    BY <1>6, <1>7, <1>8, <2>2
<1>11. \A i \in FrozenPrimary(st, review) :
         st.claims[i].role = "primary_answer" /\ Supported(st.claims[i], st.evidence)
  BY <1>1, FrozenPrimaries
<1>12. ASSUME NEW item \in Items
       PROVE  \E i \in FrozenPrimary(st, review) :
                /\ item \in st.claims[i].answers
                /\ Reviewer(request) =>
                     \E k \in DOMAIN review.bindings :
                       /\ review.bindings[k].claim = st.claims[i].id /\ item \in review.bindings[k].items
                       /\ \A j \in DOMAIN st.evidence :
                            st.evidence[j].id \in review.bindings[k].evidence =>
                              Vouched(st.evidence[j], request.envelopes)
  BY <1>1, <1>9, ItemsAreProven
<1>13. run.claims = st.claims /\ run.evidence = st.evidence
  BY <1>7, <1>8
<1> HIDE DEF st, f, first, o
<1> QED
  BY <1>9, <1>10, <1>11, <1>12, <1>13 DEF st
-----------------------------------------------------------------------------
(* The cards. *)

\* A path and a card are what the code writes.
IsPath(path) == \E folder, module, name : path = Path(folder, module, name)
IsCard(card) ==
  \E type, status, verdict, facts, text :
    card = [type |-> type, status |-> status, review |-> verdict, facts |-> facts, text |-> text]

\* What ActiveCardWasAccepted says of one card.
Earned(path, card, accepted) ==
  /\ card.type = TypeFor(path.folder)
  /\ card.status = "active" =>
       <<card.text, IF path.folder = Solved THEN "approve" ELSE "convert_to_unresolved">> \in accepted

\* Every card lies where its type belongs and, if active, with a text some person
\* accepted for that place.
CardsInv ==
  /\ cards = [path \in DOMAIN cards |-> cards[path]]
  /\ \A path \in DOMAIN cards :
       IsPath(path) /\ IsCard(cards[path]) /\ Earned(path, cards[path], decided)

\* Writing a card that is earned keeps the invariant.
LEMMA PutKeeps ==
  ASSUME CardsInv, NEW target, NEW card, NEW files,
         IsPath(target), IsCard(card), Earned(target, card, decided'),
         DOMAIN files \subseteq DOMAIN cards, \A p \in DOMAIN files : files[p] = cards[p],
         cards' = Put(target, card, files), decided \subseteq decided'
  PROVE  CardsInv'
<1>1. cards' = [p \in {target} \cup DOMAIN files |-> IF p = target THEN card ELSE files[p]]
  BY DEF Put
<1>2. DOMAIN cards' = {target} \cup DOMAIN files
  BY <1>1
<1>3. cards' = [p \in DOMAIN cards' |-> cards'[p]]
  BY <1>1
<1>4. ASSUME NEW path \in DOMAIN cards'
      PROVE  IsPath(path) /\ IsCard(cards'[path]) /\ Earned(path, cards'[path], decided')
  <2>1. CASE path = target
    BY <1>1, <1>2, <2>1
  <2>2. CASE path # target
    <3>1. path \in DOMAIN cards /\ cards'[path] = cards[path]
      BY <1>1, <1>2, <2>2
    <3>2. IsPath(path) /\ IsCard(cards[path]) /\ Earned(path, cards[path], decided)
      BY <3>1 DEF CardsInv
    <3> QED
      BY <3>1, <3>2 DEF Earned
  <2> QED
    BY <2>1, <2>2
<1> QED
  BY <1>3, <1>4 DEF CardsInv

\* A card written by the curation or the import waits for a review and
\* keeps nothing of the one it replaces.
LEMMA WrittenKeeps ==
  ASSUME CardsInv, NEW folder, NEW module, NEW name, NEW facts,
         cards' = Written(Path(folder, module, name), NewCard(folder, facts)), decided' = decided
  PROVE  CardsInv'
<1> DEFINE target == Path(folder, module, name)
           card == NewCard(folder, facts)
<1>1. IsPath(target)
  BY DEF IsPath
<1>2. card = [type |-> TypeFor(folder), status |-> "review_required", review |-> "none",
              facts |-> facts, text |-> commands]
  BY DEF NewCard
<1>3. IsCard(card)
  BY <1>2 DEF IsCard
<1>4. Earned(target, card, decided')
  <2>1. target.folder = folder
    BY DEF Path
  <2> HIDE DEF target, card
  <2> QED
    BY <1>2, <2>1 DEF Earned
<1>5. cards' = Put(target, card, cards)
  BY DEF Written
<1> HIDE DEF target, card
<1> QED
  BY <1>1, <1>3, <1>4, <1>5, PutKeeps

\* A judged card keeps its text, which is the one that is accepted.
LEMMA JudgedKeeps ==
  ASSUME CardsInv, NEW path \in DOMAIN cards, path.folder = Solved,
         NEW status, NEW verdict,
         cards' = [cards EXCEPT ![path] = Judged(path, status, verdict)],
         decided \subseteq decided',
         status = "active" => <<cards[path].text, "approve">> \in decided'
  PROVE  CardsInv'
<1> DEFINE card == Judged(path, status, verdict)
<1>1. PICK ty, st, ve, fa, te :
        cards[path] = [type |-> ty, status |-> st, review |-> ve, facts |-> fa, text |-> te]
  BY DEF CardsInv, IsCard
<1>2. card = [[type |-> ty, status |-> st, review |-> ve, facts |-> fa, text |-> te]
              EXCEPT !.status = status, !.type = "solved_case", !.review = verdict]
  BY <1>1, Zenon DEF Judged
<1>3. card = [type |-> "solved_case", status |-> status, review |-> verdict, facts |-> fa, text |-> te]
  <2> HIDE DEF card
  <2> QED
    BY <1>2
<1> HIDE DEF card
<1>4. IsCard(card)
  BY <1>3 DEF IsCard
<1>5. IsPath(path)
  BY DEF CardsInv
<1>6. card.type = "solved_case" /\ card.status = status /\ card.text = cards[path].text
  BY <1>1, <1>3
<1>7. Earned(path, card, decided')
  BY <1>6 DEF Earned, TypeFor
<1>8. cards' = [cards EXCEPT ![path] = card]
  BY DEF card
<1>9. cards' = Put(path, card, cards)
  <2>1. {path} \cup DOMAIN cards = DOMAIN cards
    OBVIOUS
  <2> QED
    BY <1>8, <2>1, Zenon DEF Put
<1> QED
  BY <1>4, <1>5, <1>7, <1>9, PutKeeps

\* A converted card is accepted for the folder it goes to, whether or not the
\* old file is removed.
LEMMA ConvertKeeps ==
  ASSUME CardsInv, NEW path, NEW removed, NEW alive, Convert(path, removed, alive)
  PROVE  CardsInv'
<1> DEFINE target == [path EXCEPT !.folder = Unresolved]
           card == [cards[path] EXCEPT !.type = "unresolved_case", !.status = "active", !.review = "pending"]
<1>1. /\ path \in DOMAIN cards
      /\ decided' = decided \cup {<<cards[path].text, "convert_to_unresolved">>}
      /\ cards' = IF removed THEN Put(target, card, Without(path, cards)) ELSE Put(target, card, cards)
  BY DEF Convert, Converted, Reviewable, Decide
<1>2. PICK fo, mo, na : path = Path(fo, mo, na)
  BY <1>1 DEF CardsInv, IsPath
<1>3. target = Path(Unresolved, mo, na)
  BY <1>2 DEF Path
<1>4. PICK ty, st, ve, fa, te :
        cards[path] = [type |-> ty, status |-> st, review |-> ve, facts |-> fa, text |-> te]
  BY <1>1 DEF CardsInv, IsCard
<1>5. card = [type |-> "unresolved_case", status |-> "active", review |-> "pending",
              facts |-> fa, text |-> te]
  <2>1. card = [[type |-> ty, status |-> st, review |-> ve, facts |-> fa, text |-> te]
                EXCEPT !.type = "unresolved_case", !.status = "active", !.review = "pending"]
    BY <1>4, Zenon
  <2> HIDE DEF card
  <2> QED
    BY <2>1
<1>6. IsPath(target) /\ target.folder = Unresolved
  BY <1>3 DEF IsPath, Path
<1> HIDE DEF target, card
<1>7. IsCard(card)
  BY <1>5 DEF IsCard
<1>8. card.type = "unresolved_case" /\ card.text = cards[path].text
  BY <1>4, <1>5
<1>9. Earned(target, card, decided')
  BY <1>1, <1>6, <1>8 DEF Earned, TypeFor, Solved, Unresolved
<1>10. /\ DOMAIN Without(path, cards) \subseteq DOMAIN cards
       /\ \A p \in DOMAIN Without(path, cards) : Without(path, cards)[p] = cards[p]
  BY DEF Without
<1>11. decided \subseteq decided'
  BY <1>1
<1>12. CASE removed
  <2>1. cards' = Put(target, card, Without(path, cards))
    BY <1>1, <1>12
  <2> QED
    BY <1>6, <1>7, <1>9, <1>10, <1>11, <2>1, PutKeeps
<1>13. CASE ~removed
  <2>1. cards' = Put(target, card, cards)
    BY <1>1, <1>13
  <2> QED
    BY <1>6, <1>7, <1>9, <1>11, <2>1, PutKeeps
<1> QED
  BY <1>12, <1>13

\* Each step keeps the invariant.
LEMMA CardsStepKeeps == CardsInv /\ CardsNext => CardsInv'
<1> SUFFICES ASSUME CardsInv, NEW alive \in BOOLEAN,
                    \/ \E day \in Days : Curate(day, alive)
                    \/ \E closed, resolution \in BOOLEAN, module \in IssueModules :
                         ImportIssue(closed, resolution, module, alive)
                    \/ \E path \in Reviewable :
                         \/ Approve(path, alive)
                         \/ \E verdict \in {"rejected", "pending"} : SendBack(path, verdict, alive)
                         \/ \E removed \in BOOLEAN : Convert(path, removed, alive)
                    \/ Reindex
             PROVE  CardsInv'
  BY DEF CardsNext
<1>1. ASSUME NEW day \in Days, Curate(day, alive) PROVE CardsInv'
  <2>1. PICK facts : cards' = Written(Path(Solved, CaseModule, day), NewCard(Solved, facts))
    BY <1>1, Zenon DEF Curate
  <2>2. decided' = decided
    BY <1>1 DEF Curate
  <2> QED
    BY <2>1, <2>2, WrittenKeeps
<1>2. ASSUME NEW closed \in BOOLEAN, NEW resolution \in BOOLEAN, NEW module \in IssueModules,
             ImportIssue(closed, resolution, module, alive)
      PROVE  CardsInv'
  <2>1. PICK folder : cards' = Written(Path(folder, module, Issue), NewCard(folder, {}))
    BY <1>2, Zenon DEF ImportIssue
  <2>2. decided' = decided
    BY <1>2 DEF ImportIssue
  <2> QED
    BY <2>1, <2>2, WrittenKeeps
<1>3. ASSUME NEW path \in Reviewable, Approve(path, alive) PROVE CardsInv'
  <2>1. path \in DOMAIN cards /\ path.folder = Solved
    BY DEF Reviewable
  <2>2. /\ cards' = [cards EXCEPT ![path] = Judged(path, "active", "approved")]
        /\ decided' = decided \cup {<<cards[path].text, "approve">>}
    BY <1>3, Zenon DEF Approve, Decide
  <2>3. decided \subseteq decided' /\ <<cards[path].text, "approve">> \in decided'
    BY <2>2
  <2> QED
    BY <2>1, <2>2, <2>3, JudgedKeeps
<1>4. ASSUME NEW path \in Reviewable, NEW verdict, SendBack(path, verdict, alive) PROVE CardsInv'
  <2>1. path \in DOMAIN cards /\ path.folder = Solved
    BY DEF Reviewable
  <2>2. /\ cards' = [cards EXCEPT ![path] = Judged(path, "review_required", verdict)]
        /\ decided' = decided
    BY <1>4, Zenon DEF SendBack
  <2> QED
    BY <2>1, <2>2, JudgedKeeps
<1>5. CASE Reindex
  BY <1>5 DEF Reindex, CardsInv
<1> QED
  BY <1>1, <1>2, <1>3, <1>4, <1>5, ConvertKeeps
-----------------------------------------------------------------------------
(* The theorems. *)

\* Every card lies where its type belongs, with a text accepted for that place
\* if it is active (curateSolvedCase, importRedmineIssueFixture, applyReviewAction).
THEOREM CardsInvariant == CasesSpec => []CardsInv
<1>1. CasesInit => CardsInv
  BY DEF CasesInit, CardsInit, CardsInv
<1>2. CardsInv /\ [CasesNext]_<<vars, cardVars>> => CardsInv'
  <2>1. CardsInv /\ UNCHANGED cardVars => CardsInv'
    BY DEF cardVars, CardsInv
  <2> QED
    BY <2>1, CardsStepKeeps DEF CasesNext
<1> QED
  BY <1>1, <1>2, PTL DEF CasesSpec

\* Every variable of the review has its type in every state.
THEOREM TypeCorrect == CasesSpec => []TypeOK
BY ReviewInvariant, TypeHolds, PTL

\* A final answer was held back neither by its producer nor by a blocker, and
\* every item of the question is answered by a supported primary claim that the
\* reviewer, if there is one, bound to the item by evidence of a complete
\* envelope (freezeReviewedDiagnosticResult, selectFrozenPrimaryClaimIds,
\* freezeReviewOutcome).
THEOREM FinalAnswersAreProven == CasesSpec => []FinalIsProven
BY ReviewInvariant, FinalHolds, PTL

\* Decision, status of the case and label of a reply agree, and a question to
\* the user comes with something to answer (renderSafeFrozenAnswer,
\* decisionFromDiagnosticResult, caseStatusFromDiagnosticResult).
THEOREM RepliesAgree == CasesSpec => []ReplyAgrees
BY ReviewInvariant, ReplyHolds, PTL

\* With a reviewer nothing is shown that it did not bind to vouched evidence of
\* the claim (buildSafeFrozenAnswerProjection, reviewedBindingClaimIds); and as
\* long as the results that come in hold proposals only, so does every reply,
\* also one that was not reviewed.
THEOREM OnlyReviewedIsShown == ASSUME ActionsAreProposed PROVE CasesSpec => []ShownIsReviewed
BY ReviewInvariant, ShownHolds, PTL

\* The review gives the turn one of the outcomes the turn's model assumes of it,
\* with the status of the run that goes with the decision.
THEOREM ContractIsKept == CasesSpec => []KeepsContract
BY ReviewInvariant, ContractHolds, PTL

\* A card is active only with a text a person accepted: as a solved case, or as
\* an unresolved one, in the folder of that kind (applyReviewAction).
THEOREM CardsAreAccepted == CasesSpec => []ActiveCardWasAccepted
<1>1. CardsInv => ActiveCardWasAccepted
  BY DEF CardsInv, Earned, ActiveCardWasAccepted
<1> QED
  BY <1>1, CardsInvariant, PTL
=============================================================================
