------------------------- MODULE KnowledgeIndexProofs -------------------------
(***************************************************************************)
(* Proofs about the knowledge base: how a source file becomes documents,   *)
(* for any file; how the generations of their index are published, for any *)
(* processes and generations and any number of crashes; and what a search  *)
(* makes of them, for any chunks, providers and limits.                    *)
(*                                                                         *)
(* Exclusion.  Who writes has left its mark in the lock, or has just made  *)
(* it (LockHeld); who clears a lock has seen a dead owner in it            *)
(* (SweepsDeadLock), and while it is the only recovery nobody can take the *)
(* lock from under it.                                                     *)
(*                                                                         *)
(* Publication.  A generation that is complete stays so: only its builder  *)
(* renames onto it (FreshHeld), and only before that.  What a pointer, a   *)
(* manifest or a process names was complete when it was named              *)
(* (NamedAreComplete).                                                     *)
(*                                                                         *)
(* Vectors.  What a rebuild has embedded and what it has left make up what *)
(* is eligible (BuildCounts): an answer the provider adapter accepts gives *)
(* every input of its batch one vector (AcceptedIsWhole).                  *)
(*                                                                         *)
(* Search.  What is recalled is of the generation the search began with,   *)
(* and generations only ever join the others (SearchInv).  Fusion, the     *)
(* choice of a candidate a document and rerank are then a matter of lists  *)
(* and orders, whatever the rankings and the response (RankingInv).        *)
(*                                                                         *)
(* Documents.  A slice is a stretch of the kept blocks, from one place     *)
(* where a part begins to the next (SlicesDivide), so slicing neither      *)
(* loses nor repeats any (SlicesTell).  From then on the drafts keep their *)
(* numbers, a plan names drafts there are, and what a merge archives is    *)
(* carried by its neighbour (CarryInv).  Whoever writes a new document     *)
(* leaves the index marked, or a rebuild that was overtaken (FreshInv).    *)
(***************************************************************************)
EXTENDS KnowledgeGenerations, KnowledgeSearch, KnowledgeDocuments, FiniteSetTheorems, SequenceTheorems, TLAPS

OneRecovery == \A p, q \in Proc : Recovering(p) /\ Recovering(q) => p = q
OnlyLivingWork == \A p \in Proc : pc[p] # "idle" => p \in alive

LockHeld ==
  \A p \in Proc : Writing(p) =>
    /\ lock # None
    /\ lock.owner = IF pc[p] \in {"locking", "switching"} THEN None ELSE p

SweepsDeadLock ==
  \A p \in Proc : pc[p] \in {"cleaning", "releasing"} =>
    lock # None /\ lock.owner # None /\ lock.owner \notin alive

ExclusionInv ==
  TypeOK /\ OneRecovery /\ OnlyLivingWork /\ LockHeld /\ SweepsDeadLock /\ OneWriter

\* A publisher that has not renamed its generation yet.
Building(p) == pc[p] \in {"prepared", "locking", "checking", "drafting", "writing", "renaming"}

FreshHeld ==
  \A p \in Proc : Building(p) =>
    /\ gen[p] \in Gen /\ final[gen[p]] = "absent"
    /\ \A q \in Proc : q # p => gen[q] # gen[p]

DraftIsWhole ==
  \A p \in Proc :
    /\ pc[p] = "writing" => draft[gen[p]] = "partial"
    /\ pc[p] = "renaming" => draft[gen[p]] = "complete"
    /\ pc[p] \in {"rechecking", "activating"} => final[gen[p]] = "complete"

Complete(g) == g # None => final[g] = "complete"

NamedAreComplete ==
  /\ Complete(active)
  /\ \A g \in Gen : Complete(previous[g])
  /\ \A p \in Proc : Complete(expected[p])

ExpectsActive == \A p \in Proc : pc[p] = "activating" => expected[p] = active

IInv == ExclusionInv /\ FreshHeld /\ DraftIsWhole /\ NamedAreComplete /\ ExpectsActive

-----------------------------------------------------------------------------
(* The types. *)

LEMMA ReadActiveTyped == TypeOK => ReadActive \in Gen \cup {None}
BY DEF TypeOK, ReadActive

LEMMA TypeInit == Init => TypeOK
BY GenerationAssumption DEF Init, TypeOK, Content, Stage

LEMMA TypePublish == ASSUME TypeOK, NEW p \in Proc, Publish(p) PROVE TypeOK'
<1> USE GenerationAssumption DEF TypeOK, Content, Stage, At, Goto, Recovering
<1>1. CASE Prepare(p)
  BY <1>1, ReadActiveTyped DEF Prepare, Fresh
<1>2. CASE MakeLock(p)
  BY <1>2 DEF MakeLock, Lock
<1>3. CASE OwnLock(p)
  BY <1>3 DEF OwnLock, Lock
<1>4. CASE CheckActive(p)
  BY <1>4 DEF CheckActive
<1>5. CASE MakeDraft(p)
  BY <1>5 DEF MakeDraft
<1>6. CASE WriteDraft(p)
  BY <1>6 DEF WriteDraft
<1>7. CASE RenameDraft(p)
  BY <1>7 DEF RenameDraft
<1>8. CASE RecheckActive(p)
  BY <1>8 DEF RecheckActive
<1>9. CASE Activate(p)
  BY <1>9 DEF Activate
<1>10. CASE Discard(p)
  BY <1>10 DEF Discard
<1>11. CASE Unlock(p)
  BY <1>11 DEF Unlock
<1> QED BY <1>1, <1>2, <1>3, <1>4, <1>5, <1>6, <1>7, <1>8, <1>9, <1>10, <1>11 DEF Publish

LEMMA TypeOthers ==
  ASSUME TypeOK, NEW p \in Proc, Rollback(p) \/ Restore(p) \/ Crash(p)
  PROVE  TypeOK'
<1> USE GenerationAssumption DEF TypeOK, Content, Stage, At, Goto, Recovering
<1>1. CASE Choose(p)
  BY <1>1, ReadActiveTyped DEF Choose
<1>2. CASE VerifyTarget(p)
  BY <1>2 DEF VerifyTarget
<1>3. CASE Recover(p)
  BY <1>3 DEF Recover
<1>4. CASE Inspect(p)
  BY <1>4 DEF Inspect
<1>5. CASE Tear(p)
  BY <1>5 DEF Tear
<1>6. CASE Clean(p)
  BY <1>6 DEF Clean
<1>7. CASE ClearLock(p)
  BY <1>7 DEF ClearLock
<1>8. CASE Crash(p)
  BY <1>8 DEF Crash
<1> QED BY <1>1, <1>2, <1>3, <1>4, <1>5, <1>6, <1>7, <1>8 DEF Rollback, Restore

LEMMA TypeStep == TypeOK /\ [Next]_vars => TypeOK'
<1> SUFFICES ASSUME TypeOK, [Next]_vars PROVE TypeOK'
  OBVIOUS
<1>1. ASSUME NEW p \in Proc, Publish(p) \/ Rollback(p) \/ Restore(p) \/ Crash(p) PROVE TypeOK'
  BY <1>1, TypePublish, TypeOthers
<1>2. CASE GrowOld
  BY <1>2 DEF GrowOld, Lock, local, TypeOK, Recovering
<1>3. CASE UNCHANGED vars
  BY <1>3 DEF vars, local, TypeOK, Recovering
<1> QED BY <1>1, <1>2, <1>3 DEF Next

\* Every variable keeps to its values.
THEOREM TypeCorrect == Spec => []TypeOK
BY TypeInit, TypeStep, PTL DEF Spec

-----------------------------------------------------------------------------
(* Exclusion. *)

LEMMA ExclusionInit == Init => ExclusionInv
BY TypeInit DEF Init, ExclusionInv, OneRecovery, OnlyLivingWork, LockHeld, SweepsDeadLock,
  OneWriter, Recovering, Writing

\* A lock directory is a lock directory, whoever it names.
LEMMA LockIsThere ==
  ASSUME NEW owner \in Proc \cup {None}, NEW e \in Gen \cup {None}
  PROVE  LET made == [owner |-> owner, expected |-> e, old |-> FALSE]
         IN  made # None /\ made.owner = owner
<1> DEFINE made == [owner |-> owner, expected |-> e, old |-> FALSE]
<1>1. made \in Lock
  BY DEF Lock
<1>2. made # None
  BY <1>1, GenerationAssumption
<1> QED BY <1>2

LEMMA ExclusionPublish ==
  ASSUME ExclusionInv, TypeOK', NEW p \in Proc, Publish(p) PROVE ExclusionInv'
<1> USE DEF ExclusionInv, TypeOK, OneRecovery, OnlyLivingWork, LockHeld, SweepsDeadLock, OneWriter,
        Recovering, Writing, At, Goto
<1>1. CASE Prepare(p)
  BY <1>1 DEF Prepare
<1>2. CASE MakeLock(p)
  <2>1. CASE lock = None
    <3>1. lock' # None /\ lock'.owner = None
      BY <2>1, <1>2, LockIsThere DEF MakeLock
    <3>2. \A q \in Proc : ~Writing(q) /\ pc[q] \notin {"cleaning", "releasing"}
      BY <2>1
    <3>3. /\ pc'[p] \in {"locking", "switching"} /\ p \in alive /\ alive' = alive
          /\ \A q \in Proc : q # p => pc'[q] = pc[q]
      BY <2>1, <1>2 DEF MakeLock
    <3> HIDE DEF TypeOK
    <3> QED BY <3>1, <3>2, <3>3
  <2>2. CASE lock # None
    BY <2>2, <1>2 DEF MakeLock
  <2> QED BY <2>1, <2>2
<1>3. CASE OwnLock(p)
  <2>1. lock' # None /\ lock'.owner = p
    BY <1>3, LockIsThere DEF OwnLock
  <2>2. /\ p \in alive /\ alive' = alive /\ pc[p] \in {"locking", "switching"}
        /\ pc'[p] = IF pc[p] = "locking" THEN "checking" ELSE "verifying"
        /\ \A q \in Proc : q # p => pc'[q] = pc[q]
    BY <1>3, GenerationAssumption DEF OwnLock
  <2>3. lock # None /\ lock.owner = None
    BY <2>2
  <2> HIDE DEF TypeOK
  <2> QED BY <2>1, <2>2, <2>3, GenerationAssumption
<1>4. CASE CheckActive(p)
  BY <1>4 DEF CheckActive
<1>5. CASE MakeDraft(p)
  BY <1>5 DEF MakeDraft
<1>6. CASE WriteDraft(p)
  BY <1>6 DEF WriteDraft
<1>7. CASE RenameDraft(p)
  BY <1>7 DEF RenameDraft
<1>8. CASE RecheckActive(p)
  BY <1>8 DEF RecheckActive
<1>9. CASE Activate(p)
  BY <1>9 DEF Activate
<1>10. CASE Discard(p)
  BY <1>10 DEF Discard
<1>11. CASE Unlock(p)
  BY <1>11 DEF Unlock
<1> QED BY <1>1, <1>2, <1>3, <1>4, <1>5, <1>6, <1>7, <1>8, <1>9, <1>10, <1>11 DEF Publish

LEMMA ExclusionOthers ==
  ASSUME ~ParallelRecovery, ExclusionInv, TypeOK', NEW p \in Proc, Rollback(p) \/ Restore(p) \/ Crash(p)
  PROVE  ExclusionInv'
<1> USE DEF ExclusionInv, TypeOK, OneRecovery, OnlyLivingWork, LockHeld, SweepsDeadLock, OneWriter,
        Recovering, Writing, At, Goto
<1>1. CASE Choose(p)
  BY <1>1 DEF Choose
<1>2. CASE VerifyTarget(p)
  BY <1>2 DEF VerifyTarget
<1>3. CASE Recover(p)
  BY <1>3 DEF Recover
<1>4. CASE Inspect(p)
  BY <1>4 DEF Inspect, Clearable
<1>5. CASE Tear(p)
  BY <1>5 DEF Tear
<1>6. CASE Clean(p)
  BY <1>6 DEF Clean
<1>7. CASE ClearLock(p)
  BY <1>7 DEF ClearLock
<1>8. CASE Crash(p)
  BY <1>8 DEF Crash
<1> QED BY <1>1, <1>2, <1>3, <1>4, <1>5, <1>6, <1>7, <1>8 DEF Rollback, Restore

LEMMA ExclusionStep == ~ParallelRecovery /\ ExclusionInv /\ [Next]_vars => ExclusionInv'
<1> SUFFICES ASSUME ~ParallelRecovery, ExclusionInv, [Next]_vars PROVE ExclusionInv'
  OBVIOUS
<1>1. TypeOK'
  BY TypeStep DEF ExclusionInv
<1>2. ASSUME NEW p \in Proc, Publish(p) \/ Rollback(p) \/ Restore(p) \/ Crash(p) PROVE ExclusionInv'
  BY <1>1, <1>2, ExclusionPublish, ExclusionOthers
<1>3. CASE GrowOld
  <2>1. lock' # None /\ lock'.owner = lock.owner
    BY <1>3, GenerationAssumption DEF GrowOld, Lock, ExclusionInv, TypeOK
  <2> QED BY <1>1, <1>3, <2>1 DEF GrowOld, local, ExclusionInv, OneRecovery, OnlyLivingWork, LockHeld,
         SweepsDeadLock, OneWriter, Recovering, Writing
<1>4. CASE UNCHANGED vars
  BY <1>1, <1>4 DEF vars, local, ExclusionInv, OneRecovery, OnlyLivingWork, LockHeld,
     SweepsDeadLock, OneWriter, Recovering, Writing
<1> QED BY <1>2, <1>3, <1>4 DEF Next

\* The publish lock lets one writer in at a time (generation-store.ts
\* withPublishLock), around any number of crashes, as long as no two recoveries
\* of a dead lock run together (generation-recovery.ts).
THEOREM WritersAreAlone == ASSUME ~ParallelRecovery PROVE Spec => []OneWriter
<1>1. Init => ExclusionInv
  BY ExclusionInit
<1>2. ExclusionInv /\ [Next]_vars => ExclusionInv'
  BY ExclusionStep
<1>3. ExclusionInv => OneWriter
  BY DEF ExclusionInv
<1> QED BY <1>1, <1>2, <1>3, PTL DEF Spec

-----------------------------------------------------------------------------
(* Publication. *)

Publication == FreshHeld /\ DraftIsWhole /\ NamedAreComplete /\ ExpectsActive

LEMMA PublicationInit == Init => Publication
BY DEF Init, Publication, FreshHeld, DraftIsWhole, NamedAreComplete, ExpectsActive, Building, Complete

\* Readers see the pointer as it is.
LEMMA ReadsActive == NamedAreComplete => ReadActive = active
BY DEF NamedAreComplete, Complete, ReadActive

LEMMA PublicationPublish ==
  ASSUME IInv, TypeOK', NEW p \in Proc, Publish(p) PROVE Publication'
<1> USE GenerationAssumption, ReadsActive
    DEF IInv, ExclusionInv, TypeOK, OneWriter, Publication, FreshHeld, DraftIsWhole, NamedAreComplete,
        ExpectsActive, Building, Complete, Writing, Recovering, At, Goto
<1>1. CASE Prepare(p)
  BY <1>1 DEF Prepare, Fresh
<1>2. CASE MakeLock(p)
  BY <1>2 DEF MakeLock
<1>3. CASE OwnLock(p)
  BY <1>3 DEF OwnLock
<1>4. CASE CheckActive(p)
  BY <1>4 DEF CheckActive
<1>5. CASE MakeDraft(p)
  BY <1>5 DEF MakeDraft
<1>6. CASE WriteDraft(p)
  BY <1>6 DEF WriteDraft
<1>7. CASE RenameDraft(p)
  BY <1>7 DEF RenameDraft
<1>8. CASE RecheckActive(p)
  BY <1>8 DEF RecheckActive
<1>9. CASE Activate(p)
  BY <1>9 DEF Activate
<1>10. CASE Discard(p)
  BY <1>10 DEF Discard
<1>11. CASE Unlock(p)
  BY <1>11 DEF Unlock
<1> QED BY <1>1, <1>2, <1>3, <1>4, <1>5, <1>6, <1>7, <1>8, <1>9, <1>10, <1>11 DEF Publish

LEMMA PublicationOthers ==
  ASSUME IInv, TypeOK', NEW p \in Proc, Rollback(p) \/ Restore(p) \/ Crash(p)
  PROVE  Publication'
<1> USE GenerationAssumption, ReadsActive
    DEF IInv, ExclusionInv, TypeOK, OneWriter, LockHeld, OnlyLivingWork, SweepsDeadLock, Publication, FreshHeld,
        DraftIsWhole, NamedAreComplete,
        ExpectsActive, Building, Complete, Writing, Recovering, At, Goto
<1>1. CASE Choose(p)
  BY <1>1 DEF Choose
<1>2. CASE VerifyTarget(p)
  BY <1>2 DEF VerifyTarget
<1>3. CASE Recover(p)
  BY <1>3 DEF Recover
<1>4. CASE Inspect(p)
  BY <1>4 DEF Inspect, Clearable
<1>5. CASE Tear(p)
  BY <1>5 DEF Tear
<1>6. CASE Clean(p)
  BY <1>6 DEF Clean
<1>7. CASE ClearLock(p)
  BY <1>7 DEF ClearLock
<1>8. CASE Crash(p)
  BY <1>8 DEF Crash
<1> QED BY <1>1, <1>2, <1>3, <1>4, <1>5, <1>6, <1>7, <1>8 DEF Rollback, Restore

LEMMA IInvStep == ~ParallelRecovery /\ IInv /\ [Next]_vars => IInv'
<1> SUFFICES ASSUME ~ParallelRecovery, IInv, [Next]_vars PROVE IInv'
  OBVIOUS
<1>1. ExclusionInv' /\ TypeOK'
  BY ExclusionStep DEF IInv, ExclusionInv
<1>2. ASSUME NEW p \in Proc, Publish(p) \/ Rollback(p) \/ Restore(p) \/ Crash(p) PROVE Publication'
  BY <1>1, <1>2, PublicationPublish, PublicationOthers
<1>3. ASSUME UNCHANGED <<active, final, draft, previous, local>> PROVE Publication'
  BY <1>3 DEF local, IInv, Publication, FreshHeld, DraftIsWhole, NamedAreComplete, ExpectsActive,
     Building, Complete
<1>4. Publication'
  BY <1>2, <1>3 DEF Next, GrowOld, vars
<1> QED BY <1>1, <1>4 DEF IInv, Publication

LEMMA Inductive == ASSUME ~ParallelRecovery PROVE Spec => []IInv
<1>1. Init => IInv
  BY ExclusionInit, PublicationInit DEF IInv, Publication
<1>2. IInv /\ [Next]_vars => IInv'
  BY IInvStep
<1> QED BY <1>1, <1>2, PTL DEF Spec

\* Readers never find the pointer at a generation with files missing, and its
\* predecessor is there to roll back to: neither a crash in the middle of a
\* publication nor a recovery that cleans up takes either away.
THEOREM PublishedIsComplete ==
  ASSUME ~ParallelRecovery PROVE Spec => []ActiveAndPredecessorAreComplete
<1>1. IInv => ActiveAndPredecessorAreComplete
  BY DEF IInv, ExclusionInv, TypeOK, NamedAreComplete, Complete, ActiveAndPredecessorAreComplete
<1> QED BY <1>1, Inductive, PTL

\* The pointer moves only from the generation the mover started from, a
\* publisher after its embeddings and a rollback after its validation
\* (assertExpectedActive): of two that start from the same one, one fails.
THEOREM PointerReplacesExpected == ASSUME ~ParallelRecovery PROVE Spec => ReplacesExpected
<1> DEFINE Replaces == \E p \in Proc : gen[p] = active' /\ expected[p] = active
<1>1. ASSUME IInv, [Next]_vars, active' # active PROVE Replaces
  <2>1. ASSUME NEW p \in Proc, Publish(p) \/ Rollback(p) \/ Restore(p) \/ Crash(p) PROVE Activate(p)
    BY <1>1, <2>1 DEF Publish, Prepare, MakeLock, OwnLock, CheckActive, MakeDraft, WriteDraft, RenameDraft,
       RecheckActive, Discard, Unlock, Rollback, Choose, VerifyTarget, Restore, Recover, Inspect, Tear,
       Clean, ClearLock, Crash
  <2>2. PICK p \in Proc : Activate(p)
    BY <1>1, <2>1 DEF Next, GrowOld, vars
  <2> QED BY <1>1, <2>2 DEF Activate, At, IInv, ExpectsActive
<1>2. IInv /\ [Next]_vars => [active' # active => Replaces]_vars
  BY <1>1
<1> QED BY <1>2, Inductive, PTL DEF Spec, ReplacesExpected
-----------------------------------------------------------------------------
(* Lists and rankings. *)

Lists(list, set) == IsInjective(list) /\ ToSet(list) = set

LEMMA ListsIf ==
  ASSUME NEW list, NEW D, DOMAIN list = D, NEW set,
         \A i, j \in D : list[i] = list[j] => i = j,
         \A i \in D : list[i] \in set,
         \A x \in set : \E i \in D : list[i] = x
  PROVE  Lists(list, set)
<1>1. IsInjective(list) BY Zenon DEF IsInjective
<1>2. ToSet(list) = set BY DEF ToSet
<1> QED BY <1>1, <1>2 DEF Lists

LEMMA CardinalityOfPlaces == ASSUME NEW n \in Nat PROVE IsFiniteSet(1 .. n) /\ Cardinality(1 .. n) = n
BY FS_Interval

\* This relation puts the set in a strict total order.
Orders(R, S) ==
  /\ \A a \in S : <<a, a>> \notin R
  /\ \A a, b \in S : a # b => <<a, b>> \in R \/ <<b, a>> \in R
  /\ \A a, b, c \in S : <<a, b>> \in R /\ <<b, c>> \in R => <<a, c>> \in R
Preceding(R, S, a) == {y \in S : <<y, a>> \in R}

\* A ranking of a finite set names each member once, in its order.
LEMMA RankedLists ==
  ASSUME NEW S, IsFiniteSet(S), NEW R, Orders(R, S)
  PROVE  /\ Cardinality(S) \in Nat
         /\ Ranked(S, R) \in [1 .. Cardinality(S) -> S]
         /\ Lists(Ranked(S, R), S)
         /\ \A i, j \in 1 .. Cardinality(S) : i < j => <<Ranked(S, R)[i], Ranked(S, R)[j]>> \in R
<1> USE DEF Orders
<1> DEFINE k == Cardinality(S)
           before == [a \in S |-> Preceding(R, S, a)]
           rank == [a \in S |-> Cardinality(before[a]) + 1]
           r == Ranked(S, R)
<1>0. k \in Nat BY FS_CardinalityType
<1>1. \A a \in S : before[a] = Preceding(R, S, a) OBVIOUS
<1>a. DOMAIN before = S OBVIOUS
<1>r. r = [n \in 1 .. k |-> CHOOSE x \in S : Cardinality(Preceding(R, S, x)) = n - 1]
  BY DEF Ranked, Preceding
<1> HIDE DEF before, k, r
<1>2. ASSUME NEW a \in S
      PROVE  IsFiniteSet(before[a]) /\ Cardinality(before[a]) \in 0 .. k - 1
  <2>1. IsFiniteSet(S \ {a}) /\ Cardinality(S \ {a}) = k - 1
    BY FS_RemoveElement DEF k
  <2>2. before[a] \in SUBSET (S \ {a}) BY <1>1 DEF Preceding
  <2>3. IsFiniteSet(before[a]) /\ Cardinality(before[a]) <= Cardinality(S \ {a})
    BY <2>1, <2>2, FS_Subset
  <2>4. Cardinality(before[a]) \in Nat BY <2>3, FS_CardinalityType
  <2> QED BY <1>0, <2>1, <2>3, <2>4
<1>3. rank \in [S -> 1 .. k]
  <2>1. \A a \in S : Cardinality(before[a]) + 1 \in 1 .. k BY <1>0, <1>2
  <2> QED BY <2>1
<1>4. ASSUME NEW a \in S, NEW b \in S, <<a, b>> \in R PROVE rank[a] < rank[b]
  <2>1. before[a] \in SUBSET before[b] BY <1>1, <1>4 DEF Preceding
  <2>2. a \in before[b] /\ a \notin before[a] BY <1>1, <1>4 DEF Preceding
  <2>3. Cardinality(before[b]) # Cardinality(before[a]) /\ Cardinality(before[a]) <= Cardinality(before[b])
    BY <1>2, <2>1, <2>2, FS_Subset
  <2>4. Cardinality(before[a]) \in Nat /\ Cardinality(before[b]) \in Nat BY <1>2
  <2> QED BY <2>3, <2>4
<1>5. \A a, b \in S : rank[a] = rank[b] => a = b
  <2> HIDE DEF rank
  <2>1. \A a \in S : rank[a] \in Int BY <1>3
  <2> SUFFICES ASSUME NEW a \in S, NEW b \in S, a # b PROVE rank[a] # rank[b] OBVIOUS
  <2>2. <<a, b>> \in R \/ <<b, a>> \in R OBVIOUS
  <2>3. rank[a] < rank[b] \/ rank[b] < rank[a] BY <1>4, <2>2
  <2> QED BY <2>1, <2>3
<1>c. \A x \in S : rank[x] = Cardinality(Preceding(R, S, x)) + 1 BY <1>1
<1>d. \A x \in S : Cardinality(Preceding(R, S, x)) \in Nat BY <1>1, <1>2
<1> HIDE DEF rank
<1>6. rank \in Surjection(S, 1 .. k)
  <2>1. rank \in Injection(S, 1 .. k) BY <1>3, <1>5 DEF Injection, IsInjective
  <2>2. IsFiniteSet(1 .. k) /\ Cardinality(1 .. k) = k BY <1>0, CardinalityOfPlaces
  <2> QED BY <2>1, <2>2, FS_Injection DEF k
<1>7. ASSUME NEW n \in 1 .. k PROVE r[n] \in S /\ rank[r[n]] = n
  <2>1. PICK x \in S : rank[x] = n BY <1>6 DEF Surjection
  <2>2. Cardinality(Preceding(R, S, x)) = n - 1 BY <1>0, <1>c, <1>d, <2>1
  <2>3. r[n] = CHOOSE y \in S : Cardinality(Preceding(R, S, y)) = n - 1 BY <1>r
  <2>4. r[n] \in S /\ Cardinality(Preceding(R, S, r[n])) = n - 1 BY <2>2, <2>3
  <2> QED BY <1>0, <1>c, <2>4
<1>8. r \in [1 .. k -> S] BY <1>7, <1>r
<1>9. Lists(r, S)
  <2> DEFINE D == 1 .. k
  <2>1. DOMAIN r = D BY <1>8
  <2>2. \A i, j \in D : r[i] = r[j] => i = j BY <1>7
  <2>3. \A i \in D : r[i] \in S BY <1>7
  <2>4. ASSUME NEW x \in S PROVE \E i \in D : r[i] = x
    <3>1. rank[x] \in D BY <1>3
    <3>2. r[rank[x]] \in S /\ rank[r[rank[x]]] = rank[x] BY <1>7, <3>1
    <3>3. r[rank[x]] = x BY <1>5, <3>2
    <3> QED BY <3>1, <3>3
  <2> HIDE DEF D
  <2> QED BY <2>1, <2>2, <2>3, <2>4, ListsIf
<1>10. ASSUME NEW i \in 1 .. k, NEW j \in 1 .. k, i < j PROVE <<r[i], r[j]>> \in R
  <2>1. r[i] \in S /\ r[j] \in S /\ rank[r[i]] = i /\ rank[r[j]] = j BY <1>7
  <2>2. r[i] # r[j] BY <1>10, <2>1
  <2>3. CASE <<r[j], r[i]>> \in R
    <3>1. rank[r[j]] < rank[r[i]] BY <1>4, <2>1, <2>3
    <3>2. j < i BY <2>1, <3>1
    <3> QED BY <1>0, <1>10, <3>2
  <2> QED BY <2>1, <2>2, <2>3
<1> QED BY <1>0, <1>8, <1>9, <1>10 DEF k, r

\* Every place of the sorted answer names an input.
LEMMA InputsAreInputs ==
  ASSUME NEW k \in Nat, NEW answer \in [1 .. k -> 0 .. k]
  PROVE  InputOf(answer) \in [1 .. k -> 1 .. k]
<1> DEFINE Key(item) == IF answer[item] = 0 THEN 1 ELSE answer[item]
           Precedes(a, b) == Key(a) < Key(b) \/ (Key(a) = Key(b) /\ a < b)
           items == DOMAIN answer
           R == {p \in items \X items : Precedes(p[1], p[2])}
           sorted == Ranked(items, R)
<1>1. InputOf(answer) = [n \in items |-> IF answer[sorted[n]] = 0 THEN n ELSE answer[sorted[n]]]
  BY Zenon DEF InputOf
<1>2. \A a, b \in items : <<a, b>> \in R <=> Precedes(a, b) OBVIOUS
<1>3. \A a \in items : Key(a) \in Nat OBVIOUS
<1>4. items = 1 .. k OBVIOUS
<1>5. Orders(R, items)
  <2>1. \A a \in items : <<a, a>> \notin R BY <1>3, <1>4
  <2>2. \A a, b \in items : a # b => <<a, b>> \in R \/ <<b, a>> \in R BY <1>2, <1>3, <1>4
  <2>3. \A a, b, c \in items : <<a, b>> \in R /\ <<b, c>> \in R => <<a, c>> \in R BY <1>2, <1>3, <1>4
  <2> QED BY <2>1, <2>2, <2>3 DEF Orders
<1> HIDE DEF R
<1>6. sorted \in [1 .. k -> 1 .. k] BY <1>4, <1>5, CardinalityOfPlaces, RankedLists
<1> HIDE DEF sorted, items
<1>7. ASSUME NEW n \in 1 .. k
      PROVE  (IF answer[sorted[n]] = 0 THEN n ELSE answer[sorted[n]]) \in 1 .. k
  <2>1. answer[sorted[n]] \in 0 .. k BY <1>6
  <2> QED BY <2>1
<1> QED BY <1>1, <1>4, <1>7

\* An accepted answer has one vector for each input.
LEMMA AcceptedIsWhole ==
  ASSUME NEW count \in Nat, NEW result \in Embedded(count), ~result.failed
  PROVE  /\ result.inputs \in [1 .. count -> 1 .. count]
         /\ \A i, j \in 1 .. count : result.inputs[i] = result.inputs[j] => i = j
         /\ \A i \in 1 .. count : \E n \in 1 .. count : result.inputs[n] = i
<1>1. PICK answer \in Answers(count) : Accepted(answer, count) /\ result.inputs = InputOf(answer)
  BY DEF Embedded
<1>2. answer \in [1 .. count -> 0 .. count]
  <2>1. PICK k \in (count - 1) .. (count + 1) : answer \in [1 .. k -> 0 .. count] BY DEF Answers
  <2>2. Len(answer) = count BY <1>1 DEF Accepted
  <2>3. CASE k >= 0
    <3>1. Len(answer) = k BY <2>1, <2>3
    <3> QED BY <2>1, <2>2, <3>1
  <2>4. CASE k < 0
    <3>1. 1 .. k = 1 .. 0 /\ count = 0 BY <2>4
    <3> QED BY <2>1, <3>1
  <2> QED BY <2>3, <2>4
<1> DEFINE p == InputOf(answer)
<1>3. p \in [1 .. count -> 1 .. count] BY <1>2, InputsAreInputs
<1>4. IsInjective(p) BY <1>1 DEF Accepted
<1> HIDE DEF p
<1>5. \A i, j \in 1 .. count : p[i] = p[j] => i = j BY <1>3, <1>4 DEF IsInjective
<1>6. p \in Injection(1 .. count, 1 .. count) BY <1>3, <1>5 DEF Injection, IsInjective
<1>7. p \in Surjection(1 .. count, 1 .. count) BY <1>6, CardinalityOfPlaces, FS_Injection
<1>8. \A i \in 1 .. count : \E n \in 1 .. count : p[n] = i BY <1>7 DEF Surjection
<1> QED BY <1>1, <1>3, <1>5, <1>8 DEF p

\* The enumeration of a finite set lists it.
LEMMA EnumerationLists ==
  ASSUME NEW S, IsFiniteSet(S)
  PROVE  SetToSeq(S) \in Seq(S) /\ Lists(SetToSeq(S), S)
<1> DEFINE n == Cardinality(S)
           f == SetToSeq(S)
<1>1. n \in Nat /\ ExistsBijection(1 .. n, S) BY FS_CardinalityType
<1>2. PICK g : g \in Bijection(1 .. n, S) BY <1>1 DEF ExistsBijection
<1>3. g \in [1 .. n -> S] /\ IsInjective(g) BY <1>2 DEF Bijection, Injection
<1>4. f \in [1 .. n -> S] /\ IsInjective(f)
  <2>1. \E h \in [1 .. n -> S] : IsInjective(h) BY <1>3
  <2> QED BY <2>1 DEF SetToSeq
<1>5. f \in Injection(1 .. n, S) BY <1>4 DEF Injection
<1> HIDE DEF f
<1>6. f \in Surjection(1 .. n, S) BY <1>1, <1>5, CardinalityOfPlaces, FS_Injection
<1>7. ToSet(f) = S BY <1>4, <1>6 DEF ToSet, Surjection
<1>8. f \in Seq(S) BY <1>1, <1>4
<1> QED BY <1>4, <1>7, <1>8 DEF Lists, f

\* Two lists of different chunks, one after the other.
LEMMA ListsOneAfterTheOther ==
  ASSUME NEW S, NEW first \in Seq(S), NEW second \in Seq(S), NEW A, NEW B,
         Lists(first, A), Lists(second, B), A \cap B = {}
  PROVE  first \o second \in Seq(S) /\ Lists(first \o second, A \cup B)
<1> DEFINE whole == first \o second
<1>1. /\ whole \in Seq(S)
      /\ Len(whole) = Len(first) + Len(second)
      /\ \A i \in 1 .. Len(first) + Len(second) : whole[i] =
            IF i <= Len(first) THEN first[i] ELSE second[i - Len(first)]
  BY ConcatProperties
<1> HIDE DEF whole
<1>2. Len(first) \in Nat /\ Len(second) \in Nat OBVIOUS
<1>3. \A i \in 1 .. Len(first) : first[i] \in A BY DEF Lists, ToSet
<1>4. \A i \in 1 .. Len(second) : second[i] \in B BY DEF Lists, ToSet
<1>5. ASSUME NEW i \in DOMAIN whole, NEW j \in DOMAIN whole, whole[i] = whole[j] PROVE i = j
  <2>1. i \in 1 .. Len(first) + Len(second) /\ j \in 1 .. Len(first) + Len(second) BY <1>1
  <2>2. CASE i <= Len(first) /\ j <= Len(first)
    <3>1. i \in DOMAIN first /\ j \in DOMAIN first /\ first[i] = first[j] BY <1>1, <1>2, <1>5, <2>1, <2>2
    <3> QED BY <3>1 DEF Lists, IsInjective
  <2>3. CASE i > Len(first) /\ j > Len(first)
    <3>1. /\ i - Len(first) \in DOMAIN second /\ j - Len(first) \in DOMAIN second
          /\ second[i - Len(first)] = second[j - Len(first)]
      BY <1>1, <1>2, <1>5, <2>1, <2>3
    <3>2. i - Len(first) = j - Len(first) BY <3>1 DEF Lists, IsInjective
    <3> QED BY <1>2, <2>1, <3>2
  <2>4. CASE i <= Len(first) /\ j > Len(first)
    <3>1. whole[i] \in A BY <1>1, <1>2, <1>3, <2>1, <2>4
    <3>2. j - Len(first) \in 1 .. Len(second) /\ whole[j] = second[j - Len(first)]
      BY <1>1, <1>2, <2>1, <2>4
    <3> QED BY <1>4, <1>5, <3>1, <3>2
  <2>5. CASE i > Len(first) /\ j <= Len(first)
    <3>1. whole[j] \in A BY <1>1, <1>2, <1>3, <2>1, <2>5
    <3>2. i - Len(first) \in 1 .. Len(second) /\ whole[i] = second[i - Len(first)]
      BY <1>1, <1>2, <2>1, <2>5
    <3> QED BY <1>4, <1>5, <3>1, <3>2
  <2> QED BY <1>2, <2>1, <2>2, <2>3, <2>4, <2>5
<1>6. ASSUME NEW i \in DOMAIN whole PROVE whole[i] \in A \cup B
  <2>1. i \in 1 .. Len(first) + Len(second) BY <1>1
  <2>2. CASE i <= Len(first) BY <1>1, <1>2, <1>3, <2>1, <2>2
  <2>3. CASE i > Len(first)
    <3>1. i - Len(first) \in 1 .. Len(second) BY <1>2, <2>1, <2>3
    <3> QED BY <1>1, <1>2, <1>4, <2>1, <2>3, <3>1
  <2> QED BY <1>2, <2>1, <2>2, <2>3
<1>7. ASSUME NEW x \in A PROVE \E i \in DOMAIN whole : whole[i] = x
  <2>1. PICK i \in DOMAIN first : first[i] = x BY DEF Lists, ToSet
  <2>2. i \in 1 .. Len(first) OBVIOUS
  <2>3. i \in DOMAIN whole /\ whole[i] = first[i] BY <1>1, <1>2, <2>2
  <2> QED BY <2>1, <2>3
<1>8. ASSUME NEW x \in B PROVE \E i \in DOMAIN whole : whole[i] = x
  <2>1. PICK i \in DOMAIN second : second[i] = x BY DEF Lists, ToSet
  <2>2. i \in 1 .. Len(second) OBVIOUS
  <2>3. Len(first) + i \in DOMAIN whole /\ whole[Len(first) + i] = second[i] BY <1>1, <1>2, <2>2
  <2> QED BY <2>1, <2>3
<1>9. ToSet(whole) = A \cup B BY <1>6, <1>7, <1>8 DEF ToSet
<1> QED BY <1>1, <1>5, <1>9 DEF Lists, IsInjective, whole

\* Each of the first places, once.
Permutes(p, count) ==
  /\ p \in [1 .. count -> 1 .. count]
  /\ \A i, j \in 1 .. count : p[i] = p[j] => i = j
  /\ \A i \in 1 .. count : \E n \in 1 .. count : p[n] = i

BatchOf(left, p, count) == [n \in 1 .. count |-> left[p[n]]]
RestOf(left, count) == SubSeq(left, count + 1, Len(left))

\* The first chunks of a list in another order, and the rest of it.
LEMMA BatchAndRest ==
  ASSUME NEW S, NEW left \in Seq(S), NEW set, Lists(left, set),
         NEW count \in 1 .. Len(left), NEW p, Permutes(p, count)
  PROVE  /\ BatchOf(left, p, count) \in Seq(S) /\ RestOf(left, count) \in Seq(S)
         /\ \E A \in SUBSET set : Lists(BatchOf(left, p, count), A) /\ Lists(RestOf(left, count), set \ A)
<1>1. /\ Len(left) \in Nat /\ DOMAIN left = 1 .. Len(left)
      /\ \A i \in 1 .. Len(left) : left[i] \in S
  OBVIOUS
<1>a. count \in Nat /\ count <= Len(left) BY <1>1
<1>b. /\ p \in [1 .. count -> 1 .. count]
      /\ \A i, j \in 1 .. count : p[i] = p[j] => i = j
      /\ \A i \in 1 .. count : \E n \in 1 .. count : p[n] = i
  BY DEF Permutes
<1>2. \A i \in 1 .. count : i \in 1 .. Len(left) BY <1>1, <1>a
<1>3. \A i, j \in 1 .. Len(left) : left[i] = left[j] => i = j BY <1>1 DEF Lists, IsInjective
<1> DEFINE head == BatchOf(left, p, count)
           tail == RestOf(left, count)
           A == {left[i] : i \in 1 .. count}
<1>4. A \in SUBSET set BY <1>1, <1>a, <1>2 DEF Lists, ToSet
<1>5. head \in [1 .. count -> S]
  <2>1. \A n \in 1 .. count : left[p[n]] \in S BY <1>1, <1>a, <1>2, <1>b
  <2> QED BY <2>1 DEF BatchOf
<1>6. head \in Seq(S) BY <1>a, <1>5
<1>7. Lists(head, A)
  <2>h. /\ \A n \in 1 .. count : head[n] = left[p[n]]
        /\ DOMAIN head = 1 .. count
    BY DEF BatchOf
  <2>1. ASSUME NEW i \in 1 .. count, NEW j \in 1 .. count, head[i] = head[j] PROVE i = j
    <3>1. left[p[i]] = left[p[j]] BY <2>1, <2>h
    <3>2. p[i] \in 1 .. count /\ p[j] \in 1 .. count BY <1>b
    <3>3. p[i] \in 1 .. Len(left) /\ p[j] \in 1 .. Len(left) BY <1>2, <3>2
    <3>4. p[i] = p[j] BY <1>3, <3>1, <3>3
    <3> QED BY <1>b, <3>4
  <2>2. ASSUME NEW i \in 1 .. count PROVE head[i] \in A
    <3>1. p[i] \in 1 .. count /\ head[i] = left[p[i]] BY <1>b, <2>h
    <3> QED BY <3>1
  <2>3. ASSUME NEW i \in 1 .. count PROVE \E n \in 1 .. count : head[n] = left[i]
    <3>1. PICK n \in 1 .. count : p[n] = i BY <1>b
    <3> QED BY <2>h, <3>1
  <2>5. ASSUME NEW x \in A PROVE \E n \in 1 .. count : head[n] = x
    <3>1. PICK i \in 1 .. count : x = left[i] OBVIOUS
    <3> QED BY <2>3, <3>1
  <2> DEFINE D == 1 .. count
  <2> HIDE DEF head, A
  <2>6. \A i, j \in D : head[i] = head[j] => i = j BY <2>1
  <2>7. \A x \in A : \E n \in D : head[n] = x BY <2>5
  <2>8. (\A i \in D : head[i] \in A) /\ DOMAIN head = D BY <2>2, <2>h
  <2> HIDE DEF D
  <2> QED BY <2>6, <2>7, <2>8, ListsIf
<1>8. /\ tail \in Seq(S) /\ Len(tail) = Len(left) - count
      /\ \A i \in 1 .. Len(left) - count : tail[i] = left[count + i]
  BY <1>a DEF RestOf
<1> HIDE DEF tail
<1>9. Lists(tail, set \ A)
  <2>1. DOMAIN tail = 1 .. Len(left) - count BY <1>1, <1>a, <1>8
  <2>2. \A i \in 1 .. Len(left) - count : count + i \in 1 .. Len(left) BY <1>1, <1>a
  <2>3. ASSUME NEW i \in 1 .. Len(left) - count, NEW j \in 1 .. Len(left) - count, tail[i] = tail[j]
        PROVE  i = j
    <3>1. count + i = count + j BY <1>3, <1>8, <2>2, <2>3
    <3> QED BY <1>1, <1>a, <3>1
  <2>4. ASSUME NEW i \in 1 .. Len(left) - count PROVE tail[i] \in set \ A
    <3>1. tail[i] \in set BY <1>1, <1>a, <1>8, <2>2 DEF Lists, ToSet
    <3>2. ASSUME NEW j \in 1 .. count, left[j] = tail[i] PROVE FALSE
      <4>1. j = count + i BY <1>2, <1>3, <1>8, <2>2, <3>2
      <4> QED BY <1>1, <1>a, <4>1
    <3> QED BY <3>1, <3>2
  <2>5. ASSUME NEW x \in set \ A PROVE \E i \in 1 .. Len(left) - count : tail[i] = x
    <3>1. PICK j \in 1 .. Len(left) : left[j] = x BY <1>1, <1>a DEF Lists, ToSet
    <3>2. j > count
      <4>1. ~(j \in 1 .. count) BY <3>1
      <4> QED BY <1>1, <1>a, <4>1
    <3>3. j - count \in 1 .. Len(left) - count /\ count + (j - count) = j BY <1>1, <1>a, <3>2
    <3> QED BY <1>8, <3>1, <3>3
  <2> DEFINE others == set \ A
             D == 1 .. Len(left) - count
  <2> HIDE DEF head, A
  <2>6. \A i, j \in D : tail[i] = tail[j] => i = j BY <2>3
  <2>7. \A i \in D : tail[i] \in others BY <2>4
  <2>8. \A x \in others : \E i \in D : tail[i] = x BY <2>5
  <2>9. DOMAIN tail = D BY <2>1
  <2> HIDE DEF others, D
  <2>10. Lists(tail, others) BY <2>6, <2>7, <2>8, <2>9, ListsIf
  <2> QED BY <2>10 DEF others
<1> HIDE DEF A
<1> QED BY <1>4, <1>6, <1>7, <1>8, <1>9 DEF tail
-----------------------------------------------------------------------------
(* The vectors of a generation. *)

AllChunks == UNION Contents
Generation == [chunks : Contents, vectors : Seq(AllChunks), model : Models \cup {"none"}]

\* What has been embedded and what is left make up what is eligible.
BuildCounts ==
  build.stage = "embedding" =>
    /\ build.chunks \in Contents /\ build.model \in Models
    /\ ~build.failed =>
         /\ build.left \in Seq(AllChunks) /\ build.vectors \in Seq(AllChunks)
         /\ \E done \in SUBSET Eligible(build.chunks) :
              Lists(build.vectors, done) /\ Lists(build.left, Eligible(build.chunks) \ done)

IndexInv ==
  /\ generations \in Seq(Generation)
  /\ DOMAIN build = DOMAIN NoBuild /\ build.failed \in BOOLEAN
  /\ BuildCounts /\ VectorsAreWhole

\* A list of its eligible chunks makes a generation whole.
WholeGeneration(g) ==
  g.model # "none" => IsInjective(g.vectors) /\ ToSet(g.vectors) = Eligible(g.chunks)

LEMMA EligibleLists ==
  ASSUME NEW chunks \in Contents
  PROVE  SetToSeq(Eligible(chunks)) \in Seq(AllChunks) /\ Lists(SetToSeq(Eligible(chunks)), Eligible(chunks))
<1> DEFINE set == Eligible(chunks)
<1>1. IsFiniteSet(set) BY IndexAssumption, FS_Subset DEF Eligible
<1>2. set \subseteq AllChunks BY DEF AllChunks, Eligible
<1> HIDE DEF set
<1>3. SetToSeq(set) \in Seq(set) /\ Lists(SetToSeq(set), set) BY <1>1, EnumerationLists
<1>4. SetToSeq(set) \in Seq(AllChunks) BY <1>2, <1>3
<1> QED BY <1>3, <1>4 DEF set

\* One more generation that is whole keeps all of them so.
LEMMA AppendedIsWhole ==
  ASSUME generations \in Seq(Generation), VectorsAreWhole, NEW g \in Generation, WholeGeneration(g),
         generations' = Append(generations, g)
  PROVE  generations' \in Seq(Generation) /\ VectorsAreWhole'
<1>1. /\ generations' \in Seq(Generation)
      /\ Len(generations') = Len(generations) + 1
      /\ \A n \in 1 .. Len(generations) : generations'[n] = generations[n]
      /\ generations'[Len(generations) + 1] = g
  BY AppendProperties
<1>2. ASSUME NEW n \in DOMAIN generations' PROVE WholeGeneration(generations'[n])
  <2>1. n \in 1 .. Len(generations) \/ n = Len(generations) + 1 BY <1>1
  <2>2. CASE n \in 1 .. Len(generations)
    <3>1. n \in DOMAIN generations /\ generations'[n] = generations[n] BY <1>1, <2>2
    <3>2. WholeGeneration(generations[n]) BY <3>1 DEF VectorsAreWhole, WholeGeneration
    <3> QED BY <3>1, <3>2
  <2>3. CASE n = Len(generations) + 1 BY <1>1, <2>3
  <2> QED BY <2>1, <2>2, <2>3
<1>3. VectorsAreWhole' BY <1>2 DEF VectorsAreWhole, WholeGeneration
<1> QED BY <1>1, <1>3

\* A build that begins has everything before it.
LEMMA BegunCounts ==
  ASSUME NEW chunks \in Contents, NEW model \in Models, NEW attempt, build' = Begun(chunks, model, attempt)
  PROVE  DOMAIN build' = DOMAIN NoBuild /\ build'.failed \in BOOLEAN /\ BuildCounts'
<1> DEFINE list == SetToSeq(Eligible(chunks))
<1>1. list \in Seq(AllChunks) /\ Lists(list, Eligible(chunks)) BY EligibleLists
<1> HIDE DEF list
<1>2. /\ build' = [stage |-> "embedding", expected |-> Active, chunks |-> chunks, model |-> model,
                   left |-> list, vectors |-> <<>>, failed |-> FALSE, attempt |-> attempt]
  BY DEF Begun, NoBuild, list
<1>3. DOMAIN build' = DOMAIN NoBuild /\ build'.failed \in BOOLEAN BY <1>2 DEF NoBuild
<1>4. <<>> \in Seq(AllChunks) /\ Lists(<<>>, {}) BY DEF Lists, IsInjective, ToSet
<1>5. Eligible(chunks) \ {} = Eligible(chunks) OBVIOUS
<1>6. BuildCounts'
  <2>1. \E done \in SUBSET Eligible(chunks) : Lists(<<>>, done) /\ Lists(list, Eligible(chunks) \ done)
    BY <1>1, <1>4, <1>5, Zenon
  <2>2. /\ build'.chunks = chunks /\ build'.model = model /\ build'.left = list /\ build'.vectors = <<>>
        /\ build'.failed = FALSE
    BY <1>2
  <2> QED BY <1>1, <1>4, <2>1, <2>2, Zenon DEF BuildCounts
<1> QED BY <1>3, <1>6

\* No build is one that has nothing to count.
LEMMA NoBuildCounts ==
  ASSUME build' = NoBuild
  PROVE  DOMAIN build' = DOMAIN NoBuild /\ build'.failed \in BOOLEAN /\ BuildCounts'
BY DEF NoBuild, BuildCounts

\* A batch fails or does not.
LEMMA FailedOrNot ==
  ASSUME NEW count, NEW result \in Embedded(count)
  PROVE  result.failed \in BOOLEAN
<1>1. CASE result = [failed |-> TRUE, inputs |-> <<>>] BY <1>1
<1>2. CASE \E answer \in Answers(count) : result = [failed |-> FALSE, inputs |-> InputOf(answer)]
  BY <1>2
<1> QED BY <1>1, <1>2 DEF Embedded

LEMMA EmbedBatchKeeps ==
  ASSUME IndexInv, EmbedBatch
  PROVE  IndexInv'
<1> DEFINE count == Min({BatchSize, Len(build.left)})
           set == Eligible(build.chunks)
<1>1. PICK result \in Embedded(count) :
        build' = [build EXCEPT
                    !.left = SubSeq(@, count + 1, Len(@)),
                    !.failed = @ \/ result.failed,
                    !.vectors = @ \o [n \in DOMAIN result.inputs |-> build.left[result.inputs[n]]]]
  BY Zenon DEF EmbedBatch
<1>2. build.stage = "embedding" /\ build.left # <<>> /\ generations' = generations BY DEF EmbedBatch
<1>3. result.failed \in BOOLEAN BY FailedOrNot
<1> DEFINE rest == SubSeq(build.left, count + 1, Len(build.left))
           batch == [n \in DOMAIN result.inputs |-> build.left[result.inputs[n]]]
<1>4. build' = [build EXCEPT !.left = rest, !.failed = build.failed \/ result.failed,
                             !.vectors = build.vectors \o batch]
  BY <1>1
<1> HIDE DEF count, rest, batch
<1>5. /\ DOMAIN build' = DOMAIN build /\ build'.stage = build.stage /\ build'.chunks = build.chunks
      /\ build'.model = build.model /\ build'.failed = (build.failed \/ result.failed)
      /\ build'.left = rest /\ build'.vectors = build.vectors \o batch
  BY <1>4 DEF IndexInv, NoBuild
<1>6. build'.failed \in BOOLEAN BY <1>3, <1>5 DEF IndexInv
<1>7. ASSUME ~build.failed, ~result.failed
      PROVE  /\ rest \in Seq(AllChunks) /\ build.vectors \o batch \in Seq(AllChunks)
             /\ \E done \in SUBSET set : Lists(build.vectors \o batch, done) /\ Lists(rest, set \ done)
  <2>1. PICK done \in SUBSET set : Lists(build.vectors, done) /\ Lists(build.left, set \ done)
    BY <1>2, <1>7 DEF IndexInv, BuildCounts
  <2>2. build.left \in Seq(AllChunks) /\ build.vectors \in Seq(AllChunks)
    BY <1>2, <1>7 DEF IndexInv, BuildCounts
  <2>3. count \in 1 .. Len(build.left)
    <3>1. Len(build.left) \in Nat \ {0} BY <1>2, <2>2
    <3> DEFINE T == {BatchSize, Len(build.left)}
    <3>2. \E m \in T : \A n \in T : m <= n BY <3>1, IndexAssumption
    <3>3. Min(T) \in T /\ \A n \in T : Min(T) <= n BY <3>2 DEF Min
    <3>4. count = Min(T) BY DEF count
    <3> HIDE DEF T
    <3>5. count \in T /\ \A n \in T : count <= n BY <3>3, <3>4
    <3>6. Len(build.left) \in T /\ \A n \in T : n \in Nat \ {0} BY <3>1, IndexAssumption DEF T
    <3> QED BY <3>1, <3>5, <3>6
  <2>4. count \in Nat BY <2>3
  <2>5. Permutes(result.inputs, count) BY <1>7, <2>4, AcceptedIsWhole DEF Permutes
  <2>6. DOMAIN result.inputs = 1 .. count BY <2>5 DEF Permutes
  <2>7. batch = [n \in 1 .. count |-> build.left[result.inputs[n]]] BY <2>6 DEF batch
  <2> DEFINE todo == set \ done
  <2>8. Lists(build.left, todo) BY <2>1
  <2> HIDE DEF todo
  <2>9. /\ batch \in Seq(AllChunks) /\ rest \in Seq(AllChunks)
        /\ \E A \in SUBSET todo : Lists(batch, A) /\ Lists(rest, todo \ A)
    <3>1. batch = BatchOf(build.left, result.inputs, count) /\ rest = RestOf(build.left, count)
      BY <2>7 DEF rest, BatchOf, RestOf
    <3> QED BY <2>2, <2>3, <2>5, <2>8, <3>1, BatchAndRest
  <2>10. PICK A \in SUBSET todo : Lists(batch, A) /\ Lists(rest, todo \ A) BY <2>9
  <2>11. done \cap A = {} BY DEF todo
  <2>12. build.vectors \o batch \in Seq(AllChunks) /\ Lists(build.vectors \o batch, done \cup A)
    BY <2>1, <2>2, <2>9, <2>10, <2>11, ListsOneAfterTheOther
  <2>13. todo \ A = set \ (done \cup A) /\ done \cup A \in SUBSET set BY DEF todo
  <2>14. Lists(rest, set \ (done \cup A)) BY <2>10, <2>13
  <2> HIDE DEF set
  <2> QED BY <2>9, <2>12, <2>13, <2>14
<1>8. BuildCounts'
  <2> HIDE DEF set
  <2>1. build.chunks \in Contents /\ build.model \in Models BY <1>2 DEF IndexInv, BuildCounts
  <2>2. CASE build.failed \/ result.failed BY <1>5, <2>1, <2>2 DEF BuildCounts
  <2>3. CASE ~(build.failed \/ result.failed)
    <3>1. Eligible(build'.chunks) = set BY <1>5 DEF set
    <3>2. /\ build'.left \in Seq(AllChunks) /\ build'.vectors \in Seq(AllChunks)
          /\ \E done \in SUBSET set : Lists(build'.vectors, done) /\ Lists(build'.left, set \ done)
      BY <1>5, <1>7, <2>3
    <3> QED BY <1>5, <2>1, <3>1, <3>2 DEF BuildCounts
  <2> QED BY <2>2, <2>3
<1>9. VectorsAreWhole' /\ generations' \in Seq(Generation) BY <1>2 DEF IndexInv, VectorsAreWhole
<1> QED BY <1>5, <1>6, <1>8, <1>9 DEF IndexInv

LEMMA IndexStepKeeps ==
  ASSUME IndexInv, IndexNext
  PROVE  IndexInv'
<1>1. ASSUME NEW model \in Models, BeginRebuild(model) PROVE IndexInv'
  <2>1. PICK chunks \in Contents : build' = Begun(chunks, model, 1) BY <1>1 DEF BeginRebuild
  <2>2. generations' = generations BY <1>1 DEF BeginRebuild
  <2> QED BY <2>1, <2>2, BegunCounts DEF IndexInv, VectorsAreWhole
<1>2. CASE EmbedBatch BY <1>2, EmbedBatchKeeps
<1>3. CASE PublishHybrid
  <2> DEFINE g == [chunks |-> build.chunks, vectors |-> build.vectors, model |-> build.model]
  <2>1. /\ build.stage = "embedding" /\ build.left = <<>> /\ ~build.failed
        /\ generations' = Append(generations, g) /\ build' = NoBuild
    BY <1>3 DEF PublishHybrid
  <2>2. g \in Generation BY <2>1 DEF IndexInv, BuildCounts, Generation
  <2>3. PICK done \in SUBSET Eligible(build.chunks) :
          Lists(build.vectors, done) /\ Lists(build.left, Eligible(build.chunks) \ done)
    BY <2>1 DEF IndexInv, BuildCounts
  <2>4. Eligible(build.chunks) \ done = {} BY <2>1, <2>3 DEF Lists, ToSet
  <2>5. done = Eligible(build.chunks) BY <2>4
  <2>6. WholeGeneration(g) BY <2>3, <2>5 DEF WholeGeneration, Lists
  <2> HIDE DEF g
  <2> QED BY <2>1, <2>2, <2>6, AppendedIsWhole, NoBuildCounts DEF IndexInv
<1>4. CASE FailIncomplete
  BY <1>4, NoBuildCounts DEF FailIncomplete, IndexInv, VectorsAreWhole
<1>5. CASE Conflict
  <2>1. build.stage = "embedding" /\ generations' = generations BY <1>5 DEF Conflict
  <2>2. CASE build' = NoBuild BY <2>1, <2>2, NoBuildCounts DEF IndexInv, VectorsAreWhole
  <2>3. CASE \E chunks \in Contents : build' = Begun(chunks, build.model, build.attempt + 1)
    <3>1. build.model \in Models BY <2>1 DEF IndexInv, BuildCounts
    <3> QED BY <2>1, <2>3, <3>1, BegunCounts DEF IndexInv, VectorsAreWhole
  <2> QED BY <1>5, <2>2, <2>3 DEF Conflict
<1>6. CASE PublishBm25
  <2>1. PICK chunks \in Contents : generations' = Append(generations, Bm25Only(chunks))
    BY <1>6 DEF PublishBm25
  <2>2. build' = build BY <1>6 DEF PublishBm25
  <2>3. <<>> \in Seq(AllChunks) OBVIOUS
  <2>4. Bm25Only(chunks) \in Generation /\ WholeGeneration(Bm25Only(chunks))
    BY <2>3 DEF Bm25Only, Generation, WholeGeneration
  <2> QED BY <2>1, <2>2, <2>4, AppendedIsWhole DEF IndexInv, BuildCounts
<1> QED BY <1>1, <1>2, <1>3, <1>4, <1>5, <1>6 DEF IndexNext
-----------------------------------------------------------------------------
(* A search and the generation it began with. *)

\* A search has begun with a generation that was published.
SearchBegan ==
  /\ generations # <<>>
  /\ DOMAIN search = DOMAIN Start /\ DOMAIN search.recalled = DOMAIN Unranked
  /\ search.stage = "idle" => search.recalled = Unranked
  /\ search.stage # "idle" => search.generation \in DOMAIN generations

SearchInv == IndexInv /\ SearchBegan /\ OneGeneration

\* What was recalled is of this index.
RecalledFrom(recalled, searched) ==
  /\ ToSet(recalled.bm25) \subseteq searched.chunks
  /\ recalled.embedding # <<>> =>
       searched.model = QueryModel /\ ToSet(recalled.embedding) \subseteq ToSet(searched.vectors)

LEMMA OneGenerationIs ==
  OneGeneration <=>
    /\ search.stage # "idle" => RecalledFrom(search.recalled, generations[search.generation])
    /\ VectorsAreWhole
BY Zenon DEF OneGeneration, RecalledFrom

\* A ranking names what there is to rank.
LEMMA RankedIsThere ==
  ASSUME NEW chunks, NEW ranking \in Rankings(chunks)
  PROVE  ToSet(ranking) \subseteq chunks
<1>1. PICK n \in 0 .. RecallLimit : ranking \in [1 .. n -> chunks] BY DEF Rankings
<1> QED BY <1>1 DEF ToSet

\* Publishing leaves the generations before as they were.
LEMMA GenerationsStay ==
  ASSUME generations \in Seq(Generation), IndexNext
  PROVE  \A n \in DOMAIN generations : n \in DOMAIN generations' /\ generations'[n] = generations[n]
<1>1. generations' = generations \/ \E g : generations' = Append(generations, g)
  BY Zenon DEF IndexNext, BeginRebuild, EmbedBatch, PublishHybrid, FailIncomplete, Conflict, PublishBm25
<1>2. ASSUME NEW g, generations' = Append(generations, g), NEW n \in DOMAIN generations
      PROVE  n \in DOMAIN generations' /\ generations'[n] = generations[n]
  BY <1>2
<1> QED BY <1>1, <1>2

LEMMA SearchBeginsWell == SearchInit => SearchInv
<1> SUFFICES ASSUME SearchInit PROVE SearchInv OBVIOUS
<1>1. PICK chunks \in Contents, model \in Models :
        generations = <<[chunks |-> chunks, vectors |-> SetToSeq(chunks \cap Embeddable), model |-> model]>>
  BY DEF SearchInit, InitIndex
<1> DEFINE list == SetToSeq(Eligible(chunks))
           g == [chunks |-> chunks, vectors |-> list, model |-> model]
<1>2. generations = <<g>> BY <1>1 DEF Eligible
<1>3. list \in Seq(AllChunks) /\ Lists(list, Eligible(chunks)) BY EligibleLists
<1> HIDE DEF list
<1>4. g \in Generation /\ WholeGeneration(g) BY <1>3 DEF Generation, WholeGeneration, Lists
<1> HIDE DEF g
<1>5. generations \in Seq(Generation) /\ DOMAIN generations = {1} /\ generations[1] = g /\ generations # <<>>
  BY <1>2, <1>4
<1>6. VectorsAreWhole BY <1>4, <1>5 DEF VectorsAreWhole, WholeGeneration
<1>7. build = NoBuild /\ search = Start BY DEF SearchInit, InitIndex
<1>8. IndexInv BY <1>5, <1>6, <1>7 DEF IndexInv, BuildCounts, NoBuild
<1>9. SearchBegan BY <1>5, <1>7 DEF SearchBegan, Start, Unranked
<1>10. search.stage = "idle" BY <1>7 DEF Start
<1> QED BY <1>6, <1>8, <1>9, <1>10, OneGenerationIs DEF SearchInv

\* A step that leaves the index as it is and keeps or sets what the search holds.
LEMMA SameIndexKeeps ==
  ASSUME SearchInv, UNCHANGED <<generations, build>>, SearchBegan',
         search'.stage # "idle" => RecalledFrom(search'.recalled, generations[search'.generation])
  PROVE  SearchInv'
<1>1. VectorsAreWhole' BY DEF SearchInv, IndexInv, VectorsAreWhole
<1>2. IndexInv' BY <1>1 DEF SearchInv, IndexInv, BuildCounts
<1>3. OneGeneration' BY <1>1 DEF OneGeneration, RecalledFrom
<1> QED BY <1>2, <1>3 DEF SearchInv

LEMMA SearchStepKeeps ==
  ASSUME SearchInv, SearchNext
  PROVE  SearchInv'
<1> USE DEF SearchInv
<1>0. /\ search.stage # "idle" => RecalledFrom(search.recalled, generations[search.generation])
      /\ generations # <<>> /\ generations \in Seq(Generation)
  BY OneGenerationIs DEF SearchBegan, IndexInv
<1>1. CASE RebuildIndex
  <2>1. IndexNext /\ search' = search BY <1>1 DEF RebuildIndex
  <2>2. IndexInv' BY <2>1, IndexStepKeeps
  <2>3. \A n \in DOMAIN generations : n \in DOMAIN generations' /\ generations'[n] = generations[n]
    BY <1>0, <2>1, GenerationsStay
  <2>4. 1 \in DOMAIN generations BY <1>0
  <2>5. generations' # <<>> BY <2>2, <2>3, <2>4 DEF IndexInv
  <2>6. SearchBegan' BY <2>1, <2>3, <2>5 DEF SearchBegan
  <2>7. search'.stage # "idle" => RecalledFrom(search'.recalled, generations'[search'.generation])
    BY <1>0, <2>1, <2>3 DEF SearchBegan
  <2>8. VectorsAreWhole' BY <2>2 DEF IndexInv
  <2>9. OneGeneration' BY <2>7, <2>8, Zenon DEF OneGeneration, RecalledFrom
  <2> QED BY <2>2, <2>6, <2>9
<1>2. ASSUME NEW document \in Documents, NEW state \in {"ok", "bad", "gone"}, ChangeDocument(document, state)
      PROVE  SearchInv'
  <2>1. UNCHANGED <<generations, build, search>> BY <1>2 DEF ChangeDocument
  <2>2. SearchBegan' BY <2>1 DEF SearchBegan
  <2> QED BY <1>0, <2>1, <2>2, SameIndexKeeps
<1>3. CASE Ask
  <2>1. PICK ranking \in Rankings(generations[Active].chunks) :
          search' = [search EXCEPT !.stage = "asked", !.generation = Active, !.recalled.bm25 = ranking]
    BY <1>3 DEF Ask
  <2>2. UNCHANGED <<generations, build>> /\ search.stage = "idle" BY <1>3 DEF Ask
  <2>3. Active \in DOMAIN generations BY <1>0 DEF Active
  <2>4. ToSet(ranking) \subseteq generations[Active].chunks BY RankedIsThere
  <2>5. search.recalled = Unranked BY <2>2 DEF SearchBegan
  <2>6. /\ DOMAIN search' = DOMAIN search /\ search'.stage = "asked" /\ search'.generation = Active
        /\ search'.recalled = [bm25 |-> ranking, embedding |-> <<>>]
    BY <2>1, <2>5 DEF SearchBegan, Start, Unranked
  <2>7. SearchBegan' BY <1>0, <2>2, <2>3, <2>6 DEF SearchBegan, Unranked
  <2>8. RecalledFrom(search'.recalled, generations[search'.generation])
    BY <2>4, <2>6 DEF RecalledFrom
  <2> QED BY <2>2, <2>7, <2>8, SameIndexKeeps
<1>4. CASE RecallVectors
  <2> DEFINE searched == SearchedIndex(search.generation)
             found == IF Compatible(searched) THEN {c \in ToSet(searched.vectors) : Trusted(c)} ELSE {}
  <2>1. PICK ranking \in Rankings(found) :
          search' = Fused([search.recalled EXCEPT !.embedding = ranking])
    BY <1>4, Zenon DEF RecallVectors
  <2>2. UNCHANGED <<generations, build>> /\ search.stage = "asked" BY <1>4 DEF RecallVectors
  <2>3. /\ DOMAIN search' = DOMAIN search /\ search'.stage = "fused"
        /\ search'.generation = search.generation
        /\ search'.recalled = [search.recalled EXCEPT !.embedding = ranking]
    BY <2>1 DEF Fused, SearchBegan, Start
  <2>4. /\ DOMAIN search'.recalled = DOMAIN Unranked
        /\ search'.recalled.bm25 = search.recalled.bm25 /\ search'.recalled.embedding = ranking
    BY <2>3 DEF SearchBegan, Unranked
  <2>5. SearchBegan' BY <1>0, <2>2, <2>3, <2>4 DEF SearchBegan
  <2>6. ToSet(ranking) \subseteq found BY <2>1, RankedIsThere
  <2>7. searched = generations[search.generation] BY DEF SearchedIndex
  <2>8. ranking # <<>> => searched.model = QueryModel /\ ToSet(ranking) \subseteq ToSet(searched.vectors)
    <3>1. CASE Compatible(searched) BY <2>6, <3>1 DEF Compatible
    <3>2. CASE ~Compatible(searched)
      <4>1. found = {} BY <3>2
      <4>2. PICK n \in 0 .. RecallLimit : ranking \in [1 .. n -> {}] BY <2>1, <4>1 DEF Rankings
      <4>3. ranking = <<>>
        <5>1. CASE 1 .. n = {} BY <4>2, <5>1
        <5>2. CASE 1 .. n # {} BY <4>2, <5>2
        <5> QED BY <5>1, <5>2
      <4> QED BY <4>3
    <3> QED BY <3>1, <3>2
  <2> HIDE DEF searched, found
  <2>9. RecalledFrom(search'.recalled, generations[search'.generation])
    BY <1>0, <2>2, <2>3, <2>4, <2>7, <2>8 DEF RecalledFrom
  <2> QED BY <2>2, <2>5, <2>9, SameIndexKeeps
<1>5. CASE SkipRerank \/ Rerank
  <2>1. PICK failed, results : search' = Answered(failed, results)
    BY <1>5, Zenon DEF SkipRerank, Rerank
  <2>2. UNCHANGED <<generations, build>> /\ search.stage = "fused" BY <1>5 DEF SkipRerank, Rerank
  <2>3. /\ DOMAIN search' = DOMAIN search /\ search'.stage = "answered"
        /\ search'.generation = search.generation /\ search'.recalled = search.recalled
    BY <2>1 DEF Answered, SearchBegan, Start
  <2>4. SearchBegan' BY <1>0, <2>2, <2>3 DEF SearchBegan
  <2> QED BY <1>0, <2>2, <2>3, <2>4, SameIndexKeeps
<1> QED BY <1>1, <1>2, <1>3, <1>4, <1>5 DEF SearchNext

\* Every reachable state has these parts.
THEOREM SearchInductive == SearchSpec => []SearchInv
<1>1. SearchInv /\ UNCHANGED searchVars => SearchInv'
  <2> SUFFICES ASSUME SearchInv, UNCHANGED searchVars PROVE SearchInv' OBVIOUS
  <2>1. UNCHANGED <<generations, build, search>> BY DEF searchVars
  <2>2. SearchBegan' BY <2>1 DEF SearchInv, SearchBegan
  <2>3. search'.stage # "idle" => RecalledFrom(search'.recalled, generations[search'.generation])
    BY <2>1, OneGenerationIs DEF SearchInv
  <2> QED BY <2>1, <2>2, <2>3, SameIndexKeeps
<1>2. SearchInv /\ [SearchNext]_searchVars => SearchInv' BY <1>1, SearchStepKeeps
<1> QED BY SearchBeginsWell, <1>2, PTL DEF SearchSpec

\* Whatever the provider answers, whoever publishes and whichever documents
\* change, a search compares its query with the whole vectors of the generation
\* it began with, and those of its own model.
THEOREM SearchSeesOneGeneration == SearchSpec => []OneGeneration
<1>1. SearchInv => OneGeneration BY DEF SearchInv
<1> QED BY <1>1, SearchInductive, PTL

-----------------------------------------------------------------------------
(* Places in a list. *)

Ascending(P) == {p \in P \X P : p[1] < p[2]}

LEMMA PlacesInOrder ==
  ASSUME NEW P, IsFiniteSet(P), P \subseteq Int
  PROVE  /\ Cardinality(P) \in Nat
         /\ Ranked(P, Ascending(P)) \in [1 .. Cardinality(P) -> P]
         /\ Lists(Ranked(P, Ascending(P)), P)
         /\ \A i, j \in 1 .. Cardinality(P) :
              i < j => Ranked(P, Ascending(P))[i] < Ranked(P, Ascending(P))[j]
<1> DEFINE R == Ascending(P)
<1>1. \A a, b \in P : <<a, b>> \in R <=> a < b BY DEF Ascending
<1> HIDE DEF R
<1>2. Orders(R, P)
  <2>1. \A a \in P : <<a, a>> \notin R BY <1>1
  <2>2. \A a, b \in P : a # b => <<a, b>> \in R \/ <<b, a>> \in R BY <1>1
  <2>3. \A a, b, c \in P : <<a, b>> \in R /\ <<b, c>> \in R => <<a, c>> \in R BY <1>1
  <2> QED BY <2>1, <2>2, <2>3 DEF Orders
<1> DEFINE r == Ranked(P, R)
<1>3. /\ Cardinality(P) \in Nat /\ r \in [1 .. Cardinality(P) -> P] /\ Lists(r, P)
      /\ \A i, j \in 1 .. Cardinality(P) : i < j => <<r[i], r[j]>> \in R
  BY <1>2, RankedLists
<1> HIDE DEF r
<1>4. \A i, j \in 1 .. Cardinality(P) : i < j => r[i] < r[j] BY <1>1, <1>3
<1> QED BY <1>3, <1>4 DEF r, R

\* What is picked from a list are the members at these places, in their order.
LEMMA PickedInOrder ==
  ASSUME NEW list, NEW P, IsFiniteSet(P), P \subseteq Int
  PROVE  \E order \in [1 .. Cardinality(P) -> P] :
           /\ Cardinality(P) \in Nat /\ Lists(order, P)
           /\ \A i, j \in 1 .. Cardinality(P) : i < j => order[i] < order[j]
           /\ Picked(list, P) = [n \in 1 .. Cardinality(P) |-> list[order[n]]]
<1> DEFINE order == Ranked(P, Ascending(P))
<1>1. /\ Cardinality(P) \in Nat /\ order \in [1 .. Cardinality(P) -> P] /\ Lists(order, P)
      /\ \A i, j \in 1 .. Cardinality(P) : i < j => order[i] < order[j]
  BY PlacesInOrder
<1>2. Picked(list, P) = [n \in DOMAIN order |-> list[order[n]]] BY DEF Picked, Ascending
<1> HIDE DEF order
<1>3. Picked(list, P) = [n \in 1 .. Cardinality(P) |-> list[order[n]]] BY <1>1, <1>2
<1> QED BY <1>1, <1>3

\* The least and the greatest of a finite set of numbers.
LEMMA LeastAndGreatest ==
  ASSUME NEW P, IsFiniteSet(P), P \subseteq Int, P # {}
  PROVE  /\ Min(P) \in P /\ \A x \in P : Min(P) <= x
         /\ Max(P) \in P /\ \A x \in P : x <= Max(P)
<1> DEFINE k == Cardinality(P)
           r == Ranked(P, Ascending(P))
<1>1. /\ k \in Nat /\ r \in [1 .. k -> P] /\ Lists(r, P)
      /\ \A i, j \in 1 .. k : i < j => r[i] < r[j]
  BY PlacesInOrder
<1>2. k # 0 BY FS_EmptySet
<1> HIDE DEF k, r
<1>3. 1 \in 1 .. k /\ k \in 1 .. k BY <1>1, <1>2
<1>4. ASSUME NEW x \in P PROVE r[1] <= x /\ x <= r[k]
  <2>1. PICK i \in 1 .. k : r[i] = x BY <1>1 DEF Lists, ToSet
  <2>2. r[1] \in Int /\ r[i] \in Int /\ r[k] \in Int BY <1>1, <1>3
  <2>3. i = 1 \/ r[1] < r[i] BY <1>1, <1>3
  <2>4. i = k \/ r[i] < r[k] BY <1>1, <1>3
  <2> QED BY <2>1, <2>2, <2>3, <2>4
<1>5. r[1] \in P /\ r[k] \in P BY <1>1, <1>3
<1>6. Min(P) \in P /\ \A x \in P : Min(P) <= x BY <1>4, <1>5 DEF Min
<1>7. Max(P) \in P /\ \A x \in P : x <= Max(P) BY <1>4, <1>5 DEF Max
<1> QED BY <1>6, <1>7

\* The rank of a chunk: its first place, or 0.
LEMMA RankInIs ==
  ASSUME NEW n \in Nat, NEW list, DOMAIN list = 1 .. n, NEW x
  PROVE  /\ RankIn(list, x) \in 0 .. n
         /\ x \notin ToSet(list) <=> RankIn(list, x) = 0
         /\ RankIn(list, x) # 0 => list[RankIn(list, x)] = x
         /\ \A m \in 1 .. n : list[m] = x => RankIn(list, x) <= m /\ RankIn(list, x) # 0
<1> DEFINE ranks == {m \in DOMAIN list : list[m] = x}
<1>1. IsFiniteSet(ranks) /\ ranks \subseteq Int
  <2>1. IsFiniteSet(1 .. n) BY CardinalityOfPlaces
  <2> QED BY <2>1, FS_Subset
<1>2. RankIn(list, x) = IF ranks = {} THEN 0 ELSE Min(ranks) BY DEF RankIn
<1>3. x \in ToSet(list) <=> ranks # {} BY DEF ToSet
<1>4. CASE ranks = {} BY <1>2, <1>3, <1>4
<1>5. CASE ranks # {}
  <2>1. Min(ranks) \in ranks /\ \A m \in ranks : Min(ranks) <= m
    <3> HIDE DEF ranks
    <3> QED BY <1>1, <1>5, LeastAndGreatest
  <2> DEFINE rank == RankIn(list, x)
  <2>2. rank \in ranks /\ \A m \in ranks : rank <= m BY <1>2, <1>5, <2>1
  <2> HIDE DEF rank
  <2>3. rank \in 1 .. n /\ list[rank] = x BY <2>2
  <2>4. \A m \in 1 .. n : list[m] = x => rank <= m BY <2>2
  <2>5. rank # 0 /\ rank \in 0 .. n BY <2>3
  <2> HIDE DEF ranks
  <2> QED BY <1>3, <1>5, <2>3, <2>4, <2>5 DEF rank
<1> QED BY <1>4, <1>5
-----------------------------------------------------------------------------
(* Fusion. *)

IsRanking(list) == list \in Seq(ToSet(list))
IsRecall(recalled) ==
  DOMAIN recalled = DOMAIN Unranked /\ IsRanking(recalled.bm25) /\ IsRanking(recalled.embedding)

FoundIn(recalled) == ToSet(recalled.bm25) \cup ToSet(recalled.embedding)

\* A better rank counts no less.
LEMMA ContributionFalls ==
  ASSUME NEW a \in Nat, NEW b \in Nat, a < b
  PROVE  Contribution(a) \in Nat /\ Contribution(b) \in Nat /\ Contribution(b) <= Contribution(a)
<1> DEFINE K == 100000000
           p == K \div (60 + a)
           q == K \div (60 + b)
<1>1. p \in Nat /\ q \in Nat OBVIOUS
<1>2. (60 + b) * q <= K OBVIOUS
<1>3. K < (60 + a) * (p + 1) OBVIOUS
<1> HIDE DEF p, q
<1>4. CASE q > p
  <2>1. (60 + a) * (p + 1) <= (60 + a) * q BY <1>1, <1>4
  <2>2. (60 + a) * q <= (60 + b) * q BY <1>1
  <2> QED BY <1>1, <1>2, <1>3, <2>1, <2>2
<1> QED BY <1>1, <1>4 DEF p, q, Contribution

LEMMA PointsOfRanks ==
  ASSUME NEW list, IsRanking(list), NEW a, NEW b
  PROVE  /\ Points(list, a) \in Nat /\ Points(list, b) \in Nat
         /\ RankIn(list, a) = 0 \/ (RankIn(list, b) # 0 /\ RankIn(list, b) < RankIn(list, a)) =>
              Points(list, a) <= Points(list, b)
<1>1. Len(list) \in Nat /\ DOMAIN list = 1 .. Len(list) BY DEF IsRanking
<1>2. RankIn(list, a) \in Nat /\ RankIn(list, b) \in Nat BY <1>1, RankInIs
<1>3. \A r \in Nat : Contribution(r) \in Nat
  <2> TAKE r \in Nat
  <2>1. r + 1 \in Nat /\ r < r + 1 OBVIOUS
  <2> QED BY <2>1, ContributionFalls
<1>4. Points(list, a) \in Nat /\ Points(list, b) \in Nat BY <1>2, <1>3 DEF Points
<1>5. CASE RankIn(list, a) = 0
  <2>1. Points(list, a) = 0 BY <1>5 DEF Points
  <2> QED BY <1>4, <2>1
<1>6. CASE RankIn(list, a) # 0 /\ RankIn(list, b) # 0 /\ RankIn(list, b) < RankIn(list, a)
  <2>1. Points(list, a) = Contribution(RankIn(list, a)) /\ Points(list, b) = Contribution(RankIn(list, b))
    BY <1>6 DEF Points
  <2>2. Contribution(RankIn(list, a)) <= Contribution(RankIn(list, b)) BY <1>2, <1>6, ContributionFalls
  <2> QED BY <1>4, <2>1, <2>2
<1> QED BY <1>4, <1>5, <1>6

\* The order of fusion: by score, then by the place where a chunk was first seen.
Fusion(recalled) ==
  LET Precedes(a, b) ==
        LET s == RrfScore(recalled, a)
            t == RrfScore(recalled, b)
        IN  s > t \/ (s = t /\ FirstSeen(recalled, a) < FirstSeen(recalled, b))
  IN  {p \in FoundIn(recalled) \X FoundIn(recalled) : Precedes(p[1], p[2])}

LEMMA FusionPairs ==
  ASSUME NEW recalled, NEW a \in FoundIn(recalled), NEW b \in FoundIn(recalled)
  PROVE  <<a, b>> \in Fusion(recalled) <=>
           \/ RrfScore(recalled, a) > RrfScore(recalled, b)
           \/ /\ RrfScore(recalled, a) = RrfScore(recalled, b)
              /\ FirstSeen(recalled, a) < FirstSeen(recalled, b)
BY DEF Fusion

\* Both rankings in one list: where each chunk was first seen.
LEMMA FirstSeenIs ==
  ASSUME NEW recalled, IsRecall(recalled)
  PROVE  LET both == recalled.bm25 \o recalled.embedding
             k == Len(recalled.bm25)
             m == Len(recalled.embedding)
         IN  /\ k \in Nat /\ m \in Nat /\ DOMAIN both = 1 .. (k + m)
             /\ DOMAIN recalled.bm25 = 1 .. k /\ DOMAIN recalled.embedding = 1 .. m
             /\ \A i \in 1 .. k : both[i] = recalled.bm25[i]
             /\ \A i \in 1 .. m : both[k + i] = recalled.embedding[i]
             /\ \A i \in (k + 1) .. (k + m) : both[i] = recalled.embedding[i - k]
<1> DEFINE S == FoundIn(recalled)
           first == recalled.bm25
           second == recalled.embedding
           both == first \o second
<1>1. first \in Seq(S) /\ second \in Seq(S) BY DEF IsRecall, IsRanking, FoundIn
<1> HIDE DEF S, first, second
<1>2. /\ both \in Seq(S) /\ Len(both) = Len(first) + Len(second)
      /\ \A i \in 1 .. Len(first) + Len(second) : both[i] =
            IF i <= Len(first) THEN first[i] ELSE second[i - Len(first)]
  BY <1>1, ConcatProperties
<1> HIDE DEF both
<1>3. Len(first) \in Nat /\ Len(second) \in Nat BY <1>1
<1>4. \A i \in 1 .. Len(first) : both[i] = first[i] BY <1>2, <1>3
<1>5. \A i \in 1 .. Len(second) : both[Len(first) + i] = second[i] BY <1>2, <1>3
<1>6. \A i \in (Len(first) + 1) .. (Len(first) + Len(second)) : both[i] = second[i - Len(first)]
  BY <1>2, <1>3
<1>7. DOMAIN both = 1 .. (Len(first) + Len(second)) /\ DOMAIN first = 1 .. Len(first)
      /\ DOMAIN second = 1 .. Len(second)
  BY <1>1, <1>2
<1> QED BY <1>3, <1>4, <1>5, <1>6, <1>7 DEF both, first, second

LEMMA FirstSeenTells ==
  ASSUME NEW recalled, IsRecall(recalled), NEW a \in FoundIn(recalled), NEW b \in FoundIn(recalled)
  PROVE  FirstSeen(recalled, a) \in Nat /\ (FirstSeen(recalled, a) = FirstSeen(recalled, b) => a = b)
<1> DEFINE both == recalled.bm25 \o recalled.embedding
           k == Len(recalled.bm25)
           m == Len(recalled.embedding)
<1>1. /\ k \in Nat /\ m \in Nat /\ DOMAIN both = 1 .. (k + m)
      /\ DOMAIN recalled.bm25 = 1 .. k /\ DOMAIN recalled.embedding = 1 .. m
      /\ \A i \in 1 .. k : both[i] = recalled.bm25[i]
      /\ \A i \in 1 .. m : both[k + i] = recalled.embedding[i]
  BY FirstSeenIs
<1>2. FirstSeen(recalled, a) = RankIn(both, a) /\ FirstSeen(recalled, b) = RankIn(both, b)
  BY DEF FirstSeen
<1> HIDE DEF both, k, m
<1> DEFINE n == k + m
<1>3. n \in Nat /\ DOMAIN both = 1 .. n BY <1>1
<1>4. \A i \in 1 .. k : i \in 1 .. n BY <1>1
<1>5. \A i \in 1 .. m : k + i \in 1 .. n BY <1>1
<1> HIDE DEF n
<1>6. ASSUME NEW x \in FoundIn(recalled) PROVE \E i \in 1 .. n : both[i] = x
  <2>1. CASE x \in ToSet(recalled.bm25)
    <3>1. PICK i \in 1 .. k : recalled.bm25[i] = x BY <1>1, <2>1 DEF ToSet
    <3>2. i \in 1 .. n /\ both[i] = x BY <1>1, <1>4, <3>1
    <3> QED BY <3>2
  <2>2. CASE x \in ToSet(recalled.embedding)
    <3>1. PICK i \in 1 .. m : recalled.embedding[i] = x BY <1>1, <2>2 DEF ToSet
    <3>2. k + i \in 1 .. n /\ both[k + i] = x BY <1>1, <1>5, <3>1
    <3> QED BY <3>2
  <2> QED BY <2>1, <2>2 DEF FoundIn
<1>7. ASSUME NEW x \in FoundIn(recalled) PROVE RankIn(both, x) \in Nat /\ both[RankIn(both, x)] = x
  <2>1. PICK i \in 1 .. n : both[i] = x BY <1>6
  <2>2. RankIn(both, x) # 0 BY <1>3, <2>1, RankInIs
  <2> QED BY <1>3, <2>2, RankInIs
<1> QED BY <1>2, <1>7

LEMMA ScoresAreNumbers ==
  ASSUME NEW recalled, IsRecall(recalled), NEW x
  PROVE  RrfScore(recalled, x) \in Nat
<1>1. Points(recalled.bm25, x) \in Nat /\ Points(recalled.embedding, x) \in Nat
  BY PointsOfRanks DEF IsRecall
<1> QED BY <1>1 DEF RrfScore

LEMMA FusionOrders ==
  ASSUME NEW recalled, IsRecall(recalled)
  PROVE  Orders(Fusion(recalled), FoundIn(recalled))
<1> DEFINE S == FoundIn(recalled)
           R == Fusion(recalled)
           score == [x \in S |-> RrfScore(recalled, x)]
           seen == [x \in S |-> FirstSeen(recalled, x)]
<1>1. \A a, b \in S : <<a, b>> \in R <=> score[a] > score[b] \/ (score[a] = score[b] /\ seen[a] < seen[b])
  BY FusionPairs
<1>2. \A a \in S : score[a] \in Nat BY ScoresAreNumbers
<1>3. \A a \in S : seen[a] \in Nat BY FirstSeenTells
<1>4. \A a, b \in S : seen[a] = seen[b] => a = b BY FirstSeenTells
<1> HIDE DEF S, R, score, seen
<1>5. \A a \in S : <<a, a>> \notin R BY <1>1, <1>2, <1>3
<1>6. \A a, b \in S : a # b => <<a, b>> \in R \/ <<b, a>> \in R BY <1>1, <1>2, <1>3, <1>4
<1>7. \A a, b, c \in S : <<a, b>> \in R /\ <<b, c>> \in R => <<a, c>> \in R BY <1>1, <1>2, <1>3
<1>8. Orders(R, S) BY <1>5, <1>6, <1>7 DEF Orders
<1> QED BY <1>8 DEF R, S

\* A list has finitely many members.
LEMMA MembersAreFinite ==
  ASSUME NEW n \in Nat, NEW list, DOMAIN list = 1 .. n
  PROVE  IsFiniteSet(ToSet(list))
<1> DEFINE f == [i \in 1 .. n |-> list[i]]
<1>1. f \in Surjection(1 .. n, ToSet(list)) BY DEF Surjection, ToSet
<1>2. IsFiniteSet(1 .. n) BY CardinalityOfPlaces
<1> HIDE DEF f
<1> QED BY <1>1, <1>2, FS_Surjection

LEMMA FoundIsFinite ==
  ASSUME NEW recalled, IsRecall(recalled)
  PROVE  IsFiniteSet(FoundIn(recalled))
<1>1. /\ Len(recalled.bm25) \in Nat /\ DOMAIN recalled.bm25 = 1 .. Len(recalled.bm25)
      /\ Len(recalled.embedding) \in Nat /\ DOMAIN recalled.embedding = 1 .. Len(recalled.embedding)
  BY DEF IsRecall, IsRanking
<1>2. IsFiniteSet(ToSet(recalled.bm25)) /\ IsFiniteSet(ToSet(recalled.embedding))
  BY <1>1, MembersAreFinite
<1> QED BY <1>2, FS_Union DEF FoundIn

\* One chunk beats another in every strategy of this recall that found either.
BeatsIn(recalled, a, b) ==
  \A strategy \in DOMAIN recalled :
    LET rankA == RankIn(recalled[strategy], a)
        rankB == RankIn(recalled[strategy], b)
    IN  rankB = 0 \/ (rankA # 0 /\ rankA < rankB)

\* What all strategies agree on, fusion does too.
LEMMA AgreementIsFused ==
  ASSUME NEW recalled, IsRecall(recalled), NEW a \in FoundIn(recalled), NEW b \in FoundIn(recalled),
         BeatsIn(recalled, a, b)
  PROVE  <<a, b>> \in Fusion(recalled)
<1> DEFINE first == recalled.bm25
           second == recalled.embedding
           both == first \o second
           k == Len(first)
           m == Len(second)
<1>1. /\ k \in Nat /\ m \in Nat /\ DOMAIN both = 1 .. (k + m)
      /\ DOMAIN first = 1 .. k /\ DOMAIN second = 1 .. m
      /\ \A i \in 1 .. k : both[i] = first[i]
      /\ \A i \in 1 .. m : both[k + i] = second[i]
      /\ \A i \in (k + 1) .. (k + m) : both[i] = second[i - k]
  BY FirstSeenIs
<1>2. /\ RankIn(first, b) = 0 \/ (RankIn(first, a) # 0 /\ RankIn(first, a) < RankIn(first, b))
      /\ RankIn(second, b) = 0 \/ (RankIn(second, a) # 0 /\ RankIn(second, a) < RankIn(second, b))
  BY DEF BeatsIn, IsRecall, Unranked
<1>3. IsRanking(first) /\ IsRanking(second) BY DEF IsRecall
<1>4. b \in ToSet(first) \/ b \in ToSet(second) BY DEF FoundIn
<1>5. FirstSeen(recalled, a) = RankIn(both, a) /\ FirstSeen(recalled, b) = RankIn(both, b)
  BY DEF FirstSeen
<1>6. /\ RrfScore(recalled, a) = Points(first, a) + Points(second, a)
      /\ RrfScore(recalled, b) = Points(first, b) + Points(second, b)
  BY DEF RrfScore
<1> HIDE DEF first, second, both, k, m
<1>7. /\ Points(first, a) \in Nat /\ Points(first, b) \in Nat /\ Points(first, b) <= Points(first, a)
      /\ Points(second, a) \in Nat /\ Points(second, b) \in Nat /\ Points(second, b) <= Points(second, a)
  BY <1>2, <1>3, PointsOfRanks
<1>8. RrfScore(recalled, b) <= RrfScore(recalled, a) BY <1>6, <1>7
<1> DEFINE n == k + m
           p == RankIn(both, b)
           x == RankIn(first, b)
           y == RankIn(second, b)
           u == RankIn(first, a)
           v == RankIn(second, a)
<1>9. n \in Nat /\ DOMAIN both = 1 .. n BY <1>1
<1> HIDE DEF n
<1>10. p \in 1 .. n /\ both[p] = b
  <2>1. p # 0
    <3>1. FirstSeen(recalled, b) # 0
      <4>1. \E i \in 1 .. n : both[i] = b
        <5>1. CASE b \in ToSet(first)
          <6>1. PICK i \in 1 .. k : first[i] = b BY <1>1, <5>1 DEF ToSet
          <6>2. i \in 1 .. n /\ both[i] = b BY <1>1, <6>1 DEF n
          <6> QED BY <6>2
        <5>2. CASE b \in ToSet(second)
          <6>1. PICK i \in 1 .. m : second[i] = b BY <1>1, <5>2 DEF ToSet
          <6>2. k + i \in 1 .. n /\ both[k + i] = b BY <1>1, <6>1 DEF n
          <6> QED BY <6>2
        <5> QED BY <1>4, <5>1, <5>2
      <4> QED BY <1>5, <1>9, <4>1, RankInIs
    <3> QED BY <1>5, <3>1
  <2>2. p \in 0 .. n /\ both[p] = b BY <1>9, <2>1, RankInIs
  <2> QED BY <1>9, <2>1, <2>2
<1>11. x \in 0 .. k /\ y \in 0 .. m /\ u \in 0 .. k /\ v \in 0 .. m BY <1>1, RankInIs
<1>12. /\ u # 0 => first[u] = a
       /\ v # 0 => second[v] = a
       /\ \A i \in 1 .. k : first[i] = b => x <= i /\ x # 0
       /\ \A i \in 1 .. m : second[i] = b => y <= i /\ y # 0
       /\ \A i \in 1 .. n : both[i] = a => RankIn(both, a) <= i
       /\ RankIn(both, a) \in 0 .. n
  BY <1>1, <1>9, RankInIs
<1> HIDE DEF p, x, y, u, v
<1>13. \E i \in 1 .. n : both[i] = a /\ i < p
  <2>1. CASE p <= k
    <3>1. p \in 1 .. k /\ first[p] = b BY <1>1, <1>9, <1>10, <2>1
    <3>2. x <= p /\ x # 0 BY <1>12, <3>1
    <3>3. u # 0 /\ u < x BY <1>2, <3>2 DEF u, x
    <3>4. u \in 1 .. k /\ u < p BY <1>1, <1>11, <3>1, <3>2, <3>3
    <3>5. both[u] = a /\ u \in 1 .. n BY <1>1, <1>12, <3>3, <3>4 DEF n
    <3> QED BY <3>4, <3>5
  <2>2. CASE p > k
    <3>1. p - k \in 1 .. m /\ second[p - k] = b BY <1>1, <1>10, <2>2 DEF n
    <3>2. y <= p - k /\ y # 0 BY <1>12, <3>1
    <3>3. v # 0 /\ v < y BY <1>2, <3>2 DEF v, y
    <3>4. v \in 1 .. m /\ k + v < p BY <1>1, <1>10, <1>9, <1>11, <3>1, <3>2, <3>3
    <3>5. both[k + v] = a /\ k + v \in 1 .. n BY <1>1, <1>12, <3>3, <3>4 DEF n
    <3> QED BY <3>4, <3>5
  <2> QED BY <1>1, <1>9, <1>10, <2>1, <2>2
<1>14. FirstSeen(recalled, a) < FirstSeen(recalled, b)
  <2>1. PICK i \in 1 .. n : both[i] = a /\ i < p BY <1>13
  <2>2. RankIn(both, a) <= i BY <1>12, <2>1
  <2> QED BY <1>5, <1>9, <1>10, <1>12, <2>1, <2>2 DEF p
<1>15. RrfScore(recalled, a) \in Nat /\ RrfScore(recalled, b) \in Nat BY <1>6, <1>7
<1> QED BY <1>8, <1>14, <1>15, FusionPairs

\* The list up to a limit.
UpTo(n, limit) == IF n < limit THEN n ELSE limit

LEMMA CutIs ==
  ASSUME NEW S, NEW list \in Seq(S), NEW limit \in Nat
  PROVE  /\ UpTo(Len(list), limit) \in Nat /\ UpTo(Len(list), limit) <= Len(list)
         /\ Cut(list, limit) \in Seq(S) /\ Len(Cut(list, limit)) = UpTo(Len(list), limit)
         /\ \A i \in 1 .. UpTo(Len(list), limit) : Cut(list, limit)[i] = list[i]
<1> DEFINE m == UpTo(Len(list), limit)
<1>1. m \in Nat /\ m <= Len(list) BY DEF UpTo
<1>2. Cut(list, limit) = SubSeq(list, 1, m) BY DEF Cut, UpTo
<1> HIDE DEF m
<1>3. /\ SubSeq(list, 1, m) \in Seq(S) /\ Len(SubSeq(list, 1, m)) = m
      /\ \A i \in 1 .. m : SubSeq(list, 1, m)[i] = list[i]
  BY <1>1
<1>4. /\ Cut(list, limit) \in Seq(S) /\ Len(Cut(list, limit)) = m
      /\ \A i \in 1 .. m : Cut(list, limit)[i] = list[i]
  BY <1>2, <1>3
<1> QED BY <1>1, <1>4 DEF m

\* What is fused stands in the order of fusion, and is the best of all.
LEMMA FusedInOrder ==
  ASSUME NEW recalled, IsRecall(recalled)
  PROVE  \E n \in Nat, m \in Nat : \E r \in [1 .. n -> FoundIn(recalled)] :
           /\ m <= n /\ Lists(r, FoundIn(recalled))
           /\ \A i, j \in 1 .. n : i < j => <<r[i], r[j]>> \in Fusion(recalled)
           /\ FuseWithRrf(recalled) \in [1 .. m -> FoundIn(recalled)]
           /\ \A i \in 1 .. m : FuseWithRrf(recalled)[i] = r[i]
<1> DEFINE S == FoundIn(recalled)
           R == Fusion(recalled)
           n == Cardinality(S)
           r == Ranked(S, R)
           m == UpTo(n, FusionLimit)
<1>1. FuseWithRrf(recalled) = Cut(r, FusionLimit) BY Zenon DEF FuseWithRrf, Fusion, FoundIn
<1>2. /\ n \in Nat /\ r \in [1 .. n -> S] /\ Lists(r, S)
      /\ \A i, j \in 1 .. n : i < j => <<r[i], r[j]>> \in R
  BY FoundIsFinite, FusionOrders, RankedLists
<1> HIDE DEF S, R, n, r
<1>l. FusionLimit \in Nat BY SearchAssumption
<1>3. /\ m \in Nat /\ m <= n /\ Cut(r, FusionLimit) \in [1 .. m -> S]
      /\ \A i \in 1 .. m : Cut(r, FusionLimit)[i] = r[i]
  <2>1. r \in Seq(S) /\ Len(r) = n BY <1>2
  <2>2. /\ UpTo(Len(r), FusionLimit) \in Nat /\ UpTo(Len(r), FusionLimit) <= Len(r)
        /\ Cut(r, FusionLimit) \in Seq(S) /\ Len(Cut(r, FusionLimit)) = UpTo(Len(r), FusionLimit)
        /\ \A i \in 1 .. UpTo(Len(r), FusionLimit) : Cut(r, FusionLimit)[i] = r[i]
    BY <1>l, <2>1, CutIs
  <2> QED BY <2>1, <2>2
<1> HIDE DEF m
<1>4. FuseWithRrf(recalled) \in [1 .. m -> S] /\ \A i \in 1 .. m : FuseWithRrf(recalled)[i] = r[i]
  BY <1>1, <1>3
<1>5. \E x \in Nat, y \in Nat : \E z \in [1 .. x -> S] :
        /\ y <= x /\ Lists(z, S)
        /\ \A i, j \in 1 .. x : i < j => <<z[i], z[j]>> \in R
        /\ FuseWithRrf(recalled) \in [1 .. y -> S]
        /\ \A i \in 1 .. y : FuseWithRrf(recalled)[i] = z[i]
  BY <1>2, <1>3, <1>4
<1> QED BY <1>5 DEF S, R

\* A candidate for the first chunk of each document, at these places.
StandForDocuments(recalled, chunks, m, candidates, c, order) ==
  /\ \A i, j \in 1 .. c : i < j => order[i] < order[j]
  /\ DOMAIN candidates = 1 .. c /\ candidates = [i \in 1 .. c |-> candidates[i]]
  /\ \A i \in 1 .. c : /\ candidates[i].chunk = chunks[order[i]]
                       /\ candidates[i].score = RrfScore(recalled, chunks[order[i]])
  /\ \A p \in 1 .. m : \E k \in 1 .. c :
       order[k] <= p /\ ParentOf[chunks[order[k]]] = ParentOf[chunks[p]]

LEMMA OneCandidateADocument ==
  ASSUME NEW recalled, NEW m \in Nat, NEW chunks, DOMAIN chunks = 1 .. m
  PROVE  \E c \in Nat : \E order \in [1 .. c -> 1 .. m] :
           StandForDocuments(recalled, chunks, m, DedupeByParent(recalled, chunks), c, order)
<1> DEFINE places == DOMAIN chunks
           Siblings(n) == {k \in places : ParentOf[chunks[k]] = ParentOf[chunks[n]]}
           Answerers(n) == {k \in Siblings(n) : AnswerStrength(recalled, chunks[k]) = 1}
           Excerpt(n) == IF Answerers(n) = {} THEN n ELSE Min(Answerers(n))
           all == [n \in places |-> [chunk |-> chunks[n], excerpt |-> chunks[Excerpt(n)],
                                     children |-> {chunks[k] : k \in Siblings(n)},
                                     score |-> RrfScore(recalled, chunks[n])]]
           leaders == {n \in places : n = Min(Siblings(n))}
           D == DedupeByParent(recalled, chunks)
           c == Cardinality(leaders)
<1>1. D = Picked(all, leaders) BY Zenon DEF DedupeByParent
<1>2. \A n \in 1 .. m : all[n].chunk = chunks[n] /\ all[n].score = RrfScore(recalled, chunks[n]) OBVIOUS
<1>3. \A p \in 1 .. m, k \in 1 .. m : k \in Siblings(p) <=> ParentOf[chunks[k]] = ParentOf[chunks[p]] OBVIOUS
<1>4. \A p \in 1 .. m : Siblings(p) \in SUBSET (1 .. m) OBVIOUS
<1>5. ASSUME NEW p \in 1 .. m
      PROVE  /\ Min(Siblings(p)) \in leaders /\ Min(Siblings(p)) <= p
             /\ ParentOf[chunks[Min(Siblings(p))]] = ParentOf[chunks[p]]
  <2> DEFINE group == Siblings(p)
             l == Min(group)
  <2>1. IsFiniteSet(group) /\ group \subseteq Int /\ p \in group
    <3>1. IsFiniteSet(1 .. m) BY CardinalityOfPlaces
    <3>2. group \in SUBSET (1 .. m) /\ p \in group OBVIOUS
    <3> HIDE DEF group
    <3>3. IsFiniteSet(group) BY <3>1, <3>2, FS_Subset
    <3>4. \A i \in 1 .. m : i \in Int OBVIOUS
    <3> QED BY <3>2, <3>3, <3>4
  <2> HIDE DEF group
  <2>2. l \in group /\ l <= p BY <2>1, LeastAndGreatest
  <2>3. l \in 1 .. m /\ ParentOf[chunks[l]] = ParentOf[chunks[p]] BY <2>2 DEF group
  <2>4. Siblings(l) = group BY <2>3 DEF group
  <2>5. l \in leaders BY <2>3, <2>4
  <2> QED BY <2>2, <2>3, <2>5 DEF group
<1>6. leaders \in SUBSET (1 .. m) OBVIOUS
<1> HIDE DEF all, leaders, D, Siblings
<1>7. IsFiniteSet(leaders) /\ leaders \subseteq Int 
  <2>1. IsFiniteSet(1 .. m) BY CardinalityOfPlaces
  <2>2. \A i \in 1 .. m : i \in Int OBVIOUS
  <2> QED BY <1>6, <2>1, <2>2, FS_Subset
<1>8. PICK order \in [1 .. c -> leaders] :
        /\ c \in Nat /\ Lists(order, leaders)
        /\ \A i, j \in 1 .. c : i < j => order[i] < order[j]
        /\ Picked(all, leaders) = [n \in 1 .. c |-> all[order[n]]]
  BY <1>7, PickedInOrder
<1> HIDE DEF c
<1>9. order \in [1 .. c -> 1 .. m] BY <1>6, <1>8
<1>10. DOMAIN D = 1 .. c /\ \A i \in 1 .. c : D[i] = all[order[i]] BY <1>1, <1>8
<1>11. \A i \in 1 .. c : D[i].chunk = chunks[order[i]] /\ D[i].score = RrfScore(recalled, chunks[order[i]])
  BY <1>2, <1>9, <1>10
<1>12. ASSUME NEW p \in 1 .. m
       PROVE  \E k \in 1 .. c : order[k] <= p /\ ParentOf[chunks[order[k]]] = ParentOf[chunks[p]]
  <2>1. PICK k \in 1 .. c : order[k] = Min(Siblings(p)) BY <1>5, <1>8 DEF Lists, ToSet
  <2> QED BY <1>5, <2>1
<1>d. D = [i \in 1 .. c |-> D[i]] BY <1>1, <1>8
<1>13. StandForDocuments(recalled, chunks, m, D, c, order)
  BY <1>d, <1>8, <1>10, <1>11, <1>12, Zenon DEF StandForDocuments
<1> QED BY <1>8, <1>9, <1>13 DEF D

\* The candidates of a search after fusion.
IsCandidates(candidates) ==
  \E c \in Nat :
    /\ DOMAIN candidates = 1 .. c /\ candidates = [i \in 1 .. c |-> candidates[i]]
    /\ \A i, j \in 1 .. c : candidates[i].chunk = candidates[j].chunk => i = j
    /\ \A i \in 1 .. c : candidates[i].score \in Int

Agreed(recalled, candidates) ==
  \A n \in DOMAIN candidates :
    /\ \A k \in (n + 1) .. Len(candidates) :
         ~BeatsIn(recalled, candidates[k].chunk, candidates[n].chunk)
    /\ \A chunk \in FoundIn(recalled) :
         BeatsIn(recalled, chunk, candidates[n].chunk) /\ chunk # candidates[n].chunk =>
           \E k \in 1 .. n : ParentOf[candidates[k].chunk] = ParentOf[chunk]

LEMMA FusedAgrees ==
  ASSUME NEW recalled, IsRecall(recalled),
         NEW candidates, candidates = DedupeByParent(recalled, FuseWithRrf(recalled))
  PROVE  IsCandidates(candidates) /\ Agreed(recalled, candidates)
<1> DEFINE S == FoundIn(recalled)
           R == Fusion(recalled)
           f == FuseWithRrf(recalled)
<1>1. PICK n \in Nat, m \in Nat : \E r \in [1 .. n -> S] :
        /\ m <= n /\ Lists(r, S)
        /\ \A i, j \in 1 .. n : i < j => <<r[i], r[j]>> \in R
        /\ f \in [1 .. m -> S]
        /\ \A i \in 1 .. m : f[i] = r[i]
  BY FusedInOrder
<1>2. PICK r \in [1 .. n -> S] :
        /\ m <= n /\ Lists(r, S)
        /\ \A i, j \in 1 .. n : i < j => <<r[i], r[j]>> \in R
        /\ f \in [1 .. m -> S]
        /\ \A i \in 1 .. m : f[i] = r[i]
  BY <1>1
<1>3. DOMAIN f = 1 .. m BY <1>2
<1>f. candidates = DedupeByParent(recalled, f) OBVIOUS
<1>6. Orders(R, S) BY FusionOrders
<1> HIDE DEF S, R, f
<1>4. PICK c \in Nat : \E order \in [1 .. c -> 1 .. m] :
        StandForDocuments(recalled, f, m, candidates, c, order)
  BY <1>3, <1>f, OneCandidateADocument
<1>o. PICK order \in [1 .. c -> 1 .. m] : StandForDocuments(recalled, f, m, candidates, c, order)
  BY <1>4
<1>5. /\ \A i, j \in 1 .. c : i < j => order[i] < order[j]
      /\ DOMAIN candidates = 1 .. c /\ candidates = [i \in 1 .. c |-> candidates[i]]
      /\ \A i \in 1 .. c : /\ candidates[i].chunk = f[order[i]]
                           /\ candidates[i].score = RrfScore(recalled, f[order[i]])
      /\ \A p \in 1 .. m : \E k \in 1 .. c : order[k] <= p /\ ParentOf[f[order[k]]] = ParentOf[f[p]]
  BY <1>o DEF StandForDocuments
<1>7. \A i \in 1 .. m : i \in 1 .. n BY <1>2
<1>i. \A i, j \in 1 .. c : i < j => order[i] < order[j] BY <1>5
<1>s. \A i \in 1 .. c : candidates[i].score = RrfScore(recalled, f[order[i]]) BY <1>5
<1>8. \A i \in 1 .. c : order[i] \in 1 .. m /\ order[i] \in 1 .. n /\ candidates[i].chunk = r[order[i]]
  BY <1>2, <1>5, <1>7
<1>9. \A i, j \in 1 .. n : <<r[i], r[j]>> \in R => i < j
  <2> SUFFICES ASSUME NEW i \in 1 .. n, NEW j \in 1 .. n, <<r[i], r[j]>> \in R PROVE i < j OBVIOUS
  <2>1. r[i] \in S /\ r[j] \in S BY <1>2
  <2>2. i # j BY <1>6, <2>1 DEF Orders
  <2>3. ~(j < i)
    <3>1. j < i => <<r[j], r[i]>> \in R BY <1>2
    <3>2. <<r[i], r[i]>> \notin R BY <1>6, <2>1 DEF Orders
    <3> QED BY <1>6, <2>1, <3>1, <3>2 DEF Orders
  <2> QED BY <2>2, <2>3
<1>10. \A i, j \in 1 .. n : r[i] = r[j] => i = j BY <1>2 DEF Lists, IsInjective
<1>11. IsCandidates(candidates)
  <2>1. ASSUME NEW i \in 1 .. c, NEW j \in 1 .. c, candidates[i].chunk = candidates[j].chunk PROVE i = j
    <3>1. order[i] = order[j] BY <1>8, <1>10, <2>1
    <3>2. ~(i < j) /\ ~(j < i) BY <1>i, <1>8, <3>1
    <3> QED BY <3>2
  <2>2. \A i \in 1 .. c : candidates[i].score \in Int BY <1>s, ScoresAreNumbers
  <2> QED BY <1>5, <2>1, <2>2 DEF IsCandidates
<1>12. ASSUME NEW i \in DOMAIN candidates, NEW k \in (i + 1) .. Len(candidates),
              BeatsIn(recalled, candidates[k].chunk, candidates[i].chunk)
       PROVE  FALSE
  <2>1. i \in 1 .. c BY <1>5
  <2>2. Len(candidates) = c BY <1>5
  <2>3. k \in 1 .. c /\ i < k BY <2>1, <2>2
  <2>4. order[i] < order[k] BY <1>5, <2>1, <2>3
  <2>5. r[order[k]] \in S /\ r[order[i]] \in S BY <1>2, <1>8, <2>1, <2>3
  <2>6. candidates[k].chunk = r[order[k]] /\ candidates[i].chunk = r[order[i]] BY <1>8, <2>1, <2>3
  <2>7. BeatsIn(recalled, r[order[k]], r[order[i]]) BY <1>12, <2>6
  <2>8. <<r[order[k]], r[order[i]]>> \in R BY <2>5, <2>7, AgreementIsFused DEF R, S
  <2>9. order[k] < order[i] BY <1>8, <1>9, <2>1, <2>3, <2>8
  <2> QED BY <1>8, <2>1, <2>3, <2>4, <2>9
<1>13. ASSUME NEW i \in DOMAIN candidates, NEW chunk \in S,
              BeatsIn(recalled, chunk, candidates[i].chunk)
       PROVE  \E k \in 1 .. i : ParentOf[candidates[k].chunk] = ParentOf[chunk]
  <2>1. i \in 1 .. c BY <1>5
  <2>2. r[order[i]] \in S /\ candidates[i].chunk = r[order[i]] BY <1>2, <1>8, <2>1
  <2>3. BeatsIn(recalled, chunk, r[order[i]]) BY <1>13, <2>2
  <2>4. <<chunk, r[order[i]]>> \in R BY <2>2, <2>3, AgreementIsFused DEF R, S
  <2>5. PICK p \in 1 .. n : r[p] = chunk BY <1>2 DEF Lists, ToSet
  <2>6. p < order[i] BY <1>8, <1>9, <2>1, <2>4, <2>5
  <2>7. p \in 1 .. m /\ f[p] = chunk BY <1>2, <1>8, <2>1, <2>5, <2>6
  <2>8. PICK k \in 1 .. c : order[k] <= p /\ ParentOf[f[order[k]]] = ParentOf[f[p]] BY <1>5, <2>7
  <2>9. ParentOf[candidates[k].chunk] = ParentOf[chunk] BY <1>5, <2>7, <2>8
  <2>10. order[k] < order[i] BY <1>8, <2>1, <2>6, <2>8
  <2>11. ~(i < k) /\ ~(i = k)
    <3>1. i < k => order[i] < order[k] BY <1>5, <2>1, <2>8
    <3> QED BY <1>8, <2>1, <2>8, <2>10, <3>1
  <2>12. k \in 1 .. i BY <2>1, <2>11
  <2> QED BY <2>9, <2>12
<1>14. Agreed(recalled, candidates) BY <1>12, <1>13 DEF Agreed, S
<1> QED BY <1>11, <1>14
-----------------------------------------------------------------------------
(* Rerank. *)

\* The candidates a response names, each once.
IsNamed(candidates, named) ==
  \E m \in Nat :
    /\ DOMAIN named = 1 .. m
    /\ \A i \in 1 .. m : named[i].candidate \in ToSet(candidates) /\ named[i].relevance \in Int
    /\ \A i, j \in 1 .. m : named[i].candidate = named[j].candidate => i = j

LEMMA NamedOnce ==
  ASSUME NEW candidates, IsCandidates(candidates),
         NEW n \in Nat, NEW response, DOMAIN response = 1 .. n,
         \A i \in 1 .. n : response[i].score \in Int
  PROVE  IsNamed(candidates, Named(candidates, response))
<1> DEFINE Known(i) == \E k \in DOMAIN candidates : candidates[k].chunk = response[i].id
           First(i) == \A k \in 1 .. (i - 1) : response[k].id # response[i].id
           places == {i \in DOMAIN response : Known(i) /\ First(i)}
           kept == Picked(response, places)
           m == Cardinality(places)
           named == Named(candidates, response)
<1>1. named = [i \in DOMAIN kept |->
                 [candidate |-> CHOOSE c \in ToSet(candidates) : c.chunk = kept[i].id,
                  relevance |-> kept[i].score]]
  BY Zenon DEF Named
<1>2. places \in SUBSET (1 .. n) OBVIOUS
<1>3. \A i \in places : \E c \in ToSet(candidates) : c.chunk = response[i].id BY DEF ToSet
<1>4. \A i, j \in places : response[i].id = response[j].id => i = j
  <2> SUFFICES ASSUME NEW i \in places, NEW j \in places, response[i].id = response[j].id PROVE i = j
    OBVIOUS
  <2>1. i \in 1 .. n /\ j \in 1 .. n /\ First(i) /\ First(j) OBVIOUS
  <2>2. ~(i < j)
    <3>1. i < j => i \in 1 .. (j - 1) BY <2>1
    <3> QED BY <2>1, <3>1
  <2>3. ~(j < i)
    <3>1. j < i => j \in 1 .. (i - 1) BY <2>1
    <3> QED BY <2>1, <3>1
  <2> QED BY <2>1, <2>2, <2>3
<1> HIDE DEF places, named
<1>5. IsFiniteSet(places) /\ places \subseteq Int
  <2>1. IsFiniteSet(1 .. n) BY CardinalityOfPlaces
  <2>2. \A i \in 1 .. n : i \in Int OBVIOUS
  <2> QED BY <1>2, <2>1, <2>2, FS_Subset
<1>6. PICK order \in [1 .. m -> places] :
        /\ m \in Nat /\ Lists(order, places)
        /\ \A i, j \in 1 .. m : i < j => order[i] < order[j]
        /\ kept = [i \in 1 .. m |-> response[order[i]]]
  BY <1>5, PickedInOrder
<1> HIDE DEF m, kept
<1>7. \A i \in 1 .. m : order[i] \in places /\ order[i] \in 1 .. n /\ kept[i] = response[order[i]]
  BY <1>2, <1>6
<1>8. \A i, j \in 1 .. m : order[i] = order[j] => i = j BY <1>6 DEF Lists, IsInjective
<1>9. DOMAIN named = 1 .. m
  <2>1. DOMAIN kept = 1 .. m BY <1>6
  <2> QED BY <1>1, <2>1
<1>10. ASSUME NEW i \in 1 .. m
       PROVE  /\ named[i].candidate \in ToSet(candidates) /\ named[i].candidate.chunk = response[order[i]].id
              /\ named[i].relevance \in Int
  <2>1. i \in DOMAIN kept BY <1>6
  <2>2. named[i].candidate = CHOOSE c \in ToSet(candidates) : c.chunk = kept[i].id BY <1>1, <2>1
  <2>3. \E c \in ToSet(candidates) : c.chunk = kept[i].id BY <1>3, <1>7
  <2>4. named[i].relevance = response[order[i]].score BY <1>1, <1>7, <2>1
  <2> QED BY <1>7, <2>2, <2>3, <2>4
<1>11. ASSUME NEW i \in 1 .. m, NEW j \in 1 .. m, named[i].candidate = named[j].candidate PROVE i = j
  <2>1. response[order[i]].id = response[order[j]].id BY <1>10, <1>11
  <2>2. order[i] = order[j] BY <1>4, <1>7, <2>1
  <2> QED BY <1>8, <2>2
<1> QED BY <1>6, <1>9, <1>10, <1>11 DEF IsNamed, named

LEMMA FinalScoresAreNumbers ==
  ASSUME NEW candidates, IsCandidates(candidates), NEW named, IsNamed(candidates, named),
         NEW a \in DOMAIN named
  PROVE  FinalScore(named, named[a]) \in Int
<1> DEFINE relevances == {named[n].relevance : n \in DOMAIN named}
           fusions == {named[n].candidate.score : n \in DOMAIN named}
<1>1. PICK m \in Nat :
        /\ DOMAIN named = 1 .. m
        /\ \A i \in 1 .. m : named[i].candidate \in ToSet(candidates) /\ named[i].relevance \in Int
  BY DEF IsNamed
<1>2. \A c \in ToSet(candidates) : c.score \in Int BY DEF IsCandidates, ToSet
<1>3. IsFiniteSet(relevances) /\ relevances \subseteq Int /\ relevances # {}
  <2> DEFINE list == [n \in 1 .. m |-> named[n].relevance]
  <2>1. relevances = ToSet(list) BY <1>1 DEF ToSet
  <2>2. IsFiniteSet(ToSet(list)) BY <1>1, MembersAreFinite
  <2> QED BY <1>1, <2>1, <2>2
<1>4. IsFiniteSet(fusions) /\ fusions \subseteq Int /\ fusions # {}
  <2> DEFINE list == [n \in 1 .. m |-> named[n].candidate.score]
  <2>1. fusions = ToSet(list) BY <1>1 DEF ToSet
  <2>2. IsFiniteSet(ToSet(list)) BY <1>1, MembersAreFinite
  <2> QED BY <1>1, <1>2, <2>1, <2>2
<1>5. named[a].relevance \in Int /\ named[a].candidate.score \in Int BY <1>1, <1>2
<1> DEFINE Width(set) == IF Max(set) = Min(set) THEN 1 ELSE Max(set) - Min(set)
<1>6. FinalScore(named, named[a]) =
        7 * (named[a].relevance - Min(relevances)) * Width(fusions)
          + 3 * (named[a].candidate.score - Min(fusions)) * Width(relevances)
  BY Zenon DEF FinalScore
<1> HIDE DEF relevances, fusions
<1>7. Min(relevances) \in Int /\ Max(relevances) \in Int BY <1>3, LeastAndGreatest
<1>8. Min(fusions) \in Int /\ Max(fusions) \in Int BY <1>4, LeastAndGreatest
<1>9. Width(relevances) \in Int /\ Width(fusions) \in Int BY <1>7, <1>8
<1> HIDE DEF Width
<1> QED BY <1>5, <1>6, <1>7, <1>8, <1>9

\* Whatever the response, the reranked list names each candidate once.
LEMMA RerankedLists ==
  ASSUME NEW candidates, IsCandidates(candidates),
         NEW n \in Nat, NEW response, DOMAIN response = 1 .. n,
         \A i \in 1 .. n : response[i].score \in Int
  PROVE  /\ Reranked(candidates, response) \in Seq(ToSet(candidates))
         /\ Lists(Reranked(candidates, response), ToSet(candidates))
<1> DEFINE all == ToSet(candidates)
           named == Named(candidates, response)
           places == DOMAIN named
           Precedes(a, b) ==
             LET s == FinalScore(named, named[a])
                 t == FinalScore(named, named[b])
             IN  s > t \/ (s = t /\ a < b)
           R == {p \in places \X places : Precedes(p[1], p[2])}
           order == Ranked(places, R)
           first == [i \in DOMAIN order |-> named[order[i]].candidate]
           rest == Unnamed(candidates, named)
           score == [a \in places |-> FinalScore(named, named[a])]
<1>1. Reranked(candidates, response) = first \o rest BY Zenon DEF Reranked
<1>2. IsNamed(candidates, named) BY NamedOnce
<1>3. \A a, b \in places : <<a, b>> \in R <=> score[a] > score[b] \/ (score[a] = score[b] /\ a < b)
  OBVIOUS
<1>4. \A a \in places : score[a] \in Int BY <1>2, FinalScoresAreNumbers
<1> HIDE DEF named, R, score
<1>5. PICK m \in Nat :
        /\ DOMAIN named = 1 .. m
        /\ \A i \in 1 .. m : named[i].candidate \in all
        /\ \A i, j \in 1 .. m : named[i].candidate = named[j].candidate => i = j
  BY <1>2 DEF IsNamed
<1>6. \A a \in places : a \in Int BY <1>5
<1>7. IsFiniteSet(places) BY <1>5, CardinalityOfPlaces
<1> HIDE DEF places
<1>8. Orders(R, places)
  <2>1. \A a \in places : <<a, a>> \notin R BY <1>3, <1>4, <1>6
  <2>2. \A a, b \in places : a # b => <<a, b>> \in R \/ <<b, a>> \in R BY <1>3, <1>4, <1>6
  <2>3. \A a, b, c \in places : <<a, b>> \in R /\ <<b, c>> \in R => <<a, c>> \in R BY <1>3, <1>4, <1>6
  <2> QED BY <2>1, <2>2, <2>3 DEF Orders
<1> DEFINE k == Cardinality(places)
<1>9. k \in Nat /\ order \in [1 .. k -> places] /\ Lists(order, places) BY <1>7, <1>8, RankedLists
<1> DEFINE A == {named[i].candidate : i \in 1 .. m}
<1>10. places = 1 .. m BY <1>5 DEF places
<1>11. A \in SUBSET all BY <1>5
<1>12. \A a, b \in places : named[a].candidate = named[b].candidate => a = b BY <1>5, <1>10
<1> HIDE DEF order, k
<1>13. first \in Seq(all) /\ Lists(first, A)
  <2> DEFINE D == 1 .. k
  <2>1. DOMAIN order = D /\ \A i \in D : order[i] \in places BY <1>9
  <2>2. DOMAIN first = D /\ \A i \in D : first[i] = named[order[i]].candidate BY <2>1
  <2>3. \A i \in D : first[i] \in A BY <1>10, <2>1, <2>2
  <2>4. \A i, j \in D : order[i] = order[j] => i = j BY <1>9, <2>1 DEF Lists, IsInjective
  <2>5. \A i, j \in D : first[i] = first[j] => i = j BY <1>12, <2>1, <2>2, <2>4
  <2>6. \A a \in places : \E i \in D : order[i] = a BY <1>9, <2>1 DEF Lists, ToSet
  <2>7. ASSUME NEW x \in A PROVE \E i \in D : first[i] = x
    <3>1. PICK a \in places : named[a].candidate = x BY <1>10
    <3>2. PICK i \in D : order[i] = a BY <2>6
    <3> QED BY <2>2, <3>1, <3>2
  <2>8. first \in [D -> all] BY <1>11, <2>2, <2>3
  <2> HIDE DEF first, A
  <2>9. first \in Seq(all) BY <1>9, <2>8
  <2> HIDE DEF D
  <2> QED BY <2>2, <2>3, <2>5, <2>7, <2>9, ListsIf
<1>14. rest \in Seq(all) /\ Lists(rest, all \ A)
  <2> DEFINE left == {i \in DOMAIN candidates : \A a \in places : named[a].candidate # candidates[i]}
  <2>1. rest = Picked(candidates, left) BY Zenon DEF Unnamed, places
  <2>2. PICK c \in Nat :
          /\ DOMAIN candidates = 1 .. c
          /\ \A i, j \in 1 .. c : candidates[i].chunk = candidates[j].chunk => i = j
    BY DEF IsCandidates
  <2>3. left \in SUBSET (1 .. c) /\ \A i \in left : candidates[i] \in all \ A BY <1>10, <2>2 DEF ToSet
  <2>4. \A x \in all \ A : \E i \in left : candidates[i] = x BY <1>10, <2>2 DEF ToSet
  <2> HIDE DEF left
  <2>5. IsFiniteSet(left) /\ left \subseteq Int
    <3>1. IsFiniteSet(1 .. c) BY CardinalityOfPlaces
    <3>2. \A i \in 1 .. c : i \in Int OBVIOUS
    <3> QED BY <2>3, <3>1, <3>2, FS_Subset
  <2> DEFINE q == Cardinality(left)
  <2>6. PICK where \in [1 .. q -> left] :
          /\ q \in Nat /\ Lists(where, left)
          /\ Picked(candidates, left) = [i \in 1 .. q |-> candidates[where[i]]]
    BY <2>5, PickedInOrder
  <2> HIDE DEF q, rest, A, all
  <2> DEFINE D == 1 .. q
             others == all \ A
  <2>7. DOMAIN rest = D /\ \A i \in D : rest[i] = candidates[where[i]] /\ where[i] \in left
    BY <2>1, <2>6
  <2>8. \A i \in D : rest[i] \in others BY <2>3, <2>7
  <2>9. \A i, j \in D : where[i] = where[j] => i = j BY <2>6 DEF Lists, IsInjective
  <2>10. ASSUME NEW i \in D, NEW j \in D, rest[i] = rest[j] PROVE i = j
    <3>1. where[i] \in 1 .. c /\ where[j] \in 1 .. c BY <2>3, <2>7
    <3>2. candidates[where[i]].chunk = candidates[where[j]].chunk BY <2>7, <2>10
    <3>3. where[i] = where[j] BY <2>2, <3>1, <3>2
    <3> QED BY <2>9, <3>3
  <2>11. ASSUME NEW x \in others PROVE \E i \in D : rest[i] = x
    <3>1. PICK a \in left : candidates[a] = x BY <2>4
    <3>2. PICK i \in D : where[i] = a BY <2>6 DEF Lists, ToSet
    <3> QED BY <2>7, <3>1, <3>2
  <2>12. rest \in Seq(all)
    <3>1. rest = [i \in 1 .. q |-> candidates[where[i]]] BY <2>1, <2>6
    <3>2. \A i \in 1 .. q : candidates[where[i]] \in all BY <2>7, <2>8
    <3>3. rest \in [1 .. q -> all] BY <3>1, <3>2
    <3> QED BY <2>6, <3>3
  <2> HIDE DEF D, others
  <2>13. Lists(rest, others) BY <2>7, <2>8, <2>10, <2>11, ListsIf
  <2> QED BY <2>12, <2>13 DEF others
<1> HIDE DEF first, rest, A, all
<1>15. A \cap (all \ A) = {} /\ A \cup (all \ A) = all BY <1>11
<1>16. first \o rest \in Seq(all) /\ Lists(first \o rest, A \cup (all \ A))
  BY <1>13, <1>14, <1>15, ListsOneAfterTheOther
<1> QED BY <1>1, <1>15, <1>16 DEF all

LEMMA ListsAreAsLong ==
  ASSUME NEW S, NEW T, NEW a \in Seq(S), NEW b \in Seq(S), Lists(a, T), Lists(b, T)
  PROVE  Len(a) = Len(b)
<1>1. ASSUME NEW x \in Seq(S), Lists(x, T) PROVE Len(x) = Cardinality(T)
  <2>1. DOMAIN x = 1 .. Len(x) /\ Len(x) \in Nat OBVIOUS
  <2>2. x \in Surjection(1 .. Len(x), T) /\ x \in Injection(1 .. Len(x), T)
    BY <1>1, <2>1 DEF Lists, ToSet, IsInjective, Surjection, Injection
  <2>3. IsFiniteSet(1 .. Len(x)) /\ Cardinality(1 .. Len(x)) = Len(x) BY <2>1, CardinalityOfPlaces
  <2> QED BY <2>2, <2>3, FS_Surjection
<1> QED BY <1>1

LEMMA CandidatesAreAList ==
  ASSUME NEW candidates, IsCandidates(candidates)
  PROVE  candidates \in Seq(ToSet(candidates)) /\ Lists(candidates, ToSet(candidates))
<1> DEFINE S == ToSet(candidates)
<1>1. PICK c \in Nat :
        /\ candidates = [i \in 1 .. c |-> candidates[i]]
        /\ \A i, j \in 1 .. c : candidates[i].chunk = candidates[j].chunk => i = j
  BY DEF IsCandidates
<1>2. \A i \in 1 .. c : candidates[i] \in S BY <1>1 DEF ToSet
<1>3. IsInjective(candidates) BY <1>1 DEF IsInjective
<1> HIDE DEF S
<1>4. candidates \in [1 .. c -> S] BY <1>1, <1>2
<1>5. candidates \in Seq(S) BY <1>1, <1>4
<1> QED BY <1>3, <1>5 DEF Lists, S

\* The evidence is as long as the best of the candidates and names each once.
LEMMA BestOfAll ==
  ASSUME NEW candidates, IsCandidates(candidates),
         NEW list \in Seq(ToSet(candidates)), Lists(list, ToSet(candidates))
  PROVE  /\ Len(Best(list)) = Len(Best(candidates))
         /\ ToSet(Best(list)) \subseteq ToSet(candidates)
         /\ IsInjective(Best(list))
<1> DEFINE S == ToSet(candidates)
<1>1. candidates \in Seq(S) /\ Lists(candidates, S) BY CandidatesAreAList
<1> HIDE DEF S
<1>2. Len(list) = Len(candidates) BY <1>1, ListsAreAsLong DEF S
<1>3. Limit \in Nat BY SearchAssumption
<1>4. list \in Seq(S) /\ Lists(list, S) BY DEF S
<1> DEFINE m == UpTo(Len(list), Limit)
           best == Best(list)
<1>5. /\ m \in Nat /\ m <= Len(list) /\ best \in Seq(S) /\ Len(best) = m
      /\ \A i \in 1 .. m : best[i] = list[i]
  BY <1>3, <1>4, CutIs DEF Best
<1>6. Len(Best(candidates)) = m
  <2>1. Len(Cut(candidates, Limit)) = UpTo(Len(candidates), Limit) BY <1>1, <1>3, CutIs
  <2> QED BY <1>2, <2>1 DEF Best
<1> HIDE DEF m, best
<1>7. IsInjective(best)
  <2>1. Len(list) \in Nat /\ DOMAIN list = 1 .. Len(list) BY <1>4
  <2>2. \A i \in 1 .. m : i \in DOMAIN list BY <1>5, <2>1
  <2>3. DOMAIN best = 1 .. m BY <1>5
  <2>4. ASSUME NEW i \in 1 .. m, NEW j \in 1 .. m, best[i] = best[j] PROVE i = j
    <3>1. list[i] = list[j] BY <1>5, <2>4
    <3> QED BY <1>4, <2>2, <3>1 DEF Lists, IsInjective
  <2> QED BY <2>3, <2>4 DEF IsInjective
<1>8. ToSet(best) \subseteq S BY <1>5 DEF ToSet
<1> QED BY <1>5, <1>6, <1>7, <1>8 DEF S, best
-----------------------------------------------------------------------------
(* What a search makes of what it recalled. *)

RankingInv ==
  /\ IsRanking(search.recalled.bm25)
  /\ search.stage = "fused" => IsCandidates(search.candidates)
  /\ FusionRespectsAgreement /\ RerankKeepsCandidates

\* What a strategy yields is a ranking.
LEMMA RankingsAreRankings ==
  ASSUME NEW chunks, NEW ranking \in Rankings(chunks)
  PROVE  IsRanking(ranking)
<1>1. PICK n \in 0 .. RecallLimit : ranking \in [1 .. n -> chunks] BY DEF Rankings
<1>2. n \in Nat BY SearchAssumption
<1>3. \A i \in 1 .. n : ranking[i] \in ToSet(ranking) BY <1>1 DEF ToSet
<1>4. ranking \in [1 .. n -> ToSet(ranking)] BY <1>1, <1>3
<1> QED BY <1>2, <1>4 DEF IsRanking

LEMMA RankingStepKeeps ==
  ASSUME SearchInv, RankingInv, SearchNext
  PROVE  RankingInv'
<1> USE DEF RankingInv
<1>0. DOMAIN search = DOMAIN Start /\ DOMAIN search.recalled = DOMAIN Unranked BY DEF SearchInv, SearchBegan
<1>1. CASE UNCHANGED search
  BY <1>1 DEF FusionRespectsAgreement, RerankKeepsCandidates, Beats, Recalled
<1>2. CASE \/ RebuildIndex
           \/ \E document \in Documents, state \in {"ok", "bad", "gone"} : ChangeDocument(document, state)
  BY <1>1, <1>2 DEF RebuildIndex, ChangeDocument
<1>3. CASE Ask
  <2>1. PICK ranking \in Rankings(generations[Active].chunks) :
          search' = [search EXCEPT !.stage = "asked", !.generation = Active, !.recalled.bm25 = ranking]
    BY <1>3 DEF Ask
  <2>2. search'.stage = "asked" /\ search'.recalled.bm25 = ranking
    BY <1>0, <2>1 DEF Start, Unranked
  <2>3. IsRanking(ranking) BY RankingsAreRankings
  <2> QED BY <2>2, <2>3 DEF FusionRespectsAgreement, RerankKeepsCandidates
<1>4. CASE RecallVectors
  <2> DEFINE searched == SearchedIndex(search.generation)
             found == IF Compatible(searched) THEN {c \in ToSet(searched.vectors) : Trusted(c)} ELSE {}
  <2>1. PICK ranking \in Rankings(found) :
          search' = Fused([search.recalled EXCEPT !.embedding = ranking])
    BY <1>4, Zenon DEF RecallVectors
  <2>2. IsRanking(ranking) BY RankingsAreRankings
  <2> HIDE DEF found
  <2> DEFINE recalled == [search.recalled EXCEPT !.embedding = ranking]
             candidates == DedupeByParent(recalled, FuseWithRrf(recalled))
  <2>3. /\ recalled.bm25 = search.recalled.bm25 /\ recalled.embedding = ranking
        /\ DOMAIN recalled = DOMAIN Unranked
    BY <1>0 DEF Unranked
  <2>4. IsRecall(recalled) BY <2>2, <2>3 DEF IsRecall
  <2> HIDE DEF recalled
  <2>5. IsCandidates(candidates) /\ Agreed(recalled, candidates) BY <2>4, FusedAgrees
  <2>6. search' = [search EXCEPT !.stage = "fused", !.recalled = recalled, !.candidates = candidates]
    BY <2>1, Zenon DEF Fused, recalled
  <2> HIDE DEF candidates
  <2>7. search'.stage = "fused" /\ search'.recalled = recalled /\ search'.candidates = candidates
    BY <1>0, <2>6 DEF Start
  <2>8. FusionRespectsAgreement'
    <3>1. (search'.stage = "fused" => Agreed(search'.recalled, search'.candidates))
            => FusionRespectsAgreement'
      BY Zenon DEF FusionRespectsAgreement, Agreed, Beats, BeatsIn, Recalled, FoundIn
    <3> QED BY <2>5, <2>7, <3>1
  <2>9. RerankKeepsCandidates' BY <2>7 DEF RerankKeepsCandidates
  <2> QED BY <2>3, <2>5, <2>7, <2>8, <2>9
<1>5. ASSUME NEW failed, NEW list, search' = Answered(failed, list), search.stage = "fused",
             list \in Seq(ToSet(search.candidates)), Lists(list, ToSet(search.candidates)),
             failed => list = search.candidates
      PROVE  RankingInv'
  <2>1. /\ search'.stage = "answered" /\ search'.failed = failed /\ search'.results = Best(list)
        /\ search'.recalled = search.recalled /\ search'.candidates = search.candidates
    BY <1>0, <1>5 DEF Answered, Start
  <2>2. IsCandidates(search.candidates) BY <1>5
  <2>3. /\ Len(Best(list)) = Len(Best(search.candidates))
        /\ ToSet(Best(list)) \subseteq ToSet(search.candidates)
        /\ IsInjective(Best(list))
    BY <1>5, <2>2, BestOfAll
  <2>4. failed => Best(list) = Best(search.candidates) BY <1>5
  <2>5. RerankKeepsCandidates' BY <2>1, <2>3, <2>4 DEF RerankKeepsCandidates
  <2>6. FusionRespectsAgreement' BY <2>1 DEF FusionRespectsAgreement
  <2> QED BY <2>1, <2>5, <2>6
<1>6. CASE SkipRerank
  <2>1. search.stage = "fused" /\ search' = Answered(TRUE, search.candidates) BY <1>6 DEF SkipRerank
  <2>2. /\ search.candidates \in Seq(ToSet(search.candidates))
        /\ Lists(search.candidates, ToSet(search.candidates))
    BY <2>1, CandidatesAreAList
  <2> QED BY <1>5, <2>1, <2>2
<1>7. CASE Rerank
  <2>1. PICK response \in Responses : search' = Answered(FALSE, Reranked(search.candidates, response))
    BY <1>7 DEF Rerank
  <2>2. search.stage = "fused" BY <1>7 DEF Rerank
  <2> DEFINE ids == {c.chunk : c \in ToSet(search.candidates)} \cup {"unknown"}
  <2>3. PICK n \in 0 .. Returned : response \in [1 .. n -> [id : ids, score : Scores]]
    BY DEF Responses
  <2>4. n \in Nat /\ DOMAIN response = 1 .. n /\ \A i \in 1 .. n : response[i].score \in Int
    <3>1. n \in Nat /\ DOMAIN response = 1 .. n BY <2>3, SearchAssumption
    <3>2. ASSUME NEW i \in 1 .. n PROVE response[i].score \in Scores BY <2>3
    <3> QED BY <3>1, <3>2, SearchAssumption
  <2>5. /\ Reranked(search.candidates, response) \in Seq(ToSet(search.candidates))
        /\ Lists(Reranked(search.candidates, response), ToSet(search.candidates))
    BY <2>2, <2>4, RerankedLists
  <2> QED BY <1>5, <2>1, <2>2, <2>5
<1> QED BY <1>2, <1>3, <1>4, <1>6, <1>7 DEF SearchNext

LEMMA RankingBegins == SearchInit => RankingInv
<1> SUFFICES ASSUME SearchInit PROVE RankingInv OBVIOUS
<1>1. search = Start BY DEF SearchInit
<1>2. search.stage = "idle" /\ search.recalled.bm25 = <<>> BY <1>1 DEF Start, Unranked
<1>3. IsRanking(<<>>) BY DEF IsRanking
<1> QED BY <1>2, <1>3 DEF RankingInv, FusionRespectsAgreement, RerankKeepsCandidates

\* Every reachable state has these parts too.
THEOREM RankingInductive == SearchSpec => []RankingInv
<1>1. RankingInv /\ UNCHANGED searchVars => RankingInv'
  BY DEF searchVars, RankingInv, FusionRespectsAgreement, RerankKeepsCandidates, Beats, Recalled
<1>2. SearchInv /\ RankingInv /\ [SearchNext]_searchVars => RankingInv' BY <1>1, RankingStepKeeps
<1> QED BY RankingBegins, SearchInductive, <1>2, PTL DEF SearchSpec

\* For any rankings of any chunks, fusion and the choice of one candidate a
\* document put nothing before what beats it in both.
THEOREM FusionKeepsAgreement == SearchSpec => []FusionRespectsAgreement
<1>1. RankingInv => FusionRespectsAgreement BY DEF RankingInv
<1> QED BY <1>1, RankingInductive, PTL

\* For any response of a reranker, the evidence is as much as without it.
THEOREM RerankOnlyOrders == SearchSpec => []RerankKeepsCandidates
<1>1. RankingInv => RerankKeepsCandidates BY DEF RankingInv
<1> QED BY <1>1, RankingInductive, PTL

-----------------------------------------------------------------------------
(* Sums, and numbers in order. *)

\* What holds of 0 and goes on from each number to the next holds up to n.
LEMMA UpTo0 ==
  ASSUME NEW n \in Nat, NEW P, 0 \in P, \A i \in 1 .. n : i - 1 \in P => i \in P
  PROVE  0 .. n \subseteq P
<1> DEFINE bad == (0 .. n) \ P
<1> SUFFICES ASSUME bad # {} PROVE FALSE OBVIOUS
<1>1. IsFiniteSet(bad) /\ bad \subseteq Int
  <2>1. IsFiniteSet(0 .. n) BY FS_Interval
  <2> QED BY <2>1, FS_Subset
<1>2. Min(bad) \in bad /\ \A x \in bad : Min(bad) <= x BY <1>1, LeastAndGreatest
<1> DEFINE m == Min(bad)
<1> HIDE DEF m
<1>3. m \in 0 .. n /\ m \notin P /\ \A x \in bad : m <= x BY <1>2 DEF m
<1>4. m # 0 /\ m - 1 \in 0 .. n BY <1>3
<1>5. m - 1 \in P BY <1>3, <1>4
<1> QED BY <1>3, <1>4, <1>5

\* The sums of the first numbers of a sequence.
Sums(f, sizes, n) == f \in [0 .. n -> Nat] /\ f[0] = 0 /\ \A i \in 1 .. n : f[i] = f[i - 1] + sizes[i]

LEMMA SumsExist ==
  ASSUME NEW L \in Nat, NEW sizes \in [1 .. L -> Nat]
  PROVE  \E f : Sums(f, sizes, L)
<1> DEFINE P == {n \in 0 .. L : \E f : Sums(f, sizes, n)}
<1>1. 0 \in P
  <2>1. Sums([i \in 0 .. 0 |-> 0], sizes, 0) BY DEF Sums
  <2> QED BY <2>1
<1>2. ASSUME NEW n \in 1 .. L, n - 1 \in P PROVE n \in P
  <2>1. PICK f : Sums(f, sizes, n - 1) BY <1>2
  <2> DEFINE g == [i \in 0 .. n |-> IF i = n THEN f[n - 1] + sizes[n] ELSE f[i]]
  <2>2. \A i \in 0 .. n - 1 : f[i] \in Nat BY <2>1 DEF Sums
  <2>3. \A i \in 1 .. n - 1 : f[i] = f[i - 1] + sizes[i] BY <2>1 DEF Sums
  <2>4. f[0] = 0 BY <2>1 DEF Sums
  <2>5. g \in [0 .. n -> Nat] BY <2>2
  <2>6. g[0] = 0 BY <2>4
  <2>7. \A i \in 1 .. n : g[i] = g[i - 1] + sizes[i]
    <3>1. g[n] = f[n - 1] + sizes[n] /\ \A i \in 0 .. n - 1 : g[i] = f[i] OBVIOUS
    <3> HIDE DEF g
    <3>2. g[n] = g[n - 1] + sizes[n] BY <3>1
    <3>3. ASSUME NEW i \in 1 .. n, i # n PROVE g[i] = g[i - 1] + sizes[i]
      <4>1. i \in 1 .. n - 1 /\ i \in 0 .. n - 1 /\ i - 1 \in 0 .. n - 1 BY <3>3
      <4> QED BY <2>3, <3>1, <4>1
    <3> QED BY <3>2, <3>3
  <2> HIDE DEF g
  <2>8. Sums(g, sizes, n) BY <2>5, <2>6, <2>7 DEF Sums
  <2> QED BY <2>8
<1> HIDE DEF P
<1>3. 0 .. L \subseteq P BY <1>1, <1>2, UpTo0
<1> QED BY <1>3 DEF P

LEMMA SumsAgree ==
  ASSUME NEW L \in Nat, NEW f, NEW g, NEW sizes, NEW others,
         Sums(f, sizes, L), f[0] = g[0], \A i \in 1 .. L : g[i] = g[i - 1] + others[i] /\ others[i] = sizes[i]
  PROVE  \A i \in 0 .. L : g[i] = f[i]
<1> DEFINE P == {i \in 0 .. L : g[i] = f[i]}
<1>1. 0 \in P OBVIOUS
<1>2. \A i \in 1 .. L : i - 1 \in P => i \in P BY DEF Sums
<1> HIDE DEF P
<1>3. 0 .. L \subseteq P BY <1>1, <1>2, UpTo0
<1> QED BY <1>3 DEF P

LEMMA TotalIs ==
  ASSUME NEW sizes \in Seq(Nat), NEW f, Sums(f, sizes, Len(sizes))
  PROVE  Total(sizes) = f[Len(sizes)]
<1> DEFINE L == Len(sizes)
           F(h) == [n \in 0 .. L |-> IF n = 0 THEN 0 ELSE h[n - 1] + sizes[n]]
           sum == CHOOSE h : h = F(h)
<1>1. L \in Nat OBVIOUS
<1>2. f = F(f)
  <2>1. f = [n \in 0 .. L |-> f[n]] BY DEF Sums
  <2>2. \A n \in 0 .. L : f[n] = IF n = 0 THEN 0 ELSE f[n - 1] + sizes[n] BY DEF Sums
  <2> QED BY <2>1, <2>2
<1>3. sum = F(sum) BY <1>2
<1>4. Total(sizes) = sum[L] BY DEF Total
<1> HIDE DEF sum
<1>5. \A n \in 0 .. L : sum[n] = IF n = 0 THEN 0 ELSE sum[n - 1] + sizes[n] BY <1>3
<1>6. sum[0] = 0 /\ \A n \in 1 .. L : sum[n] = sum[n - 1] + sizes[n] BY <1>1, <1>5
<1>7. f[0] = 0 /\ Sums(f, sizes, L) BY DEF Sums
<1> HIDE DEF L
<1>8. \A n \in 0 .. L : sum[n] = f[n] BY <1>1, <1>6, <1>7, SumsAgree
<1>9. L \in 0 .. L BY <1>1
<1> QED BY <1>4, <1>8, <1>9 DEF L

LEMMA Differences ==
  ASSUME NEW a \in Nat, NEW b \in Nat, NEW c \in Nat, NEW d \in Nat, a = b + d
  PROVE  a - c = b - c + d
OBVIOUS

\* What the members of a stretch add up to is the difference of two sums.
LEMMA TotalOfStretch ==
  ASSUME NEW sizes \in Seq(Nat), NEW f, Sums(f, sizes, Len(sizes)),
         NEW i \in 1 .. Len(sizes), NEW j \in i .. Len(sizes)
  PROVE  Total(SubSeq(sizes, i, j)) = f[j] - f[i - 1]
<1> DEFINE part == SubSeq(sizes, i, j)
           k == j - i + 1
           g == [n \in 0 .. k |-> f[i - 1 + n] - f[i - 1]]
<1>1. Len(sizes) \in Nat /\ k \in Nat OBVIOUS
<1>2. part \in Seq(Nat) /\ Len(part) = k /\ \A n \in 1 .. k : part[n] = sizes[i + n - 1]
  <2>1. part = [n \in 1 .. k |-> sizes[i + n - 1]] /\ k \in Nat OBVIOUS
  <2>2. \A n \in 1 .. k : sizes[i + n - 1] \in Nat
    <3>1. \A n \in 1 .. k : i + n - 1 \in 1 .. Len(sizes) OBVIOUS
    <3> QED BY <3>1
  <2> HIDE DEF part, k
  <2>3. part \in [1 .. k -> Nat] BY <2>1, <2>2
  <2>4. k \in Nat BY <2>1
  <2>5. part \in Seq(Nat) BY <2>3, <2>4, IsASeq
  <2>6. Len(part) = k BY <2>3, <2>4, <2>5, LenProperties
  <2> QED BY <2>1, <2>5, <2>6
<1>3. /\ \A n \in 0 .. Len(sizes) : f[n] \in Nat
      /\ \A n \in 1 .. Len(sizes) : f[n] = f[n - 1] + sizes[n] /\ sizes[n] \in Nat
  <2> HIDE DEF part, k, g
  <2>1. \A n \in 1 .. Len(sizes) : sizes[n] \in Nat BY <1>1
  <2>2. f \in [0 .. Len(sizes) -> Nat] /\ \A n \in 1 .. Len(sizes) : f[n] = f[n - 1] + sizes[n] BY DEF Sums
  <2> QED BY <2>1, <2>2
<1>4. PICK h : Sums(h, part, k)
  <2> HIDE DEF part, k
  <2>1. part \in [1 .. k -> Nat] BY <1>1, <1>2
  <2> QED BY <1>1, <2>1, SumsExist
<1>5. g[0] = 0
  <2>1. 0 \in 0 .. k /\ i - 1 \in 0 .. Len(sizes) OBVIOUS
  <2>2. g[0] = f[i - 1] - f[i - 1]
    <3>1. i - 1 + 0 = i - 1 OBVIOUS
    <3> QED BY <2>1, <3>1
  <2>3. f[i - 1] \in Nat BY <1>3, <2>1
  <2> HIDE DEF g
  <2> QED BY <2>2, <2>3
<1>6. \A n \in 1 .. k : g[n] = g[n - 1] + part[n]
  <2> SUFFICES ASSUME NEW n \in 1 .. k PROVE g[n] = g[n - 1] + part[n] OBVIOUS
  <2>1. n \in 0 .. k /\ n - 1 \in 0 .. k OBVIOUS
  <2>2. g[n] = f[i - 1 + n] - f[i - 1] /\ g[n - 1] = f[i - 1 + (n - 1)] - f[i - 1] BY <2>1
  <2>3. i - 1 \in 0 .. Len(sizes) /\ i + n - 1 \in 1 .. Len(sizes) /\ i + n - 2 \in 0 .. Len(sizes)
    OBVIOUS
  <2> DEFINE m == i + n - 1
  <2>4. i - 1 + n = m /\ i - 1 + (n - 1) = m - 1 /\ m \in 1 .. Len(sizes) /\ m - 1 \in 0 .. Len(sizes)
    BY <2>3
  <2>5. part[n] = sizes[m] BY <1>2
  <2>8. g[n] = f[m] - f[i - 1] /\ g[n - 1] = f[m - 1] - f[i - 1]
    <3> HIDE DEF g
    <3> QED BY <2>2, <2>4
  <2> HIDE DEF g, part, m, k
  <2>6. f[m] = f[m - 1] + sizes[m] BY <1>3, <2>4
  <2>7. f[m] \in Nat /\ f[m - 1] \in Nat /\ f[i - 1] \in Nat /\ sizes[m] \in Nat BY <1>3, <2>3, <2>4
  <2>9. f[m] - f[i - 1] = f[m - 1] - f[i - 1] + sizes[m] BY <2>6, <2>7, Differences
  <2> QED BY <2>5, <2>8, <2>9
<1>7. h[0] = g[0] BY <1>4, <1>5 DEF Sums
<1>8. Total(part) = h[k] BY <1>2, <1>4, TotalIs
<1>9. g[k] = f[j] - f[i - 1]
  <2>1. k \in 0 .. k /\ i - 1 + k = j OBVIOUS
  <2> QED BY <2>1
<1> HIDE DEF g, part, k
<1>10. \A n \in 0 .. k : g[n] = h[n] BY <1>1, <1>4, <1>6, <1>7, SumsAgree
<1>11. k \in 0 .. k BY <1>1
<1> QED BY <1>8, <1>9, <1>10, <1>11 DEF part

LEMMA SumsGrow ==
  ASSUME NEW L \in Nat, NEW sizes \in [1 .. L -> Nat], NEW f, Sums(f, sizes, L)
  PROVE  \A m, n \in 0 .. L : m <= n => f[m] <= f[n]
<1> SUFFICES ASSUME NEW m \in 0 .. L PROVE \A n \in 0 .. L : m <= n => f[m] <= f[n] OBVIOUS
<1> DEFINE P == {n \in 0 .. L : m <= n => f[m] <= f[n]}
<1>1. \A n \in 0 .. L : f[n] \in Nat BY DEF Sums
<1>2. 0 \in P BY <1>1
<1>3. ASSUME NEW n \in 1 .. L, n - 1 \in P PROVE n \in P
  <2>1. f[n] = f[n - 1] + sizes[n] /\ sizes[n] \in Nat BY DEF Sums
  <2>2. f[m] \in Nat /\ f[n] \in Nat /\ f[n - 1] \in Nat BY <1>1
  <2>3. CASE m <= n - 1 BY <1>3, <2>1, <2>2, <2>3
  <2>4. CASE m > n - 1
    <3>1. m >= n BY <2>4
    <3>2. CASE m = n BY <2>2, <3>2
    <3>3. CASE m > n BY <3>3
    <3> QED BY <3>1, <3>2, <3>3
  <2> QED BY <2>3, <2>4
<1> HIDE DEF P
<1>4. 0 .. L \subseteq P BY <1>2, <1>3, UpTo0
<1> QED BY <1>4 DEF P

\* Numbers in increasing order.
LEMMA InOrderLists ==
  ASSUME NEW P, IsFiniteSet(P), P \subseteq Int
  PROVE  /\ Cardinality(P) \in Nat
         /\ InOrder(P) \in [1 .. Cardinality(P) -> P]
         /\ Lists(InOrder(P), P)
         /\ \A i, j \in 1 .. Cardinality(P) : i < j => InOrder(P)[i] < InOrder(P)[j]
<1> DEFINE k == Cardinality(P)
           r == Ranked(P, Ascending(P))
           o == InOrder(P)
           Below(p) == {q \in P : q < p}
<1>1. /\ k \in Nat /\ r \in [1 .. k -> P] /\ Lists(r, P)
      /\ \A i, j \in 1 .. k : i < j => r[i] < r[j]
  BY PlacesInOrder
<1>2. \A n \in 1 .. k : Cardinality(Below(r[n])) = n - 1
  <2> HIDE DEF k, r
  <2> SUFFICES ASSUME NEW n \in 1 .. k PROVE Cardinality(Below(r[n])) = n - 1 OBVIOUS
  <2> DEFINE Q == 1 .. n - 1
             g == [i \in Q |-> r[i]]
  <2>1. IsFiniteSet(Q) /\ Cardinality(Q) = n - 1 BY <1>1, CardinalityOfPlaces
  <2>2. \A i \in Q : i \in 1 .. k /\ i < n BY <1>1
  <2>3. \A i \in Q : g[i] \in Below(r[n]) BY <1>1, <2>2
  <2>4. \A i, j \in Q : g[i] = g[j] => i = j
    <3> SUFFICES ASSUME NEW i \in Q, NEW j \in Q, r[i] = r[j] PROVE i = j OBVIOUS
    <3> QED BY <1>1, <2>2 DEF Lists, IsInjective
  <2>5. ASSUME NEW q \in Below(r[n]) PROVE \E i \in Q : g[i] = q
    <3>1. PICK i \in 1 .. k : r[i] = q BY <1>1 DEF Lists, ToSet
    <3>2. r[i] \in Int /\ r[n] \in Int /\ r[i] < r[n] BY <1>1, <3>1
    <3>3. ~(n < i) /\ i # n BY <1>1, <3>2
    <3>4. i \in Q BY <1>1, <3>3
    <3> QED BY <3>1, <3>4
  <2>6. g \in Bijection(Q, Below(r[n]))
    <3> HIDE DEF Q
    <3>1. g \in [Q -> Below(r[n])] BY <2>3
    <3>2. g \in Injection(Q, Below(r[n])) BY <2>4, <3>1 DEF Injection, IsInjective
    <3>3. g \in Surjection(Q, Below(r[n])) BY <2>5, <3>1 DEF Surjection
    <3> QED BY <3>2, <3>3 DEF Bijection
  <2>7. ExistsBijection(Q, Below(r[n])) BY <2>6 DEF ExistsBijection
  <2> HIDE DEF Q
  <2> QED BY <2>1, <2>7, FS_Bijection
<1>3. o = [n \in 1 .. k |-> CHOOSE p \in P : Cardinality(Below(p)) = n - 1] BY DEF InOrder
<1> HIDE DEF o, r, k
<1>4. ASSUME NEW n \in 1 .. k PROVE o[n] = r[n]
  <2>1. r[n] \in P /\ Cardinality(Below(r[n])) = n - 1 BY <1>1, <1>2
  <2>2. o[n] = CHOOSE p \in P : Cardinality(Below(p)) = n - 1 BY <1>3
  <2>3. o[n] \in P /\ Cardinality(Below(o[n])) = n - 1 BY <2>1, <2>2
  <2>4. PICK m \in 1 .. k : r[m] = o[n] BY <1>1, <2>3 DEF Lists, ToSet
  <2>5. Cardinality(Below(r[m])) = m - 1 BY <1>2
  <2>6. m - 1 = n - 1 BY <2>3, <2>4, <2>5
  <2> QED BY <1>1, <2>4, <2>6
<1>5. o = r BY <1>1, <1>3, <1>4
<1> QED BY <1>1, <1>5 DEF o, k

-----------------------------------------------------------------------------
(* Slices. *)

\* The stages of slicing, of a text as the parser yields it.
LEMMA IncludedInOrder ==
  ASSUME NEW items \in Seq(Paragraphs)
  PROVE  LET N == NormalizeSourceBlocks(SourceBlocks(items))
             kept == {n \in DOMAIN items : ExcludedReason(SourceBlocks(items), SourceBlocks(items)[n]) = "none"}
             L == Cardinality(kept)
         IN  /\ L \in Nat /\ IsFiniteSet(kept) /\ kept \subseteq Nat
             /\ Included(N) \in Seq(ToSet(N)) /\ Len(Included(N)) = L
             /\ \A n \in 1 .. L :
                  /\ InOrder(kept)[n] \in kept
                  /\ Included(N)[n].order = InOrder(kept)[n]
                  /\ Included(N)[n].text \in DOMAIN Sentences
<1> DEFINE B == SourceBlocks(items)
           N == NormalizeSourceBlocks(B)
           kept == {n \in DOMAIN items : ExcludedReason(B, B[n]) = "none"}
           L == Cardinality(kept)
           o == InOrder(kept)
<1>1. DOMAIN items = 1 .. Len(items) /\ Len(items) \in Nat OBVIOUS
<1>2. IsFiniteSet(kept) /\ kept \subseteq DOMAIN items
  <2>1. kept \subseteq DOMAIN items /\ IsFiniteSet(1 .. Len(items)) BY <1>1, FS_Interval
  <2> QED BY <1>1, <2>1, FS_Subset
<1>3. DOMAIN B = DOMAIN items /\ \A n \in DOMAIN items : B[n].order = n /\ B[n].text = items[n].text
  BY DEF SourceBlocks
<1>4. DOMAIN N = DOMAIN items
  BY <1>3 DEF NormalizeSourceBlocks
<1>5. \A n \in DOMAIN items : /\ N[n].order = n /\ N[n].text = items[n].text
                              /\ N[n].excluded = ExcludedReason(B, B[n])
  <2> HIDE DEF B
  <2> QED BY <1>3 DEF NormalizeSourceBlocks
<1>6. kept = {n \in DOMAIN N : N[n].excluded = "none"} BY <1>4, <1>5
<1> HIDE DEF kept, N, B
<1>7. kept \subseteq Int BY <1>1, <1>2
<1>8. L \in Nat /\ o \in [1 .. L -> kept] BY <1>2, <1>7, InOrderLists
<1>9. Included(N) = [n \in DOMAIN o |-> N[o[n]]] BY <1>6 DEF Included
<1> HIDE DEF L, o
<1>10. \A n \in 1 .. L : o[n] \in DOMAIN items BY <1>2, <1>8
<1>11. Included(N) = [n \in 1 .. L |-> N[o[n]]] BY <1>8, <1>9
<1>12. Included(N) \in [1 .. L -> ToSet(N)]
  <2>1. \A n \in 1 .. L : N[o[n]] \in ToSet(N) BY <1>4, <1>10 DEF ToSet
  <2> QED BY <1>11, <2>1
<1>13. Included(N) \in Seq(ToSet(N)) /\ Len(Included(N)) = L
  <2>1. Included(N) \in Seq(ToSet(N)) BY <1>8, <1>12, IsASeq
  <2> QED BY <1>8, <1>12, <2>1, LenProperties
<1>14. \A n \in DOMAIN items : items[n].text \in DOMAIN Sentences BY ParagraphAssumption
<1>15. ASSUME NEW n \in 1 .. L
       PROVE  o[n] \in kept /\ Included(N)[n].order = o[n] /\ Included(N)[n].text \in DOMAIN Sentences
  <2>1. Included(N)[n] = N[o[n]] BY <1>11
  <2>2. o[n] \in DOMAIN items BY <1>10
  <2>3. o[n] \in kept BY <1>8
  <2> QED BY <1>5, <1>14, <2>1, <2>2, <2>3
<1>16. kept \subseteq Nat BY <1>1, <1>2
<1> QED BY <1>2, <1>8, <1>13, <1>15, <1>16 DEF L, o, kept, N, B

\* The start of the part of each block, from the one before.
Starting(f, blocks, n) ==
  /\ f \in [0 .. n -> Nat]
  /\ f[0] = 0
  /\ \A i \in 1 .. n : f[i] = IF BeginsPart(blocks, i, f[i - 1]) THEN i ELSE f[i - 1]

LEMMA StartsExist ==
  ASSUME NEW L \in Nat, NEW blocks
  PROVE  \E f : Starting(f, blocks, L)
<1> DEFINE P == {n \in 0 .. L : \E f : Starting(f, blocks, n)}
           After(f, i) == IF BeginsPart(blocks, i, f[i - 1]) THEN i ELSE f[i - 1]
<1>1. 0 \in P
  <2>1. Starting([i \in 0 .. 0 |-> 0], blocks, 0) BY DEF Starting
  <2> QED BY <2>1
<1>2. ASSUME NEW n \in 1 .. L, n - 1 \in P PROVE n \in P
  <2>1. PICK f : Starting(f, blocks, n - 1) BY <1>2
  <2> DEFINE g == [i \in 0 .. n |-> IF i = n THEN After(f, n) ELSE f[i]]
  <2>2. \A i \in 0 .. n - 1 : f[i] \in Nat BY <2>1 DEF Starting
  <2>3. \A i \in 1 .. n - 1 : f[i] = After(f, i) BY <2>1 DEF Starting
  <2>4. f[0] = 0 BY <2>1 DEF Starting
  <2>5. After(f, n) \in Nat
    <3>1. n - 1 \in 0 .. n - 1 OBVIOUS
    <3> QED BY <2>2, <3>1
  <2>a. g \in [0 .. n -> Nat]
    <3> HIDE DEF After
    <3> QED BY <2>2, <2>5
  <2>6. g[0] = 0
    <3> HIDE DEF After
    <3> QED BY <2>4
  <2>7. \A i \in 1 .. n : g[i] = After(g, i)
    <3>1. g[n] = After(f, n) /\ \A i \in 0 .. n - 1 : g[i] = f[i]
      <4> HIDE DEF After
      <4> QED OBVIOUS
    <3> HIDE DEF g
    <3>2. g[n] = After(g, n)
      <4>1. g[n - 1] = f[n - 1] BY <3>1
      <4> QED BY <3>1, <4>1
    <3>3. ASSUME NEW i \in 1 .. n, i # n PROVE g[i] = After(g, i)
      <4>1. i \in 1 .. n - 1 /\ i \in 0 .. n - 1 /\ i - 1 \in 0 .. n - 1 BY <3>3
      <4>2. g[i] = f[i] /\ g[i - 1] = f[i - 1] BY <3>1, <4>1
      <4>3. f[i] = After(f, i) BY <2>3, <4>1
      <4> QED BY <4>2, <4>3
    <3> QED BY <3>2, <3>3
  <2> HIDE DEF g
  <2>8. Starting(g, blocks, n) BY <2>a, <2>6, <2>7 DEF Starting
  <2> QED BY <2>8
<1> HIDE DEF P
<1>3. 0 .. L \subseteq P BY <1>1, <1>2, UpTo0
<1> QED BY <1>3 DEF P

LEMMA PartStartIs ==
  ASSUME NEW S, NEW blocks \in Seq(S)
  PROVE  Starting(PartStart(blocks), blocks, Len(blocks))
<1> DEFINE L == Len(blocks)
           F(h) == [n \in 0 .. L |-> IF n = 0 THEN 0
                                     ELSE IF BeginsPart(blocks, n, h[n - 1]) THEN n ELSE h[n - 1]]
           start == CHOOSE h : h = F(h)
<1>1. L \in Nat OBVIOUS
<1>2. PICK f : Starting(f, blocks, L) BY <1>1, StartsExist
<1>3. f = F(f)
  <2>1. f = [n \in 0 .. L |-> f[n]] BY <1>2 DEF Starting
  <2>2. \A n \in 0 .. L : f[n] = IF n = 0 THEN 0
                                 ELSE IF BeginsPart(blocks, n, f[n - 1]) THEN n ELSE f[n - 1]
    BY <1>2 DEF Starting
  <2> QED BY <2>1, <2>2
<1>4. start = F(start) BY <1>3
<1>5. PartStart(blocks) = start BY DEF PartStart
<1> HIDE DEF start, L
<1>6. /\ start = [n \in 0 .. L |-> start[n]]
      /\ \A n \in 0 .. L : start[n] = IF n = 0 THEN 0
                            ELSE IF BeginsPart(blocks, n, start[n - 1]) THEN n ELSE start[n - 1]
  <2> DEFINE g == F(start)
  <2>1. DOMAIN g = 0 .. L OBVIOUS
  <2>2. \A n \in 0 .. L : g[n] = IF n = 0 THEN 0
                            ELSE IF BeginsPart(blocks, n, start[n - 1]) THEN n ELSE start[n - 1]
    OBVIOUS
  <2>3. g = [n \in 0 .. L |-> g[n]] OBVIOUS
  <2>4. start = g BY <1>4
  <2> HIDE DEF g
  <2> QED BY <2>2, <2>3, <2>4
<1>7. \A n \in 1 .. L : start[n] = IF BeginsPart(blocks, n, start[n - 1]) THEN n ELSE start[n - 1]
  BY <1>1, <1>6
<1>8. start[0] = 0 BY <1>1, <1>6
<1>9. \A n \in 0 .. L : start[n] \in Nat
  <2> DEFINE P == {n \in 0 .. L : start[n] \in Nat}
  <2>1. 0 \in P BY <1>1, <1>8
  <2>2. \A n \in 1 .. L : n - 1 \in P => n \in P
    <3> SUFFICES ASSUME NEW n \in 1 .. L, start[n - 1] \in Nat PROVE start[n] \in Nat /\ n \in 0 .. L
      OBVIOUS
    <3>1. start[n] = n \/ start[n] = start[n - 1] BY <1>7
    <3> QED BY <1>1, <3>1
  <2> HIDE DEF P
  <2>3. 0 .. L \subseteq P BY <1>1, <2>1, <2>2, UpTo0
  <2> QED BY <2>3 DEF P
<1>10. start \in [0 .. L -> Nat] BY <1>6, <1>9
<1> QED BY <1>5, <1>7, <1>8, <1>10 DEF Starting, L

\* A part is a stretch of blocks, all with the start of the first.
LEMMA PartsAreStretches ==
  ASSUME NEW S, NEW blocks \in Seq(S), NEW n \in 1 .. Len(blocks)
  PROVE  LET start == PartStart(blocks)
         IN  /\ start[n] \in 1 .. n
             /\ \A k \in start[n] .. n : start[k] = start[n]
<1> DEFINE L == Len(blocks)
           start == PartStart(blocks)
           Stretch(i) == start[i] \in 1 .. i /\ \A k \in start[i] .. i : start[k] = start[i]
           P == {i \in 0 .. L : i = 0 \/ Stretch(i)}
<1>1. L \in Nat OBVIOUS
<1>2. \A i \in 1 .. L : start[i] = IF BeginsPart(blocks, i, start[i - 1]) THEN i ELSE start[i - 1]
  BY PartStartIs DEF Starting
<1>3. BeginsPart(blocks, 1, start[0]) BY DEF BeginsPart, Opens
<1> HIDE DEF start, L
<1>4. 0 \in P BY <1>1
<1>5. ASSUME NEW i \in 1 .. L, i - 1 \in P PROVE i \in P
  <2>1. CASE start[i] = i BY <2>1
  <2>2. CASE start[i] # i
    <3>1. ~BeginsPart(blocks, i, start[i - 1]) /\ start[i] = start[i - 1] BY <1>2, <2>2
    <3>2. i # 1
      <4> SUFFICES ASSUME i = 1 PROVE FALSE OBVIOUS
      <4>1. i - 1 = 0 OBVIOUS
      <4> QED BY <1>3, <3>1, <4>1
    <3>3. Stretch(i - 1) BY <1>5, <3>2
    <3>4. start[i] \in 1 .. i BY <3>1, <3>3
    <3>5. ASSUME NEW k \in start[i] .. i, k # i PROVE start[k] = start[i]
      <4>1. k \in start[i - 1] .. i - 1 BY <3>1, <3>4, <3>5
      <4> QED BY <3>1, <3>3, <4>1
    <3> QED BY <3>4, <3>5
  <2> QED BY <2>1, <2>2
<1> HIDE DEF P
<1>6. 0 .. L \subseteq P BY <1>1, <1>4, <1>5, UpTo0
<1>7. n \in 0 .. L /\ n # 0 BY <1>1 DEF L
<1>8. n \in P BY <1>6, <1>7
<1> QED BY <1>7, <1>8 DEF P, start

\* Where the slices begin, and where each of them ends.
Begins(blocks) == {n \in DOMAIN blocks : PartStart(blocks)[n] = n}
SliceFrom(blocks) == InOrder(Begins(blocks))
SliceTo(blocks, k) ==
  IF k = Cardinality(Begins(blocks)) THEN Len(blocks) ELSE SliceFrom(blocks)[k + 1] - 1

LEMMA SlicesBegin ==
  ASSUME NEW S, NEW blocks \in Seq(S)
  PROVE  LET c == Cardinality(Begins(blocks))
             from == SliceFrom(blocks)
         IN  /\ c \in Nat /\ from \in [1 .. c -> Begins(blocks)] /\ Lists(from, Begins(blocks))
             /\ \A k \in 1 .. c : from[k] \in 1 .. Len(blocks) /\ from[k] \in Begins(blocks)
             /\ \A i, j \in 1 .. c : i < j => from[i] < from[j]
<1> DEFINE P == Begins(blocks)
<1>1. DOMAIN blocks = 1 .. Len(blocks) /\ Len(blocks) \in Nat OBVIOUS
<1>2. P \subseteq 1 .. Len(blocks) BY <1>1 DEF Begins
<1>3. IsFiniteSet(1 .. Len(blocks)) BY <1>1, FS_Interval
<1>4. IsFiniteSet(P) /\ P \subseteq Int BY <1>1, <1>2, <1>3, FS_Subset
<1> HIDE DEF P
<1>5. /\ Cardinality(P) \in Nat /\ InOrder(P) \in [1 .. Cardinality(P) -> P] /\ Lists(InOrder(P), P)
      /\ \A i, j \in 1 .. Cardinality(P) : i < j => InOrder(P)[i] < InOrder(P)[j]
  BY <1>4, InOrderLists
<1>6. SliceFrom(blocks) = InOrder(P) BY DEF SliceFrom, P
<1>7. \A k \in 1 .. Cardinality(P) : InOrder(P)[k] \in P BY <1>5
<1> QED BY <1>2, <1>5, <1>6, <1>7 DEF P

\* Each block is in the slice that begins at the start of its part, and no other.
LEMMA SlicesDivide ==
  ASSUME NEW S, NEW blocks \in Seq(S)
  PROVE  LET c == Cardinality(Begins(blocks))
             from == SliceFrom(blocks)
         IN  /\ \A k \in 1 .. c : /\ SliceTo(blocks, k) \in from[k] .. Len(blocks)
                                  /\ \A n \in from[k] .. SliceTo(blocks, k) :
                                       n \in 1 .. Len(blocks) /\ PartStart(blocks)[n] = from[k]
             /\ \A n \in 1 .. Len(blocks) : \E k \in 1 .. c : n \in from[k] .. SliceTo(blocks, k)
             /\ \A i, j \in 1 .. c : i < j => SliceTo(blocks, i) < from[j]
<1> DEFINE L == Len(blocks)
           c == Cardinality(Begins(blocks))
           from == SliceFrom(blocks)
           to(k) == SliceTo(blocks, k)
           start == PartStart(blocks)
<1>1. L \in Nat OBVIOUS
<1>2. c \in Nat /\ Lists(from, Begins(blocks)) /\ from \in [1 .. c -> Begins(blocks)] BY SlicesBegin
<1>a. DOMAIN from = 1 .. c BY <1>2
<1>3. \A k \in 1 .. c : from[k] \in 1 .. L /\ from[k] \in Begins(blocks) BY SlicesBegin
<1>4. \A i, j \in 1 .. c : i < j => from[i] < from[j] BY SlicesBegin
<1>5. \A n \in 1 .. L : start[n] \in 1 .. n /\ \A k \in start[n] .. n : start[k] = start[n]
  BY PartsAreStretches
<1>6. \A n \in Begins(blocks) : start[n] = n BY DEF Begins
<1>7. \A n \in 1 .. L : start[n] = n => n \in Begins(blocks)
  <2>1. DOMAIN blocks = 1 .. L OBVIOUS
  <2> QED BY <2>1 DEF Begins
<1>8. \A k \in 1 .. c : to(k) = IF k = c THEN L ELSE from[k + 1] - 1 BY DEF SliceTo
<1> HIDE DEF L, c, from, to, start
<1>9. ASSUME NEW k \in 1 .. c PROVE to(k) \in from[k] .. L
  <2>1. CASE k = c BY <1>1, <1>3, <1>8, <2>1
  <2>2. CASE k # c
    <3>1. k + 1 \in 1 .. c /\ k < k + 1 BY <1>2, <2>2
    <3>2. from[k] < from[k + 1] /\ from[k + 1] \in 1 .. L /\ from[k] \in 1 .. L BY <1>3, <1>4, <3>1
    <3>3. to(k) = from[k + 1] - 1 BY <1>8, <2>2
    <3> QED BY <1>1, <3>2, <3>3
  <2> QED BY <2>1, <2>2
<1>10. ASSUME NEW i \in 1 .. c, NEW j \in 1 .. c, i < j PROVE to(i) < from[j]
  <2>1. i # c /\ i + 1 \in 1 .. c BY <1>2, <1>10
  <2>2. to(i) = from[i + 1] - 1 /\ from[i + 1] \in 1 .. L /\ from[j] \in 1 .. L BY <1>3, <1>8, <2>1
  <2>3. i + 1 = j \/ from[i + 1] < from[j] BY <1>4, <1>10, <2>1
  <2> QED BY <1>1, <2>2, <2>3
<1>11. ASSUME NEW k \in 1 .. c, NEW n \in from[k] .. to(k)
       PROVE  n \in 1 .. L /\ start[n] = from[k]
  <2>1. n \in 1 .. L /\ from[k] \in 1 .. L /\ from[k] <= n /\ n <= to(k) BY <1>1, <1>3, <1>9
  <2>2. start[n] \in 1 .. n /\ start[start[n]] = start[n] BY <1>5, <2>1
  <2>3. start[n] \in Begins(blocks) BY <1>1, <1>7, <2>1, <2>2
  <2>4. PICK m \in 1 .. c : from[m] = start[n] BY <1>2, <1>a, <2>3 DEF Lists, ToSet
  <2>5. ~(m > k)
    <3> SUFFICES ASSUME k < m PROVE FALSE BY <1>2
    <3>1. to(k) < from[m] /\ to(k) \in Int BY <1>1, <1>9, <1>10
    <3> QED BY <2>1, <2>2, <2>4, <3>1
  <2>6. ~(m < k)
    <3> SUFFICES ASSUME m < k PROVE FALSE OBVIOUS
    <3>1. from[m] < from[k] BY <1>4
    <3>2. from[k] \in start[n] .. n BY <2>1, <2>2, <2>4, <3>1
    <3>3. start[from[k]] = start[n] BY <1>5, <2>1, <3>2
    <3>4. start[from[k]] = from[k] BY <1>3, <1>6
    <3> QED BY <2>1, <2>4, <3>1, <3>3, <3>4
  <2>7. m = k BY <1>2, <2>5, <2>6
  <2> QED BY <2>1, <2>4, <2>7
<1>12. ASSUME NEW n \in 1 .. L PROVE \E k \in 1 .. c : n \in from[k] .. to(k)
  <2>1. start[n] \in 1 .. n /\ start[start[n]] = start[n] BY <1>5
  <2>2. start[n] \in Begins(blocks) BY <1>1, <1>7, <2>1
  <2>3. PICK k \in 1 .. c : from[k] = start[n] BY <1>2, <1>a, <2>2 DEF Lists, ToSet
  <2>4. n <= to(k)
    <3>1. CASE k = c BY <1>8, <3>1
    <3>2. CASE k # c
      <4> SUFFICES ASSUME to(k) < n PROVE FALSE BY <1>1, <1>9
      <4>1. k + 1 \in 1 .. c /\ k < k + 1 BY <1>2, <3>2
      <4>2. from[k] < from[k + 1] /\ from[k + 1] \in 1 .. L BY <1>3, <1>4, <4>1
      <4>3. from[k + 1] <= n BY <1>8, <3>2, <4>2
      <4>4. from[k + 1] \in start[n] .. n BY <2>1, <2>3, <4>2, <4>3
      <4>5. start[from[k + 1]] = start[n] BY <1>5, <4>4
      <4>6. start[from[k + 1]] = from[k + 1] BY <1>3, <1>6, <4>1
      <4> QED BY <2>3, <4>2, <4>5, <4>6
    <3> QED BY <3>1, <3>2
  <2>5. to(k) \in from[k] .. L BY <1>9
  <2> QED BY <1>1, <2>1, <2>3, <2>4, <2>5
<1> QED BY <1>9, <1>10, <1>11, <1>12 DEF L, c, from, to, start

LEMMA SliceBlocks ==
  ASSUME NEW S, NEW blocks \in Seq(S)
  PROVE  LET slices == BuildDraftSlices(blocks)
             c == Cardinality(Begins(blocks))
         IN  /\ DOMAIN slices = 1 .. c
             /\ \A k \in 1 .. c :
                  slices[k].blocks = SubSeq(blocks, SliceFrom(blocks)[k], SliceTo(blocks, k))
<1> DEFINE c == Cardinality(Begins(blocks))
           from == SliceFrom(blocks)
           slices == BuildDraftSlices(blocks)
<1>1. c \in Nat /\ from \in [1 .. c -> Begins(blocks)] BY SlicesBegin
<1>2. from \in Seq(Begins(blocks)) /\ Len(from) = c
  <2> HIDE DEF from, c
  <2>1. from \in Seq(Begins(blocks)) BY <1>1, IsASeq
  <2> QED BY <1>1, <2>1, LenProperties
<1>3. /\ DOMAIN slices = DOMAIN from
      /\ \A k \in DOMAIN from :
           slices[k].blocks = SubSeq(blocks, from[k], IF k = Len(from) THEN Len(blocks) ELSE from[k + 1] - 1)
  BY DEF BuildDraftSlices, SliceFrom, Begins
<1>4. \A k \in 1 .. c : SliceTo(blocks, k) = IF k = c THEN Len(blocks) ELSE from[k + 1] - 1 BY DEF SliceTo
<1> HIDE DEF c, from, slices
<1> QED BY <1>1, <1>2, <1>3, <1>4 DEF c, from, slices

\* The length of a stretch of blocks is the difference of two numbers.
Sizes(blocks) == [n \in DOMAIN blocks |-> Length(blocks[n].text)]
Measures(f, blocks) ==
  /\ \A n \in 0 .. Len(blocks) : f[n] \in Nat
  /\ \A m, n \in 0 .. Len(blocks) : m <= n => f[m] <= f[n]
  /\ \A n \in 1 .. Len(blocks) : Length(blocks[n].text) = f[n] - f[n - 1]
  /\ \A i \in 1 .. Len(blocks) : \A j \in i .. Len(blocks) :
       BlocksLength(SubSeq(blocks, i, j)) = f[j] - f[i - 1]

LEMMA TotalIsNat == ASSUME NEW sizes \in Seq(Nat) PROVE Total(sizes) \in Nat
<1>1. Len(sizes) \in Nat /\ sizes \in [1 .. Len(sizes) -> Nat] OBVIOUS
<1>2. PICK f : Sums(f, sizes, Len(sizes)) BY <1>1, SumsExist
<1>3. Total(sizes) = f[Len(sizes)] BY <1>2, TotalIs
<1> QED BY <1>1, <1>2, <1>3 DEF Sums

LEMMA LengthIsNat == ASSUME NEW name \in DOMAIN Sentences PROVE Length(name) \in Nat
<1> DEFINE said == Sentences[name]
           sentences == [size : Nat, ended : BOOLEAN]
           sizes == [n \in DOMAIN said |-> said[n].size]
<1>1. said \in Seq(sentences) BY SentenceAssumption
<1>a. \A x \in sentences : x.size \in Nat OBVIOUS
<1> HIDE DEF said, sentences
<1>2. Len(said) \in Nat /\ DOMAIN said = 1 .. Len(said) BY <1>1
<1>3. \A n \in 1 .. Len(said) : said[n].size \in Nat
  <2> SUFFICES ASSUME NEW n \in 1 .. Len(said) PROVE said[n].size \in Nat OBVIOUS
  <2>1. said[n] \in sentences BY <1>1
  <2> QED BY <1>a, <2>1
<1>4. sizes \in [1 .. Len(said) -> Nat] BY <1>2, <1>3
<1> HIDE DEF sizes
<1>5. sizes \in Seq(Nat) BY <1>2, <1>4, IsASeq
<1>6. Length(name) = Total(sizes) BY DEF Length, sizes, said
<1> QED BY <1>5, <1>6, TotalIsNat

LEMMA BlocksAreMeasured ==
  ASSUME NEW S, NEW blocks \in Seq(S), \A n \in 1 .. Len(blocks) : blocks[n].text \in DOMAIN Sentences
  PROVE  \E f : Measures(f, blocks)
<1> DEFINE L == Len(blocks)
           sizes == Sizes(blocks)
<1>1. L \in Nat /\ DOMAIN blocks = 1 .. L OBVIOUS
<1>2. \A n \in 1 .. L : Length(blocks[n].text) \in Nat BY LengthIsNat
<1>3. sizes = [n \in 1 .. L |-> Length(blocks[n].text)] BY <1>1 DEF Sizes
<1> HIDE DEF sizes, L
<1>4. sizes \in [1 .. L -> Nat] /\ \A n \in 1 .. L : sizes[n] = Length(blocks[n].text) BY <1>2, <1>3
<1>5. sizes \in Seq(Nat) BY <1>1, <1>4, IsASeq
<1>6. Len(sizes) = L BY <1>1, <1>4, <1>5, LenProperties
<1>7. PICK f : Sums(f, sizes, L) BY <1>1, <1>4, SumsExist
<1>8. \A n \in 0 .. L : f[n] \in Nat BY <1>7 DEF Sums
<1>9. \A m, n \in 0 .. L : m <= n => f[m] <= f[n] BY <1>1, <1>4, <1>7, SumsGrow
<1>10. ASSUME NEW n \in 1 .. L PROVE Length(blocks[n].text) = f[n] - f[n - 1]
  <2>1. f[n] = f[n - 1] + sizes[n] /\ sizes[n] \in Nat BY <1>4, <1>7 DEF Sums
  <2>2. f[n] \in Nat /\ f[n - 1] \in Nat BY <1>1, <1>8
  <2> QED BY <1>4, <2>1, <2>2
<1>11. ASSUME NEW i \in 1 .. L, NEW j \in i .. L
       PROVE  BlocksLength(SubSeq(blocks, i, j)) = f[j] - f[i - 1]
  <2> DEFINE part == SubSeq(blocks, i, j)
             own == SubSeq(sizes, i, j)
             k == j - i + 1
  <2>1. i \in 1 .. Len(sizes) /\ j \in i .. Len(sizes) /\ Sums(f, sizes, Len(sizes)) BY <1>6, <1>7
  <2>2. Total(own) = f[j] - f[i - 1] BY <1>5, <2>1, TotalOfStretch
  <2>3. part = [n \in 1 .. k |-> blocks[i + n - 1]] BY <1>1 DEF L
  <2>a. own = [n \in 1 .. k |-> sizes[i + n - 1]] BY <1>1, <1>5, <1>6
  <2>4. \A n \in 1 .. k : i + n - 1 \in 1 .. L BY <1>1
  <2> HIDE DEF part, own, k
  <2>5. \A n \in 1 .. k : own[n] = Length(part[n].text) BY <1>4, <2>3, <2>a, <2>4
  <2>6. own = [n \in DOMAIN part |-> Length(part[n].text)] BY <2>3, <2>a, <2>5
  <2>7. BlocksLength(part) = Total(own) BY <2>6 DEF BlocksLength
  <2> QED BY <2>2, <2>7 DEF part
<1>12. Measures(f, blocks) BY <1>8, <1>9, <1>10, <1>11 DEF Measures, L
<1> QED BY <1>12

\* A slice over the limit has a single block of text.
LEMMA SlicesAreCut ==
  ASSUME NEW S, NEW blocks \in Seq(S), \A n \in 1 .. Len(blocks) : blocks[n].text \in DOMAIN Sentences,
         NEW s \in 1 .. Len(blocks), NEW e \in s .. Len(blocks),
         \A n \in s .. e : PartStart(blocks)[n] = s,
         NEW i \in s .. e, NEW j \in s .. e, i < j, blocks[i].type # "heading"
  PROVE  BlocksLength(SubSeq(blocks, s, e)) <= MaxParent
<1> DEFINE L == Len(blocks)
           start == PartStart(blocks)
           part == SubSeq(blocks, s, e - 1)
<1>1. L \in Nat /\ DOMAIN blocks = 1 .. L OBVIOUS
<1>2. \A n \in 1 .. L : start[n] = IF BeginsPart(blocks, n, start[n - 1]) THEN n ELSE start[n - 1]
  BY PartStartIs DEF Starting
<1>3. PICK f : Measures(f, blocks) BY BlocksAreMeasured
<1>4. MaxParent \in Nat BY SentenceAssumption
<1> HIDE DEF start
<1>a. \A n \in s .. e : start[n] = s BY DEF start
<1>5. ASSUME NEW n \in s + 1 .. e PROVE ~BeginsPart(blocks, n, s) /\ ~Opens(blocks, n)
  <2>1. n \in 1 .. L /\ n \in s .. e /\ n - 1 \in s .. e /\ n # s BY <1>1
  <2>2. start[n] = s /\ start[n - 1] = s BY <1>a, <2>1
  <2>3. ~BeginsPart(blocks, n, s) BY <1>2, <2>1, <2>2
  <2> QED BY <2>3 DEF BeginsPart
<1>6. e \in s + 1 .. e /\ e \in 1 .. L /\ e - 1 \in s .. L /\ e - 1 \in 0 .. L /\ s - 1 \in 0 .. L /\ s \in 1 .. L
  BY <1>1
<1>8. f[e] \in Nat /\ f[e - 1] \in Nat /\ f[s - 1] \in Nat BY <1>3, <1>6 DEF Measures, L
<1>9. BlocksLength(SubSeq(blocks, s, e)) = f[e] - f[s - 1] BY <1>3, <1>6 DEF Measures, L
<1>10. CASE ~Ends(part, blocks[e])
  <2>1. HasBody(part)
    <3>1. i \in s .. e - 1 BY <1>1
    <3>2. part = [n \in 1 .. e - s |-> blocks[s + n - 1]]
      <4>1. part = [n \in 1 .. e - 1 - s + 1 |-> blocks[s + n - 1]] BY <1>1, <1>6
      <4>2. e - 1 - s + 1 = e - s BY <1>1
      <4> QED BY <4>1, <4>2
    <3>3. i - s + 1 \in 1 .. e - s /\ s + (i - s + 1) - 1 = i BY <1>1, <3>1
    <3> HIDE DEF part
    <3>4. part[i - s + 1] = blocks[i] /\ i - s + 1 \in DOMAIN part BY <3>2, <3>3
    <3> QED BY <3>4 DEF HasBody
  <2>2. BlocksLength(part) = f[e - 1] - f[s - 1]
    <3>1. e - 1 \in s .. Len(blocks) BY <1>6
    <3> QED BY <1>3, <1>6, <3>1 DEF Measures
  <2>3. Length(blocks[e].text) = f[e] - f[e - 1] BY <1>3, <1>6 DEF Measures
  <2>4. ~(BlocksLength(part) + Length(blocks[e].text) > MaxParent) BY <1>10, <2>1 DEF Ends
  <2> HIDE DEF part
  <2> QED BY <1>4, <1>8, <1>9, <2>2, <2>3, <2>4
<1>11. CASE ~(BlocksLength(Group(blocks, e)) > MaxParent)
  <2> DEFINE first == {k \in 1 .. e : Opens(blocks, k)}
             last == {k \in e .. L : k = L \/ Opens(blocks, k + 1)}
             m == GroupStart(blocks, e)
             n == GroupEnd(blocks, e)
  <2>1. IsFiniteSet(1 .. e) /\ IsFiniteSet(e .. L) BY <1>1, <1>6, FS_Interval
  <2>2. IsFiniteSet(first) /\ first \subseteq Int
    <3>1. first \subseteq 1 .. e OBVIOUS
    <3> QED BY <1>6, <2>1, <3>1, FS_Subset
  <2>3. IsFiniteSet(last) /\ last \subseteq Int
    <3>1. last \subseteq e .. L OBVIOUS
    <3>2. last \subseteq Int BY <1>1, <1>6, <3>1
    <3> QED BY <2>1, <3>1, <3>2, FS_Subset
  <2>4. first # {}
    <3>1. 1 \in 1 .. e /\ Opens(blocks, 1) BY <1>6 DEF Opens
    <3> QED BY <3>1
  <2>5. last # {}
    <3>1. L \in e .. L BY <1>1, <1>6
    <3> QED BY <3>1
  <2>6. m = Max(first) /\ n = Min(last) BY DEF GroupStart, GroupEnd, L
  <2> HIDE DEF m, n
  <2>7. m \in first /\ n \in last
    <3> HIDE DEF first, last
    <3> QED BY <2>2, <2>3, <2>4, <2>5, <2>6, LeastAndGreatest
  <2>8. m \in 1 .. s
    <3>1. m \in 1 .. e /\ Opens(blocks, m) BY <2>7
    <3>2. m \notin s + 1 .. e BY <1>5, <3>1
    <3> QED BY <1>6, <3>1, <3>2
  <2>9. n \in e .. L BY <2>7
  <2>10. BlocksLength(Group(blocks, e)) = f[n] - f[m - 1]
    <3>1. m \in 1 .. L /\ n \in m .. L BY <1>1, <1>6, <2>8, <2>9
    <3> QED BY <1>3, <3>1 DEF Measures, L, Group, m, n
  <2>11. /\ f[n] \in Nat /\ f[m - 1] \in Nat /\ f[e] <= f[n] /\ f[m - 1] <= f[s - 1]
    <3>1. n \in 0 .. L /\ m - 1 \in 0 .. L /\ e \in 0 .. L /\ s - 1 \in 0 .. L /\ e <= n /\ m - 1 <= s - 1
      BY <1>1, <1>6, <2>8, <2>9
    <3> HIDE DEF L
    <3> QED BY <1>3, <3>1 DEF Measures, L
  <2> QED BY <1>4, <1>8, <1>9, <1>11, <2>10, <2>11
<1>12. ~(BlocksLength(Group(blocks, e)) > MaxParent) \/ ~Ends(part, blocks[e]) BY <1>5, <1>6 DEF BeginsPart
<1> QED BY <1>10, <1>11, <1>12

\* What the draft of a slice carries: the kept blocks in a stretch of the file.
LEMMA WhatSlicesCarry ==
  ASSUME text \in Seq(Paragraphs)
  PROVE  LET slices == Slices(text)
             blocks == Included(NormalizeSourceBlocks(SourceBlocks(text)))
             from == SliceFrom(blocks)
         IN  \A k \in DOMAIN slices :
               LET carries == Draft(k, slices[k]).carries
               IN  /\ carries \in Seq(Nat)
                   /\ DOMAIN carries = 1 .. SliceTo(blocks, k) - from[k] + 1
                   /\ \A x \in DOMAIN carries :
                        /\ from[k] + x - 1 \in from[k] .. SliceTo(blocks, k)
                        /\ carries[x] = InOrder(Kept(text))[from[k] + x - 1]
<1> DEFINE N == NormalizeSourceBlocks(SourceBlocks(text))
           blocks == Included(N)
           L == Len(blocks)
           o == InOrder(Kept(text))
           from == SliceFrom(blocks)
           slices == Slices(text)
           c == Cardinality(Begins(blocks))
<1>1. /\ blocks \in Seq(ToSet(N)) /\ L = Cardinality(Kept(text)) /\ L \in Nat /\ Kept(text) \subseteq Nat
      /\ \A n \in 1 .. L : o[n] \in Kept(text) /\ blocks[n].order = o[n]
  BY IncludedInOrder DEF Kept
<1>2. slices = BuildDraftSlices(blocks) BY DEF Slices
<1> HIDE DEF blocks, L, slices, c, N, o
<1>3. /\ DOMAIN slices = 1 .. c
      /\ \A k \in 1 .. c : slices[k].blocks = SubSeq(blocks, from[k], SliceTo(blocks, k))
  BY <1>1, <1>2, SliceBlocks DEF c
<1>4. c \in Nat /\ \A k \in 1 .. c : from[k] \in 1 .. L BY <1>1, SlicesBegin DEF c, L
<1>5. \A k \in 1 .. c : SliceTo(blocks, k) \in from[k] .. L BY <1>1, SlicesDivide DEF c, L
<1> HIDE DEF from
<1> SUFFICES ASSUME NEW k \in 1 .. c
             PROVE  LET carries == Draft(k, slices[k]).carries
                    IN  /\ carries \in Seq(Nat)
                        /\ DOMAIN carries = 1 .. SliceTo(blocks, k) - from[k] + 1
                        /\ \A x \in DOMAIN carries :
                             /\ from[k] + x - 1 \in from[k] .. SliceTo(blocks, k)
                             /\ carries[x] = o[from[k] + x - 1]
  BY <1>3 DEF slices, blocks, from, o, N
<1> DEFINE s == from[k]
           e == SliceTo(blocks, k)
           part == SubSeq(blocks, s, e)
           carries == Draft(k, slices[k]).carries
<1>6. s \in 1 .. L /\ e \in s .. L BY <1>4, <1>5
<1>7. carries = [x \in DOMAIN part |-> part[x].order] BY <1>3 DEF Draft
<1>8. part = [x \in 1 .. e - s + 1 |-> blocks[s + x - 1]]
  <2> HIDE DEF s, e
  <2> QED BY <1>1, <1>6 DEF L
<1> HIDE DEF s, e, part, carries
<1>9. DOMAIN carries = 1 .. e - s + 1 /\ \A x \in 1 .. e - s + 1 : carries[x] = blocks[s + x - 1].order
  BY <1>7, <1>8
<1>10. \A x \in 1 .. e - s + 1 : s + x - 1 \in s .. e /\ s + x - 1 \in 1 .. L BY <1>1, <1>6
<1>11. \A x \in 1 .. e - s + 1 : carries[x] = o[s + x - 1] /\ o[s + x - 1] \in Nat BY <1>1, <1>9, <1>10
<1>12. carries \in Seq(Nat)
  <2>1. e - s + 1 \in Nat BY <1>1, <1>6
  <2>2. carries = [x \in 1 .. e - s + 1 |-> carries[x]] BY <1>7, <1>9
  <2> DEFINE m == e - s + 1
  <2> HIDE DEF m
  <2>3. carries \in [1 .. m -> Nat] BY <1>11, <2>2 DEF m
  <2> QED BY <2>1, <2>3, IsASeq DEF m
<1> QED BY <1>9, <1>10, <1>11, <1>12 DEF s, e, carries

\* Slicing tells what the file says.
LEMMA SlicesTell ==
  ASSUME text \in Seq(Paragraphs)
  PROVE  /\ TellTheSource(Slices(text))
         /\ \E c \in Nat : DOMAIN Slices(text) = 1 .. c
<1> DEFINE N == NormalizeSourceBlocks(SourceBlocks(text))
           blocks == Included(N)
           L == Len(blocks)
           o == InOrder(Kept(text))
           from == SliceFrom(blocks)
           to(k) == SliceTo(blocks, k)
           slices == Slices(text)
           c == Cardinality(Begins(blocks))
           Carried(k) == Draft(k, slices[k]).carries
           Body(k) == {x \in DOMAIN slices[k].blocks : slices[k].blocks[x].type # "heading"}
<1>1. /\ blocks \in Seq(ToSet(N)) /\ L = Cardinality(Kept(text)) /\ L \in Nat /\ Kept(text) \subseteq Nat
      /\ \A n \in 1 .. L : o[n] \in Kept(text)
  BY IncludedInOrder DEF Kept
<1>2. \A n \in 1 .. L : blocks[n].text \in DOMAIN Sentences BY IncludedInOrder DEF Kept
<1>a. IsFiniteSet(Kept(text)) BY IncludedInOrder DEF Kept
<1>3. Kept(text) \subseteq Int BY <1>1
<1>4. /\ Lists(o, Kept(text)) /\ o \in [1 .. L -> Kept(text)]
      /\ \A i, j \in 1 .. L : i < j => o[i] < o[j]
  BY <1>1, <1>a, <1>3, InOrderLists
<1>5. \A k \in DOMAIN slices :
        /\ DOMAIN Carried(k) = 1 .. to(k) - from[k] + 1
        /\ \A x \in DOMAIN Carried(k) :
             from[k] + x - 1 \in from[k] .. to(k) /\ Carried(k)[x] = o[from[k] + x - 1]
  BY WhatSlicesCarry
<1>6. slices = BuildDraftSlices(blocks) BY DEF Slices
<1> HIDE DEF blocks, N, o, slices, Carried
<1>7. /\ DOMAIN slices = 1 .. c
      /\ \A k \in 1 .. c : slices[k].blocks = SubSeq(blocks, from[k], to(k))
  BY <1>1, <1>6, SliceBlocks
<1>8. c \in Nat /\ \A k \in 1 .. c : from[k] \in 1 .. L BY <1>1, SlicesBegin
<1>9. /\ \A k \in 1 .. c : /\ to(k) \in from[k] .. L
                           /\ \A n \in from[k] .. to(k) : n \in 1 .. L /\ PartStart(blocks)[n] = from[k]
      /\ \A n \in 1 .. L : \E k \in 1 .. c : n \in from[k] .. to(k)
      /\ \A i, j \in 1 .. c : i < j => to(i) < from[j]
  BY <1>1, SlicesDivide
<1> HIDE DEF from, to, c, L
<1>10. UNION {ToSet(Carried(k)) : k \in 1 .. c} = Kept(text)
  <2>1. ASSUME NEW k \in 1 .. c, NEW x \in DOMAIN Carried(k) PROVE Carried(k)[x] \in Kept(text)
    <3>1. from[k] + x - 1 \in 1 .. L BY <1>5, <1>7, <1>9
    <3> QED BY <1>1, <1>5, <1>7, <3>1
  <2>2. ASSUME NEW p \in Kept(text) PROVE \E k \in 1 .. c : \E x \in DOMAIN Carried(k) : Carried(k)[x] = p
    <3>1. PICK n \in 1 .. L : o[n] = p BY <1>4 DEF Lists, ToSet
    <3>2. PICK k \in 1 .. c : n \in from[k] .. to(k) BY <1>9
    <3>3. from[k] \in 1 .. L /\ to(k) \in from[k] .. L BY <1>8, <1>9
    <3> DEFINE x == n - from[k] + 1
    <3>4. x \in 1 .. to(k) - from[k] + 1 /\ from[k] + x - 1 = n BY <1>1, <3>2, <3>3
    <3> HIDE DEF x
    <3>5. x \in DOMAIN Carried(k) BY <1>5, <1>7, <3>4
    <3>6. Carried(k)[x] = o[n] BY <1>5, <1>7, <3>4, <3>5
    <3> QED BY <3>1, <3>5, <3>6
  <2> QED BY <2>1, <2>2 DEF ToSet
<1>11. ASSUME NEW n \in 1 .. c, NEW m \in 1 .. c, NEW j \in DOMAIN Carried(n), NEW k \in DOMAIN Carried(m),
              n < m \/ (n = m /\ j < k)
       PROVE  Carried(n)[j] < Carried(m)[k]
  <2> DEFINE p == from[n] + j - 1
             q == from[m] + k - 1
  <2>1. p \in from[n] .. to(n) /\ q \in from[m] .. to(m) BY <1>5, <1>7
  <2>2. Carried(n)[j] = o[p] /\ Carried(m)[k] = o[q] BY <1>5, <1>7
  <2>3. /\ from[n] \in 1 .. L /\ to(n) \in from[n] .. L /\ from[m] \in 1 .. L /\ to(m) \in from[m] .. L
        /\ n < m => to(n) < from[m]
    BY <1>8, <1>9
  <2>a. j \in 1 .. to(n) - from[n] + 1 /\ k \in 1 .. to(m) - from[m] + 1 BY <1>5, <1>7
  <2>4. j \in Int /\ k \in Int BY <2>a
  <2>5. n = m /\ j < k => p < q BY <1>1, <2>3, <2>4
  <2> HIDE DEF p, q
  <2>6. p \in 1 .. L /\ q \in 1 .. L BY <1>1, <2>1, <2>3
  <2>7. p < q
    <3>1. CASE n < m BY <1>1, <2>1, <2>3, <3>1
    <3>2. CASE n = m /\ j < k BY <2>5, <3>2
    <3> QED BY <1>11, <3>1, <3>2
  <2> QED BY <1>4, <2>2, <2>6, <2>7
<1>12. ASSUME NEW k \in 1 .. c, BlocksLength(slices[k].blocks) > MaxParent, NEW x \in Body(k), NEW y \in Body(k)
       PROVE  x = y
  <2> DEFINE s == from[k]
             e == to(k)
             part == SubSeq(blocks, s, e)
  <2>1. s \in 1 .. L /\ e \in s .. L /\ \A n \in s .. e : PartStart(blocks)[n] = s BY <1>8, <1>9
  <2>2. slices[k].blocks = part BY <1>7
  <2>3. part = [n \in 1 .. e - s + 1 |-> blocks[s + n - 1]]
    <3> HIDE DEF s, e
    <3> QED BY <1>1, <2>1 DEF L
  <2> HIDE DEF s, e
  <2>4. /\ x \in 1 .. e - s + 1 /\ blocks[s + x - 1].type # "heading"
        /\ y \in 1 .. e - s + 1 /\ blocks[s + y - 1].type # "heading"
    <3> HIDE DEF part
    <3> QED BY <1>12, <2>2, <2>3
  <2>5. ~(BlocksLength(part) <= MaxParent)
    <3> DEFINE l == BlocksLength(part)
    <3>1. PICK f : Measures(f, blocks) BY <1>1, <1>2, BlocksAreMeasured DEF L
    <3>2. BlocksLength(part) = f[e] - f[s - 1] BY <2>1, <3>1 DEF Measures, L
    <3>3. e \in 0 .. L /\ s - 1 \in 0 .. L BY <1>1, <2>1
    <3>4. f[e] \in Nat /\ f[s - 1] \in Nat BY <3>1, <3>3 DEF Measures, L
    <3>5. MaxParent \in Nat BY SentenceAssumption
    <3> HIDE DEF part
    <3> QED BY <1>12, <2>2, <3>2, <3>4, <3>5
  <2> HIDE DEF part
  <2>6. ASSUME NEW i \in s .. e, NEW j \in s .. e, blocks[i].type # "heading" PROVE ~(i < j)
    <3> SUFFICES ASSUME i < j PROVE FALSE OBVIOUS
    <3>1. BlocksLength(SubSeq(blocks, s, e)) <= MaxParent
      BY <1>1, <1>2, <2>1, <2>6, SlicesAreCut DEF L
    <3> QED BY <2>5, <3>1 DEF part
  <2>7. s + x - 1 \in s .. e /\ s + y - 1 \in s .. e BY <1>1, <2>1, <2>4
  <2>8. ~(s + x - 1 < s + y - 1) /\ ~(s + y - 1 < s + x - 1) BY <2>4, <2>6, <2>7
  <2> QED BY <1>1, <2>1, <2>4, <2>8
<1>13. TellTheSource(slices)
  <2>1. UNION {ToSet(Carried(n)) : n \in DOMAIN slices} = Kept(text) BY <1>7, <1>10
  <2>2. \A n, m \in DOMAIN slices : \A j \in DOMAIN Carried(n), k \in DOMAIN Carried(m) :
          n < m \/ (n = m /\ j < k) => Carried(n)[j] < Carried(m)[k]
    BY <1>7, <1>11
  <2>3. \A n \in DOMAIN slices : BlocksLength(slices[n].blocks) > MaxParent => \A j, k \in Body(n) : j = k
    BY <1>7, <1>12
  <2> QED BY <2>1, <2>2, <2>3 DEF TellTheSource, Carried
<1> QED BY <1>7, <1>8, <1>13 DEF slices

-----------------------------------------------------------------------------
(* The documents and the index. *)

\* A file of the pipeline has what the stages read of it.
IsFile(file) == {"id", "title", "part", "sectionPath", "carries", "lists", "status"} \subseteq DOMAIN file
AreFiles(files) ==
  /\ files = [n \in DOMAIN files |-> files[n]]
  /\ \A n \in DOMAIN files : IsFile(files[n])
FilesTyped ==
  /\ text \in Seq(Paragraphs)
  /\ meta => text \in Imported
  /\ DOMAIN drafts # {} => meta
  /\ AreFiles(docs)
  /\ AreFiles(drafts)
  /\ \E c \in Nat : DOMAIN drafts = 1 .. c

\* What tells the same is the same of every part of it.
LEMMA SameTold ==
  ASSUME NEW file, NEW other, Tells(file) = Tells(other)
  PROVE  file.carries = other.carries /\ file.id = other.id
BY DEF Tells

\* What a review, a repair or a publication does to one file.
LEMMA EditsKeepFiles ==
  ASSUME NEW file, IsFile(file)
  PROVE  /\ IsFile(Published(file)) /\ IsFile(LegacyPublished(file))
         /\ \A action : /\ IsFile(Reviewed(file, action))
                        /\ Reviewed(file, action).carries = file.carries
                        /\ Reviewed(file, action).id = file.id
                        /\ Reviewed(file, action).status # "archived"
         /\ \A kind : /\ IsFile(Repaired(file, kind))
                      /\ Tells(Repaired(file, kind)) = Tells(file)
                      /\ Repaired(file, kind).status = file.status
<1>1. IsFile(Published(file)) BY DEF IsFile, Published
<1>a. IsFile(LegacyPublished(file)) BY DEF IsFile, LegacyPublished
<1>2. ASSUME NEW action
      PROVE  /\ IsFile(Reviewed(file, action)) /\ Reviewed(file, action).carries = file.carries
             /\ Reviewed(file, action).id = file.id /\ Reviewed(file, action).status # "archived"
  BY DEF IsFile, Reviewed
<1>3. ASSUME NEW kind
      PROVE  /\ IsFile(Repaired(file, kind)) /\ Tells(Repaired(file, kind)) = Tells(file)
             /\ Repaired(file, kind).status = file.status
  <2> DEFINE new == Repaired(file, kind)
  <2>1. /\ IsFile(new) /\ new.status = file.status
        /\ new.id = file.id /\ new.title = file.title /\ new.part = file.part
        /\ new.sectionPath = file.sectionPath /\ new.carries = file.carries /\ new.lists = file.lists
    BY DEF IsFile, Repaired
  <2> HIDE DEF new
  <2>2. Tells(new) = Tells(file) BY <2>1 DEF Tells
  <2> QED BY <2>1, <2>2 DEF new
<1> QED BY <1>1, <1>a, <1>2, <1>3

\* The same files, with what they carry; none is merged away.
Edited(files, edited) ==
  /\ AreFiles(edited) /\ DOMAIN edited = DOMAIN files
  /\ \A n \in DOMAIN files : /\ edited[n].carries = files[n].carries /\ edited[n].id = files[n].id
                             /\ files[n].status # "archived" => edited[n].status # "archived"

LEMMA ReviewEdits ==
  ASSUME AreFiles(drafts), NEW ids, NEW action
  PROVE  Edited(drafts, ReviewedDrafts(ids, action))
<1> DEFINE new == ReviewedDrafts(ids, action)
<1>1. new = [n \in DOMAIN drafts |-> IF n \in ids THEN Reviewed(drafts[n], action) ELSE drafts[n]]
  BY DEF ReviewedDrafts
<1> HIDE DEF new
<1>2. DOMAIN new = DOMAIN drafts /\ new = [n \in DOMAIN new |-> new[n]] BY <1>1
<1>3. ASSUME NEW n \in DOMAIN drafts
      PROVE  /\ IsFile(new[n]) /\ new[n].carries = drafts[n].carries /\ new[n].id = drafts[n].id
             /\ drafts[n].status # "archived" => new[n].status # "archived"
  <2>1. IsFile(drafts[n]) BY DEF AreFiles
  <2>2. new[n] = drafts[n] \/ new[n] = Reviewed(drafts[n], action) BY <1>1
  <2> QED BY <2>1, <2>2, EditsKeepFiles
<1> QED BY <1>2, <1>3 DEF Edited, AreFiles, new

LEMMA RepairEdits ==
  ASSUME AreFiles(drafts), AreFiles(docs), NEW action, RepairFile(action)
  PROVE  /\ Edited(drafts, drafts') /\ AreFiles(docs') /\ DOMAIN docs' = DOMAIN docs
         /\ \A s \in DOMAIN docs : Tells(docs'[s]) = Tells(docs[s])
<1>1. Edited(drafts, drafts) BY DEF Edited
<1>2. CASE action.formal
  <2>1. drafts' = drafts BY <1>2 DEF RepairFile
  <2>2. PICK t \in DOMAIN docs : docs' = [docs EXCEPT ![t] = Repaired(docs[t], action.kind)]
    BY <1>2 DEF RepairFile
  <2>3. DOMAIN docs' = DOMAIN docs /\ docs' = [s \in DOMAIN docs' |-> docs'[s]] BY <2>2 DEF AreFiles
  <2>4. ASSUME NEW s \in DOMAIN docs PROVE IsFile(docs'[s]) /\ Tells(docs'[s]) = Tells(docs[s])
    <3>1. IsFile(docs[s]) BY DEF AreFiles
    <3>2. docs'[s] = docs[s] \/ docs'[s] = Repaired(docs[s], action.kind) BY <2>2
    <3> QED BY <3>1, <3>2, EditsKeepFiles
  <2> QED BY <1>1, <2>1, <2>3, <2>4 DEF AreFiles
<1>3. CASE ~action.formal
  <2> DEFINE id == action.id
  <2>1. docs' = docs BY <1>3 DEF RepairFile
  <2>2. drafts' = [drafts EXCEPT ![id] = Repaired(drafts[id], action.kind)] BY <1>3 DEF RepairFile
  <2>3. DOMAIN drafts' = DOMAIN drafts /\ drafts' = [n \in DOMAIN drafts' |-> drafts'[n]] BY <2>2
  <2>4. ASSUME NEW n \in DOMAIN drafts
        PROVE  /\ IsFile(drafts'[n]) /\ drafts'[n].carries = drafts[n].carries /\ drafts'[n].id = drafts[n].id
               /\ drafts[n].status # "archived" => drafts'[n].status # "archived"
    <3>1. IsFile(drafts[n]) BY DEF AreFiles
    <3>2. drafts'[n] = drafts[n] \/ drafts'[n] = Repaired(drafts[n], action.kind) BY <2>2
    <3> QED BY <3>1, <3>2, EditsKeepFiles, SameTold
  <2>5. Edited(drafts, drafts') BY <2>3, <2>4 DEF Edited, AreFiles
  <2> QED BY <2>1, <2>5
<1> QED BY <1>2, <1>3

\* A person rewrites drafts: what they carry stays.
LEMMA EditEdits ==
  ASSUME AreFiles(drafts), NEW ids, Edit(ids)
  PROVE  Edited(drafts, drafts')
<1>1. drafts' = [n \in DOMAIN drafts |-> IF n \in ids THEN [drafts[n] EXCEPT !.lists = <<>>] ELSE drafts[n]]
  BY DEF Edit
<1>2. DOMAIN drafts' = DOMAIN drafts /\ drafts' = [n \in DOMAIN drafts' |-> drafts'[n]] BY <1>1
<1>3. ASSUME NEW n \in DOMAIN drafts
      PROVE  /\ IsFile(drafts'[n]) /\ drafts'[n].carries = drafts[n].carries /\ drafts'[n].id = drafts[n].id
             /\ drafts[n].status # "archived" => drafts'[n].status # "archived"
  <2>1. IsFile(drafts[n]) BY DEF AreFiles
  <2>2. drafts'[n] = drafts[n] \/ drafts'[n] = [drafts[n] EXCEPT !.lists = <<>>] BY <1>1
  <2> QED BY <2>1, <2>2 DEF IsFile
<1> QED BY <1>2, <1>3 DEF Edited, AreFiles

\* A merge leaves the files in place; what they carry changes.
LEMMA MergeKeepsFiles ==
  ASSUME AreFiles(drafts), NEW action, NEW both, Merge(action, both)
  PROVE  AreFiles(drafts') /\ DOMAIN drafts' = DOMAIN drafts /\ docs' = docs
<1> DEFINE n == action.id
           k == MergeCandidate(n)
           target == [drafts[n] EXCEPT !.carries = drafts[n].carries \o drafts[k].carries,
                                       !.lists = drafts[n].lists \o drafts[k].lists,
                                       !.quality = IF drafts[n].quality = "error" THEN drafts[n].quality ELSE "warn"]
           neighbour == [drafts[k] EXCEPT !.status = "archived", !.pipeline = "review_required",
                                          !.quality = "warn"]
<1>1. \/ drafts' = drafts
      \/ drafts' = [drafts EXCEPT ![n] = target, ![k] = neighbour]
      \/ drafts' = [drafts EXCEPT ![n] = target]
  BY DEF Merge, FirstWritten
<1>2. docs' = docs BY DEF Merge
<1>3. DOMAIN target = DOMAIN drafts[n] /\ DOMAIN neighbour = DOMAIN drafts[k] OBVIOUS
<1> HIDE DEF target, neighbour, n, k
<1>4. DOMAIN drafts' = DOMAIN drafts /\ drafts' = [m \in DOMAIN drafts' |-> drafts'[m]]
  BY <1>1 DEF AreFiles
<1>5. ASSUME NEW m \in DOMAIN drafts PROVE DOMAIN drafts'[m] = DOMAIN drafts[m] BY <1>1, <1>3
<1> QED BY <1>2, <1>4, <1>5 DEF AreFiles, IsFile

\* A publication writes the approved drafts and marks the index when it wrote.
LEMMA PublishKeepsSaying ==
  ASSUME AreFiles(docs), NEW c \in Nat, NEW files, AreFiles(files), DOMAIN files = 1 .. c,
         NEW gate, PublishApproved(files, gate)
  PROVE  AreFiles(docs') /\ (~dirty' => ~dirty /\ docs' = docs)
<1> DEFINE written == {n \in DOMAIN files : files[n].pipeline = "approved" /\ ~Blocked(files[n], gate)}
           slugs == {Slug(files[n]) : n \in written}
           Of(slug) == {n \in written : Slug(files[n]) = slug}
<1>1. docs' = [slug \in DOMAIN docs \cup slugs |->
                 IF slug \in slugs THEN Published(files[Max(Of(slug))]) ELSE docs[slug]]
  BY DEF PublishApproved
<1>2. dirty' = (written # {} \/ dirty) BY DEF PublishApproved, Marked
<1>a. IsFiniteSet(DOMAIN files) /\ DOMAIN files \subseteq Int BY FS_Interval
<1>3. ASSUME NEW slug \in slugs PROVE IsFile(Published(files[Max(Of(slug))]))
  <2>1. Of(slug) # {} /\ Of(slug) \subseteq DOMAIN files OBVIOUS
  <2>2. IsFiniteSet(Of(slug)) /\ Of(slug) \subseteq Int BY <1>a, <2>1, FS_Subset
  <2> HIDE DEF Of, slugs, written
  <2>3. Max(Of(slug)) \in Of(slug) BY <2>1, <2>2, LeastAndGreatest
  <2> QED BY <2>1, <2>3, EditsKeepFiles DEF AreFiles
<1>4. written = {} => slugs = {} OBVIOUS
<1> HIDE DEF written, slugs, Of
<1>5. \A slug \in DOMAIN docs' : IsFile(docs'[slug]) BY <1>1, <1>3 DEF AreFiles
<1>6. docs' = [slug \in DOMAIN docs' |-> docs'[slug]] BY <1>1
<1>7. ASSUME ~dirty' PROVE ~dirty /\ docs' = docs
  <2>1. slugs = {} /\ ~dirty BY <1>2, <1>4, <1>7
  <2>2. DOMAIN docs' = DOMAIN docs /\ \A slug \in DOMAIN docs : docs'[slug] = docs[slug] BY <1>1, <2>1
  <2> QED BY <1>6, <2>1, <2>2 DEF AreFiles
<1> QED BY <1>5, <1>6, <1>7 DEF AreFiles

\* The legacy import writes drafts as documents beside those there are.
LEMMA LegacyKeepsFiles ==
  ASSUME AreFiles(docs), NEW files, AreFiles(files)
  PROVE  AreFiles(WithLegacy(files))
<1> DEFINE slugs == {LegacySlug(files[n]) : n \in DOMAIN files}
           Of(slug) == CHOOSE n \in DOMAIN files : LegacySlug(files[n]) = slug
           new == WithLegacy(files)
<1>1. new = [slug \in DOMAIN docs \cup slugs |->
               IF slug \in DOMAIN docs THEN docs[slug] ELSE LegacyPublished(files[Of(slug)])]
  BY DEF WithLegacy
<1>2. ASSUME NEW slug \in slugs PROVE IsFile(LegacyPublished(files[Of(slug)]))
  <2>1. Of(slug) \in DOMAIN files OBVIOUS
  <2> HIDE DEF Of, slugs
  <2> QED BY <2>1, EditsKeepFiles DEF AreFiles
<1> HIDE DEF slugs, Of, new
<1>3. \A slug \in DOMAIN new : IsFile(new[slug]) BY <1>1, <1>2 DEF AreFiles
<1>4. new = [slug \in DOMAIN new |-> new[slug]] BY <1>1
<1> QED BY <1>3, <1>4 DEF AreFiles, new

LEMMA TypedInit == FilesInit => FilesTyped
<1> SUFFICES ASSUME FilesInit PROVE FilesTyped OBVIOUS
<1>1. text = <<>> /\ ~meta /\ docs = <<>> /\ drafts = <<>> BY DEF FilesInit, NoDocs
<1>2. DOMAIN drafts = 1 .. 0 /\ 0 \in Nat BY <1>1
<1>3. AreFiles(<<>>) BY DEF AreFiles
<1>4. DOMAIN drafts = {} BY <1>1
<1> QED BY <1>1, <1>2, <1>3, <1>4 DEF FilesTyped

\* The drafts a source is sliced into.
LEMMA NewDraftsAreFiles ==
  ASSUME NEW slices
  PROVE  /\ AreFiles(NewDrafts(slices)) /\ DOMAIN NewDrafts(slices) = DOMAIN slices
         /\ \A n \in DOMAIN slices : /\ NewDrafts(slices)[n].id = n
                                     /\ NewDrafts(slices)[n].status # "archived"
                                     /\ NewDrafts(slices)[n].carries = Draft(n, slices[n]).carries
<1>1. DOMAIN NewDrafts(slices) = DOMAIN slices /\ \A n \in DOMAIN slices : NewDrafts(slices)[n] = Draft(n, slices[n])
  BY DEF NewDrafts
<1>2. NewDrafts(slices) = [n \in DOMAIN NewDrafts(slices) |-> NewDrafts(slices)[n]] BY DEF NewDrafts
<1>3. ASSUME NEW n, NEW slice
      PROVE  IsFile(Draft(n, slice)) /\ Draft(n, slice).id = n /\ Draft(n, slice).status # "archived"
  BY DEF IsFile, Draft
<1> QED BY <1>1, <1>2, <1>3 DEF AreFiles

LEMMA TypedNext == FilesTyped /\ [FilesNext]_fileVars => FilesTyped'
<1> SUFFICES ASSUME FilesTyped, [FilesNext]_fileVars PROVE FilesTyped' OBVIOUS
<1> USE DEF FilesTyped
<1>1. PICK c \in Nat : DOMAIN drafts = 1 .. c OBVIOUS
<1>2. ASSUME NEW item \in Paragraphs, Write(item) PROVE FilesTyped'
  <2>1. text' \in Seq(Paragraphs) BY <1>2 DEF Write
  <2>2. UNCHANGED <<meta, drafts, docs>> /\ ~meta BY <1>2 DEF Write
  <2> QED BY <2>1, <2>2
<1>3. ASSUME text \in Imported, meta', drafts' = NewDrafts(Sliced[text]), text' = text, AreFiles(docs')
      PROVE  FilesTyped'
  <2>1. Sliced[text] = Slices(text) BY <1>3 DEF Sliced
  <2>2. \E d \in Nat : DOMAIN Slices(text) = 1 .. d BY SlicesTell
  <2>3. AreFiles(drafts') /\ DOMAIN drafts' = DOMAIN Slices(text) BY <1>3, <2>1, NewDraftsAreFiles
  <2> QED BY <1>3, <2>2, <2>3
<1>4. ASSUME NEW ids, NEW action, Review(ids, action) PROVE FilesTyped'
  <2>1. UNCHANGED <<text, meta, docs>> /\ drafts' = ReviewedDrafts(ids, action) BY <1>4 DEF Review, Files
  <2>2. Edited(drafts, drafts') BY <2>1, ReviewEdits
  <2> QED BY <1>1, <2>1, <2>2 DEF Edited
<1>5. ASSUME NEW asked, NEW action, SubmitReview(asked, action) PROVE FilesTyped'
  <2>1. PICK targets : drafts' = ReviewedDrafts(targets, action) /\ PublishApproved(drafts', "warn") /\ UNCHANGED <<text, meta>>
    BY <1>5 DEF SubmitReview, Files
  <2>2. Edited(drafts, drafts') BY <2>1, ReviewEdits
  <2>3. AreFiles(drafts') /\ DOMAIN drafts' = 1 .. c BY <1>1, <2>2 DEF Edited
  <2>4. AreFiles(docs') BY <2>1, <2>3, PublishKeepsSaying
  <2> QED BY <1>1, <2>1, <2>3, <2>4
<1>6. ASSUME NEW gate, PublishDrafts(gate) PROVE FilesTyped'
  <2>1. PublishApproved(drafts, gate) /\ UNCHANGED <<text, meta, drafts>> BY <1>6 DEF PublishDrafts, Files
  <2>2. AreFiles(docs') BY <1>1, <2>1, PublishKeepsSaying
  <2> QED BY <2>1, <2>2
<1>7. CASE RepairStep
  <2>1. UNCHANGED <<text, meta>> BY <1>7 DEF RepairStep, Files
  <2>2. PICK action \in repairing : RepairFile(action) \/ \E both \in BOOLEAN : Merge(action, both)
    BY <1>7 DEF RepairStep
  <2>3. CASE RepairFile(action)
    <3>1. Edited(drafts, drafts') /\ AreFiles(docs') BY <2>3, RepairEdits
    <3> QED BY <1>1, <2>1, <3>1 DEF Edited
  <2>4. ASSUME NEW both, Merge(action, both) PROVE FilesTyped'
    <3>1. AreFiles(drafts') /\ DOMAIN drafts' = DOMAIN drafts /\ docs' = docs BY <2>4, MergeKeepsFiles
    <3> QED BY <1>1, <2>1, <3>1
  <2> QED BY <2>2, <2>3, <2>4
<1>8. ASSUME UNCHANGED <<text, drafts, docs>>, meta' = meta \/ (meta' /\ text \in Imported) PROVE FilesTyped' BY <1>8
<1>9. CASE Audit BY <1>8, <1>9 DEF Audit, Files
<1>10. CASE AutoApprove BY <1>4, <1>10 DEF AutoApprove
<1>11. ASSUME NEW gated, PrepareRebuild(gated) PROVE FilesTyped' BY <1>8, <1>11 DEF PrepareRebuild, Files
<1>12. CASE PlanRepair BY <1>8, <1>12 DEF PlanRepair, Files
<1>13. CASE ApplyPlan BY <1>8, <1>13 DEF ApplyPlan, Files
<1>14. ASSUME NEW published, NEW finalized, FinishRebuild(published, finalized) PROVE FilesTyped'
  BY <1>8, <1>14 DEF FinishRebuild, Files
<1>15. CASE UNCHANGED fileVars BY <1>8, <1>15 DEF fileVars
<1>16. ASSUME NEW extracted, Ingest(extracted) PROVE FilesTyped'
  <2>1. text \in Imported /\ text' = text /\ docs' = docs /\ meta' BY <1>16 DEF Ingest
  <2>2. drafts' = drafts \/ drafts' = NewDrafts(Sliced[text]) BY <1>16 DEF Ingest
  <2> QED BY <1>3, <1>8, <2>1, <2>2
<1>17. CASE Reslice
  <2>1. UNCHANGED <<text, meta, docs>> /\ drafts' = NewDrafts(Sliced[text]) /\ text \in Imported /\ meta
    BY <1>17 DEF Reslice, Files
  <2> QED BY <1>3, <2>1
<1>18. ASSUME NEW ids, Edit(ids) PROVE FilesTyped'
  <2>1. UNCHANGED <<text, meta, docs>> BY <1>18 DEF Edit, Files
  <2>2. Edited(drafts, drafts') BY <1>18, EditEdits
  <2> QED BY <1>1, <2>1, <2>2 DEF Edited
<1>19. ASSUME NEW sliced \in BOOLEAN, NEW legacy \in BOOLEAN, NEW gated, NEW published, NEW finalized,
              InitWorkspace(sliced, legacy, gated, published, finalized)
       PROVE  FilesTyped'
  <2>1. text \in Imported /\ text' = text /\ meta' BY <1>19 DEF InitWorkspace
  <2>2. \/ drafts' = NewDrafts(Sliced[text]) /\ (docs' = docs \/ docs' = WithLegacy(drafts'))
        \/ drafts' = drafts /\ docs' = docs
    BY <1>19 DEF InitWorkspace
  <2>3. CASE drafts' = NewDrafts(Sliced[text]) /\ (docs' = docs \/ docs' = WithLegacy(drafts'))
    <3>1. AreFiles(drafts') BY <2>3, NewDraftsAreFiles
    <3>2. AreFiles(docs') BY <2>3, <3>1, LegacyKeepsFiles
    <3> QED BY <1>3, <2>1, <2>3, <3>2
  <2> QED BY <1>8, <2>1, <2>2, <2>3
<1> QED
  BY <1>2, <1>4, <1>5, <1>6, <1>7, <1>9, <1>10, <1>11, <1>12, <1>13, <1>14, <1>15, <1>16, <1>17, <1>18, <1>19
  DEF FilesNext

-----------------------------------------------------------------------------
(* The index is fresh or marked. *)

\* Without the flag the index says what the documents say, unless documents came
\* while it was built; a rebuild holds the documents until others come.
Says(searched, files) ==
  \A slug \in DOMAIN files : slug \in DOMAIN searched /\ Tells(searched[slug]) = Tells(files[slug])
RebuildTyped == /\ rebuild = [on |-> rebuild.on, docs |-> rebuild.docs, late |-> rebuild.late]
                /\ rebuild.on \in BOOLEAN /\ rebuild.late \in BOOLEAN
IndexSays ==
  /\ RebuildTyped
  /\ rebuild.on /\ ~rebuild.late => Says(rebuild.docs, docs)
  /\ ~dirty /\ ~overtaken => Says(index, docs)

FreshInv == FilesTyped /\ IndexSays

\* What becomes of a rebuild in flight when a command has written documents.
RebuildSays ==
  /\ RebuildTyped'
  /\ rebuild'.on /\ ~rebuild'.late => Says(rebuild'.docs, docs')

LEMMA OutrunSays ==
  ASSUME RebuildTyped, rebuild.on /\ ~rebuild.late => Says(rebuild.docs, docs), rebuild' = Outrun
  PROVE  RebuildSays
<1> DEFINE late == rebuild.on /\ (rebuild.late \/ docs' # docs)
<1>1. rebuild' = [rebuild EXCEPT !.late = late] BY DEF Outrun
<1>2. late \in BOOLEAN OBVIOUS
<1> HIDE DEF late
<1>3. rebuild' = [on |-> rebuild.on, docs |-> rebuild.docs, late |-> late] BY <1>1 DEF RebuildTyped
<1>4. RebuildTyped' BY <1>2, <1>3 DEF RebuildTyped
<1>5. ASSUME rebuild'.on /\ ~rebuild'.late PROVE Says(rebuild'.docs, docs')
  <2>1. rebuild.on /\ ~late /\ rebuild'.docs = rebuild.docs BY <1>3, <1>5
  <2>2. ~rebuild.late /\ docs' = docs BY <2>1 DEF late
  <2> QED BY <2>1, <2>2
<1> QED BY <1>4, <1>5 DEF RebuildSays

LEMMA InFlightSays ==
  ASSUME RebuildTyped, rebuild.on /\ ~rebuild.late => Says(rebuild.docs, docs), rebuild' \in InFlight
  PROVE  RebuildSays
<1>1. rebuild' = Reads(docs') \/ rebuild' = Outrun BY DEF InFlight
<1>2. CASE rebuild' = Reads(docs')
  <2>1. rebuild' = [on |-> TRUE, docs |-> docs', late |-> FALSE] BY <1>2 DEF Reads
  <2>2. Says(docs', docs') BY DEF Says
  <2> QED BY <2>1, <2>2 DEF RebuildSays, RebuildTyped
<1> QED BY <1>1, <1>2, OutrunSays

LEMMA FreshNext == FreshInv /\ [FilesNext]_fileVars => IndexSays'
<1> SUFFICES ASSUME FilesTyped, IndexSays, [FilesNext]_fileVars PROVE IndexSays' BY DEF FreshInv
<1>t. /\ RebuildTyped /\ (rebuild.on /\ ~rebuild.late => Says(rebuild.docs, docs))
      /\ ~dirty /\ ~overtaken => Says(index, docs)
  BY DEF IndexSays
<1>0. PICK c \in Nat : DOMAIN drafts = 1 .. c BY DEF FilesTyped
<1>1. Says(docs', docs') BY DEF Says
<1>2. ASSUME UNCHANGED <<docs, index, overtaken, rebuild>>, dirty' = dirty \/ dirty' PROVE IndexSays'
  <2>1. RebuildTyped' BY <1>2, <1>t DEF RebuildTyped
  <2> QED BY <1>2, <1>t, <2>1 DEF IndexSays
<1>3. ASSUME UNCHANGED Index, docs' = docs PROVE IndexSays' BY <1>2, <1>3 DEF Index
<1>4. ASSUME RebuildSays, UNCHANGED <<index, overtaken>>, ~dirty' => ~dirty /\ docs' = docs PROVE IndexSays'
  BY <1>4, <1>t DEF IndexSays, RebuildSays
<1>5. ASSUME NEW ids, NEW action, Review(ids, action) PROVE IndexSays' BY <1>3, <1>5 DEF Review
<1>6. ASSUME NEW asked, NEW action, SubmitReview(asked, action) PROVE IndexSays'
  <2>1. PICK targets : /\ drafts' = ReviewedDrafts(targets, action) /\ PublishApproved(drafts', "warn")
                       /\ rebuild' \in InFlight /\ UNCHANGED <<index, overtaken>>
    BY <1>6 DEF SubmitReview
  <2>2. Edited(drafts, drafts') BY <2>1, ReviewEdits DEF FilesTyped
  <2>3. ~dirty' => ~dirty /\ docs' = docs BY <1>0, <2>1, <2>2, PublishKeepsSaying DEF Edited, FilesTyped
  <2>4. RebuildSays BY <1>t, <2>1, InFlightSays
  <2> QED BY <1>4, <2>1, <2>3, <2>4
<1>7. ASSUME NEW gate, PublishDrafts(gate) PROVE IndexSays'
  <2>1. PublishApproved(drafts, gate) /\ rebuild' = Outrun /\ UNCHANGED <<index, overtaken>>
    BY <1>7 DEF PublishDrafts
  <2>2. ~dirty' => ~dirty /\ docs' = docs BY <1>0, <2>1, PublishKeepsSaying DEF FilesTyped
  <2>3. RebuildSays BY <1>t, <2>1, OutrunSays
  <2> QED BY <1>4, <2>1, <2>2, <2>3
<1>8. CASE RepairStep
  <2>1. UNCHANGED <<index, dirty, rebuild, overtaken>> BY <1>8 DEF RepairStep, Index
  <2>2. PICK action \in repairing : RepairFile(action) \/ \E both \in BOOLEAN : Merge(action, both)
    BY <1>8 DEF RepairStep
  <2>3. CASE RepairFile(action)
    <3>1. DOMAIN docs' = DOMAIN docs /\ \A s \in DOMAIN docs : Tells(docs'[s]) = Tells(docs[s])
      BY <2>3, RepairEdits DEF FilesTyped
    <3>2. ASSUME NEW searched, Says(searched, docs) PROVE Says(searched, docs') BY <3>1, <3>2 DEF Says
    <3>3. RebuildTyped' BY <1>t, <2>1 DEF RebuildTyped
    <3> QED BY <1>t, <2>1, <3>2, <3>3 DEF IndexSays
  <2>4. ASSUME NEW both, Merge(action, both) PROVE IndexSays'
    <3>1. docs' = docs BY <2>4 DEF Merge
    <3> QED BY <1>2, <2>1, <3>1
  <2> QED BY <2>2, <2>3, <2>4
<1>9. ASSUME NEW gated, PrepareRebuild(gated) PROVE IndexSays'
  <2>1. rebuild' \in InFlight /\ UNCHANGED <<docs, index, dirty, overtaken>> BY <1>9 DEF PrepareRebuild
  <2>2. RebuildSays BY <1>t, <2>1, InFlightSays
  <2> QED BY <1>4, <2>1, <2>2
<1>10. ASSUME NEW published \in BOOLEAN, NEW finalized \in BOOLEAN, FinishRebuild(published, finalized) PROVE IndexSays'
  <2>1. /\ rebuild.on /\ (finalized => published) /\ rebuild' = NoRebuild
        /\ index' = (IF published THEN rebuild.docs ELSE index)
        /\ overtaken' = (IF published THEN rebuild.late ELSE overtaken)
        /\ dirty' = (dirty /\ ~finalized) /\ docs' = docs
    BY <1>10 DEF FinishRebuild
  <2>2. ~rebuild'.on /\ RebuildTyped' BY <2>1 DEF NoRebuild, RebuildTyped
  <2>3. ASSUME ~dirty' /\ ~overtaken' PROVE Says(index', docs')
    <3>1. CASE published BY <1>t, <2>1, <2>3, <3>1
    <3>2. CASE ~published BY <1>t, <2>1, <2>3, <3>2
    <3> QED BY <3>1, <3>2
  <2> QED BY <2>2, <2>3 DEF IndexSays
<1>11. ASSUME NEW item, Write(item) PROVE IndexSays' BY <1>3, <1>11 DEF Write
<1>12. ASSUME NEW extracted, Ingest(extracted) PROVE IndexSays' BY <1>2, <1>12 DEF Ingest
<1>13. CASE Audit BY <1>2, <1>13 DEF Audit
<1>14. CASE AutoApprove BY <1>5, <1>14 DEF AutoApprove
<1>15. CASE PlanRepair BY <1>3, <1>15 DEF PlanRepair
<1>16. CASE ApplyPlan BY <1>3, <1>16 DEF ApplyPlan
<1>17. CASE UNCHANGED fileVars BY <1>3, <1>17 DEF fileVars, Index
<1>18. CASE Reslice BY <1>3, <1>18 DEF Reslice
<1>19. ASSUME NEW ids, Edit(ids) PROVE IndexSays' BY <1>3, <1>19 DEF Edit
<1>20. ASSUME NEW sliced, NEW legacy, NEW gated, NEW published \in BOOLEAN, NEW finalized \in BOOLEAN,
              InitWorkspace(sliced, legacy, gated, published, finalized)
       PROVE  IndexSays'
  <2>1. /\ finalized => published
        /\ index' = (IF published THEN docs' ELSE index)
        /\ dirty' = ~finalized
        /\ rebuild' = (IF published THEN NoRebuild ELSE Outrun)
    BY <1>20 DEF InitWorkspace
  <2>2. CASE published
    <3>1. ~rebuild'.on /\ RebuildTyped' BY <2>1, <2>2 DEF NoRebuild, RebuildTyped
    <3> QED BY <1>1, <2>1, <2>2, <3>1 DEF IndexSays
  <2>3. CASE ~published
    <3>1. RebuildSays BY <1>t, <2>1, <2>3, OutrunSays
    <3> QED BY <2>1, <2>3, <3>1 DEF IndexSays, RebuildSays
  <2> QED BY <2>2, <2>3
<1>21. CASE \E action \in ReviewActions :
              \/ \E n \in DOMAIN drafts : Review({n}, action)
              \/ Review(DOMAIN drafts, action)
              \/ \E asked \in {{}} \cup {{n} : n \in DOMAIN drafts} : SubmitReview(asked, action)
  BY <1>5, <1>6, <1>21
<1>22. CASE \E sliced, legacy, published, finalized \in BOOLEAN : \E gated \in Gated :
              InitWorkspace(sliced, legacy, gated, published, finalized)
  BY <1>20, <1>22
<1>23. CASE \E published, finalized \in BOOLEAN : FinishRebuild(published, finalized) BY <1>10, <1>23
<1> QED
  BY <1>7, <1>8, <1>9, <1>11, <1>12, <1>13, <1>14, <1>15, <1>16, <1>17, <1>18, <1>19, <1>21, <1>22, <1>23
  DEF FilesNext

LEMMA FreshInit == FilesInit => FreshInv
<1> SUFFICES ASSUME FilesInit PROVE FreshInv OBVIOUS
<1>1. FilesTyped BY TypedInit
<1>2. dirty /\ ~rebuild.on /\ RebuildTyped BY DEF FilesInit, NoRebuild, RebuildTyped
<1> QED BY <1>1, <1>2 DEF FreshInv, IndexSays

LEMMA FreshImplies == FreshInv => PublishedIsSearched
<1> SUFFICES ASSUME FilesTyped, IndexSays, Health.index = "ok", ~overtaken PROVE
      /\ \A slug \in DOMAIN docs : slug \in DOMAIN index /\ Tells(index[slug]) = Tells(docs[slug])
      /\ Health.search = "ok" => index # NoDocs
  BY DEF FreshInv, PublishedIsSearched
<1>1. ~dirty BY DEF Health, IndexStatus
<1>2. Says(index, docs) BY <1>1 DEF IndexSays
<1>3. ASSUME Health.search = "ok" PROVE index # NoDocs
  <2>1. docs # <<>> BY <1>3 DEF Health, SearchStatus, NoDocs
  <2>2. docs = [s \in DOMAIN docs |-> docs[s]] BY DEF FilesTyped, AreFiles
  <2>3. DOMAIN docs # {}
    <3> SUFFICES ASSUME DOMAIN docs = {} PROVE docs = <<>> BY <2>1
    <3> QED BY <2>2
  <2>4. DOMAIN index # {} BY <1>2, <2>3 DEF Says
  <2> QED BY <2>4 DEF NoDocs
<1> QED BY <1>2, <1>3 DEF Says

\* PublishedIsSearched: an index that is not marked tells of every formal
\* document what its publication or import wrote, whatever else runs while it is
\* rebuilt, unless documents came meanwhile (health.ts, publish.ts, init.ts, build.ts).
THEOREM IndexIsFresh == FilesSpec => []PublishedIsSearched
<1>1. FilesInit => FreshInv BY FreshInit
<1>2. FreshInv /\ [FilesNext]_fileVars => FreshInv'
  <2>1. FreshInv /\ [FilesNext]_fileVars => FilesTyped' BY TypedNext DEF FreshInv
  <2>2. FreshInv /\ [FilesNext]_fileVars => IndexSays' BY FreshNext
  <2> QED BY <2>1, <2>2 DEF FreshInv
<1>3. FreshInv => PublishedIsSearched BY FreshImplies
<1> QED BY <1>1, <1>2, <1>3, PTL DEF FilesSpec

\* SlicesTellTheSource: however a file is headed and however long its blocks
\* are, its slices carry each of them once and in order (slicer.ts).
THEOREM SlicingTellsTheSource == FilesSpec => []SlicesTellTheSource
<1>1. FilesInit => FilesTyped BY TypedInit
<1>2. FilesTyped /\ [FilesNext]_fileVars => FilesTyped' BY TypedNext
<1>3. FilesTyped => SlicesTellTheSource BY SlicesTell DEF FilesTyped, SlicesTellTheSource
<1> QED BY <1>1, <1>2, <1>3, PTL DEF FilesSpec

LEMMA ConcatCarries ==
  ASSUME NEW s \in Seq(Nat), NEW t \in Seq(Nat)
  PROVE  s \o t \in Seq(Nat) /\ ToSet(s) \cup ToSet(t) \subseteq ToSet(s \o t)
<1> DEFINE u == s \o t
           a == Len(s)
           b == Len(t)
<1>1. u \in Seq(Nat) OBVIOUS
<1>2. a \in Nat /\ b \in Nat /\ DOMAIN s = 1 .. a /\ DOMAIN t = 1 .. b OBVIOUS
<1>3. DOMAIN u = 1 .. a + b OBVIOUS
<1>4. \A i \in 1 .. a : u[i] = s[i] OBVIOUS
<1>5. \A i \in 1 .. b : u[a + i] = t[i] OBVIOUS
<1> HIDE DEF u, a, b
<1>6. ASSUME NEW x \in ToSet(s) PROVE x \in ToSet(u)
  <2>1. PICK i \in 1 .. a : s[i] = x BY <1>2 DEF ToSet
  <2>2. i \in DOMAIN u /\ u[i] = x BY <1>2, <1>3, <1>4, <2>1
  <2> QED BY <2>2 DEF ToSet
<1>7. ASSUME NEW x \in ToSet(t) PROVE x \in ToSet(u)
  <2>1. PICK i \in 1 .. b : t[i] = x BY <1>2 DEF ToSet
  <2>2. a + i \in DOMAIN u /\ u[a + i] = x BY <1>2, <1>3, <1>5, <2>1
  <2> QED BY <2>2 DEF ToSet
<1> QED BY <1>1, <1>6, <1>7 DEF u

-----------------------------------------------------------------------------
(* No block is lost. *)

\* The drafts are the slices of the file, by number, once there are any.
DraftsNumbered ==
  /\ DOMAIN drafts # {} => meta /\ DOMAIN drafts = DOMAIN Slices(text)
  /\ \A n \in DOMAIN drafts : drafts[n].id = n /\ drafts[n].carries \in Seq(Nat)

\* An issue or an action on no formal document names a draft.
IssuesNamed ==
  \A i \in report.issues : /\ i = [id |-> i.id, code |-> i.code, formal |-> i.formal] /\ i.formal \in BOOLEAN
                           /\ i.formal \/ i.id \in DOMAIN drafts
ActionsNamed == \A action \in plan \cup repairing : action.formal \/ action.id \in DOMAIN drafts

Open(n) == n \in DOMAIN drafts /\ drafts[n].status # "archived"
AllCarried == DOMAIN drafts # {} => \A order \in Kept(text) : \E n : Open(n) /\ order \in ToSet(drafts[n].carries)

DraftsInv == DraftsNumbered /\ IssuesNamed /\ ActionsNamed /\ AllCarried
CarryInv == FilesTyped /\ DraftsInv

\* The file, the report and the plans aside, only the drafts matter; edited ones
\* carry what they carried.
LEMMA EditedCarry ==
  ASSUME CarryInv, Edited(drafts, drafts'), text' = text, meta => meta'
  PROVE  DraftsNumbered' /\ AllCarried'
<1> USE DEF CarryInv, DraftsInv
<1>1. /\ DOMAIN drafts' = DOMAIN drafts
      /\ \A n \in DOMAIN drafts : /\ drafts'[n].carries = drafts[n].carries /\ drafts'[n].id = drafts[n].id
                                  /\ drafts[n].status # "archived" => drafts'[n].status # "archived"
  BY DEF Edited
<1>2. Kept(text)' = Kept(text) /\ Slices(text)' = Slices(text) BY DEF Kept
<1>3. DraftsNumbered' BY <1>1, <1>2 DEF DraftsNumbered
<1>4. AllCarried'
  <2> SUFFICES ASSUME DOMAIN drafts # {}, NEW order \in Kept(text)
               PROVE  \E n : n \in DOMAIN drafts /\ drafts'[n].status # "archived" /\ order \in ToSet(drafts'[n].carries)
    BY <1>1, <1>2 DEF AllCarried, Open
  <2>1. PICK n : Open(n) /\ order \in ToSet(drafts[n].carries) BY DEF AllCarried
  <2>2. n \in DOMAIN drafts /\ drafts[n].status # "archived" BY <2>1 DEF Open
  <2> QED BY <1>1, <2>1, <2>2
<1> QED BY <1>3, <1>4

LEMMA NamedAsBefore ==
  ASSUME CarryInv, DOMAIN drafts' = DOMAIN drafts, report' = report,
         plan' \cup repairing' \subseteq plan \cup repairing
  PROVE  IssuesNamed' /\ ActionsNamed'
BY DEF CarryInv, DraftsInv, IssuesNamed, ActionsNamed

\* A merge moves what the neighbour carries and archives it afterwards.
LEMMA MergeCarries ==
  ASSUME CarryInv, NEW action \in repairing, NEW both, Merge(action, both), UNCHANGED <<text, meta>>
  PROVE  DraftsNumbered' /\ AllCarried'
<1> USE DEF CarryInv, DraftsInv
<1> DEFINE n == action.id
           k == MergeCandidate(n)
           target == [drafts[n] EXCEPT !.carries = drafts[n].carries \o drafts[k].carries,
                                       !.lists = drafts[n].lists \o drafts[k].lists,
                                       !.quality = IF drafts[n].quality = "error" THEN drafts[n].quality ELSE "warn"]
           neighbour == [drafts[k] EXCEPT !.status = "archived", !.pipeline = "review_required",
                                          !.quality = "warn"]
<1>0. Kept(text)' = Kept(text) /\ Slices(text)' = Slices(text) BY DEF Kept
<1>1. CASE ~Mergeable(action)
  <2>1. drafts' = drafts BY <1>1 DEF Merge
  <2>2. Edited(drafts, drafts') BY <2>1 DEF Edited, FilesTyped
  <2> QED BY <2>2, EditedCarry
<1>2. CASE Mergeable(action)
  <2>1. \/ drafts' = [drafts EXCEPT ![n] = target, ![k] = neighbour]
        \/ drafts' = [drafts EXCEPT ![n] = target]
    BY <1>2 DEF Merge, FirstWritten
  <2>2. ~action.formal /\ drafts[n].status # "archived" /\ k # 0 BY <1>2 DEF Mergeable
  <2>3. n \in DOMAIN drafts BY <2>2 DEF ActionsNamed
  <2>4. PICK c \in Nat : DOMAIN drafts = 1 .. c BY DEF FilesTyped
  <2>5. k \in DOMAIN drafts /\ k # n /\ drafts[k].status # "archived"
    <3>1. (k = n + 1 \/ k = n - 1) /\ k \in DOMAIN drafts /\ drafts[k].status # "archived"
      BY <2>2 DEF MergeCandidate
    <3> QED BY <2>3, <2>4, <3>1
  <2>6. IsFile(drafts[n]) /\ IsFile(drafts[k]) BY <2>3, <2>5 DEF FilesTyped, AreFiles
  <2>7. /\ target.carries = drafts[n].carries \o drafts[k].carries
        /\ target.id = drafts[n].id /\ target.status = drafts[n].status
    BY <2>6 DEF IsFile
  <2>8. neighbour.carries = drafts[k].carries /\ neighbour.id = drafts[k].id BY <2>6 DEF IsFile
  <2> HIDE DEF target, neighbour, n, k
  <2>9. drafts[n].carries \in Seq(Nat) /\ drafts[k].carries \in Seq(Nat) /\ drafts[n].id = n /\ drafts[k].id = k
    BY <2>3, <2>5 DEF DraftsNumbered
  <2>10. /\ target.carries \in Seq(Nat)
         /\ ToSet(drafts[n].carries) \cup ToSet(drafts[k].carries) \subseteq ToSet(target.carries)
    BY <2>7, <2>9, ConcatCarries
  <2>11. DOMAIN drafts' = DOMAIN drafts BY <2>1
  <2>12. drafts'[n] = target BY <2>1, <2>3, <2>5
  <2>13. drafts'[k] = drafts[k] \/ drafts'[k] = neighbour BY <2>1, <2>5
  <2>14. \A m \in DOMAIN drafts : m # n /\ m # k => drafts'[m] = drafts[m] BY <2>1
  <2>15. ASSUME NEW m \in DOMAIN drafts PROVE drafts'[m].id = m /\ drafts'[m].carries \in Seq(Nat)
    <3>1. CASE m = n BY <2>7, <2>9, <2>10, <2>12, <3>1
    <3>2. CASE m = k BY <2>8, <2>9, <2>13, <3>2
    <3>3. CASE m # n /\ m # k BY <2>14, <3>3 DEF DraftsNumbered
    <3> QED BY <3>1, <3>2, <3>3
  <2>16. DraftsNumbered' BY <1>0, <2>11, <2>15 DEF DraftsNumbered
  <2>17. ASSUME NEW order \in Kept(text)
         PROVE  \E m : m \in DOMAIN drafts /\ drafts'[m].status # "archived" /\ order \in ToSet(drafts'[m].carries)
    <3>1. PICK m : Open(m) /\ order \in ToSet(drafts[m].carries) BY <2>3 DEF AllCarried
    <3>2. CASE m = n \/ m = k
      <4>1. order \in ToSet(target.carries) BY <2>10, <3>1, <3>2
      <4>2. target.status # "archived" BY <2>2, <2>7 DEF n
      <4> QED BY <2>3, <2>12, <4>1, <4>2
    <3>3. CASE m # n /\ m # k
      <4>1. drafts'[m] = drafts[m] /\ m \in DOMAIN drafts BY <2>14, <3>1, <3>3 DEF Open
      <4> QED BY <3>1, <4>1 DEF Open
    <3> QED BY <3>2, <3>3
  <2>18. AllCarried' BY <1>0, <2>11, <2>17 DEF AllCarried, Open
  <2> QED BY <2>16, <2>18
<1> QED BY <1>1, <1>2

\* An issue of the audit is one of a formal document or of a draft.
LEMMA AuditNames ==
  ASSUME NEW files, \A n \in DOMAIN files : files[n].id \in DOMAIN files,
         NEW documents, NEW indexed, NEW i \in AuditReport(files, documents, indexed).issues
  PROVE  /\ i = [id |-> i.id, code |-> i.code, formal |-> i.formal] /\ i.formal \in BOOLEAN
         /\ i.formal \/ i.id \in DOMAIN files
<1> DEFINE formal == Formal(documents)
           audited == formal \cup ToSet(files)
           bodies == {[id |-> file.id, body |-> MeaningfulBody(file)] : file \in audited}
           Issue(file, code) == [id |-> file.id, code |-> code, formal |-> file \in formal]
           Own(file) == {Issue(file, code) : code \in Codes(file, bodies)}
<1>1. i \in (UNION {Own(file) : file \in audited}) \cup ChunkIssues(formal, indexed) BY DEF AuditReport
<1>4. \A file \in audited : file \in formal \/ file.id \in DOMAIN files
  <2> HIDE DEF formal
  <2> QED BY DEF ToSet
<1>5. \A file \in audited : Own(file) = {Issue(file, code) : code \in Codes(file, bodies)} OBVIOUS
<1> HIDE DEF formal, bodies, audited, Own
<1>2. CASE i \in ChunkIssues(formal, indexed)
  <2>1. PICK id, code : i = [id |-> id, code |-> code, formal |-> TRUE] BY <1>2 DEF ChunkIssues
  <2> QED BY <2>1
<1>3. CASE i \notin ChunkIssues(formal, indexed)
  <2>1. PICK file \in audited : i \in Own(file) BY <1>1, <1>3
  <2>2. PICK code : i = Issue(file, code)
    <3>1. Own(file) = {Issue(file, code) : code \in Codes(file, bodies)} BY <1>5
    <3> HIDE DEF Issue
    <3> QED BY <2>1, <3>1
  <2>3. file \in formal \/ file.id \in DOMAIN files BY <1>4
  <2>4. CASE file \in formal
    <3>1. i = [id |-> file.id, code |-> code, formal |-> TRUE] BY <2>2, <2>4
    <3> QED BY <3>1
  <2>5. CASE file \notin formal
    <3> DEFINE yes == file \in formal
    <3>1. yes = FALSE BY <2>5
    <3>2. i = [id |-> file.id, code |-> code, formal |-> yes] BY <2>2
    <3> HIDE DEF yes
    <3>3. i = [id |-> file.id, code |-> code, formal |-> FALSE] BY <3>1, <3>2
    <3> QED BY <2>3, <2>5, <3>3
  <2> QED BY <2>4, <2>5
<1> QED BY <1>2, <1>3

\* An action of a plan is on a formal document or on a draft with an issue.
LEMMA PlanNames ==
  ASSUME CarryInv, NEW action \in RepairPlan
  PROVE  action.formal \/ action.id \in DOMAIN drafts
<1>1. PICK k \in DOMAIN SafeRepairs : action \in RepairsAt(k) BY DEF RepairPlan
<1> DEFINE code == SafeRepairs[k].code
           kind == SafeRepairs[k].kind
           Known(id) == [id |-> id, code |-> code, formal |-> TRUE] \in report.issues
           Action(id) == [place |-> k, kind |-> kind, id |-> id, formal |-> Known(id)]
<1>a. \E id \in Reported(code) : action = Action(id)
  <2> DEFINE due == {id \in Reported(code) : \A j \in {j \in 1 .. (k - 1) : SafeRepairs[j].kind = kind} :
                                                 id \notin Reported(SafeRepairs[j].code)}
  <2>1. RepairsAt(k) = {Action(id) : id \in due} BY DEF RepairsAt
  <2>2. due \subseteq Reported(code) OBVIOUS
  <2> HIDE DEF due, Action
  <2> QED BY <1>1, <2>1, <2>2
<1>b. PICK id \in Reported(code) : action = Action(id) BY <1>a
<1>c. action.id = id /\ action.formal = Known(id)
  <2> HIDE DEF Known, code, kind
  <2> QED BY <1>b
<1>2. action.id \in Reported(code) /\ action.formal = Known(action.id)
  <2> HIDE DEF Known, code
  <2> QED BY <1>c
<1> HIDE DEF code
<1>3. PICK i \in report.issues : i.code = code /\ i.id = action.id BY <1>2 DEF Reported
<1>4. /\ i = [id |-> action.id, code |-> code, formal |-> i.formal] /\ i.formal \in BOOLEAN
      /\ i.formal \/ i.id \in DOMAIN drafts
  BY <1>3 DEF CarryInv, DraftsInv, IssuesNamed
<1>5. CASE i.formal = TRUE
  <2>1. [id |-> action.id, code |-> code, formal |-> TRUE] \in report.issues BY <1>4, <1>5
  <2> QED BY <1>2, <2>1
<1>6. CASE i.formal = FALSE BY <1>3, <1>4, <1>6
<1> QED BY <1>4, <1>5, <1>6

LEMMA CarryNext == CarryInv /\ [FilesNext]_fileVars => CarryInv'
<1> SUFFICES ASSUME CarryInv, [FilesNext]_fileVars PROVE CarryInv' OBVIOUS
<1> USE DEF DraftsInv
<1>t. FilesTyped /\ DraftsNumbered /\ IssuesNamed /\ ActionsNamed /\ AllCarried BY DEF CarryInv
<1>0. FilesTyped' BY TypedNext DEF CarryInv
<1> SUFFICES DraftsInv' BY <1>0 DEF CarryInv
<1>1. Edited(drafts, drafts) BY <1>t DEF Edited, FilesTyped
<1>2. ASSUME Edited(drafts, drafts'), UNCHANGED <<text, meta, report>>,
             plan' \cup repairing' \subseteq plan \cup repairing
      PROVE  DraftsInv'
  <2>1. DraftsNumbered' /\ AllCarried' BY <1>2, EditedCarry
  <2>2. DOMAIN drafts' = DOMAIN drafts BY <1>2 DEF Edited
  <2> QED BY <1>2, <2>1, <2>2, NamedAsBefore
<1>3. ASSUME NEW item, Write(item) PROVE DraftsInv'
  <2>1. /\ ~meta /\ UNCHANGED <<meta, drafts, report, plan, repairing>>
    BY <1>3 DEF Write, Repair
  <2>2. DOMAIN drafts = {} BY <1>t, <2>1 DEF DraftsNumbered
  <2>3. IssuesNamed' /\ ActionsNamed' BY <2>1, NamedAsBefore
  <2>4. DraftsNumbered' /\ AllCarried' BY <2>1, <2>2 DEF DraftsNumbered, AllCarried
  <2> QED BY <2>3, <2>4
<1>4. ASSUME drafts' = NewDrafts(Sliced[text]), text \in Imported, meta',
             UNCHANGED <<text, plan, repairing>>
      PROVE  DraftsNumbered' /\ AllCarried' /\ ActionsNamed' /\ DOMAIN drafts \subseteq DOMAIN drafts'
  <2> DEFINE slices == Slices(text)
  <2>1. Kept(text)' = Kept(text) /\ Slices(text)' = Slices(text) BY <1>4 DEF Kept
  <2>2. Sliced[text] = slices BY <1>4 DEF Sliced
  <2>3. /\ DOMAIN drafts' = DOMAIN slices
        /\ \A n \in DOMAIN slices : /\ drafts'[n].id = n /\ drafts'[n].status # "archived"
                                    /\ drafts'[n].carries = Draft(n, slices[n]).carries
    BY <1>4, <2>2, NewDraftsAreFiles
  <2>4. text \in Seq(Paragraphs) BY <1>t DEF FilesTyped
  <2>5. \A n \in DOMAIN slices : Draft(n, slices[n]).carries \in Seq(Nat) BY <2>4, WhatSlicesCarry
  <2>6. UNION {ToSet(Draft(n, slices[n]).carries) : n \in DOMAIN slices} = Kept(text)
    BY <2>4, SlicesTell DEF TellTheSource
  <2> HIDE DEF slices
  <2>7. DraftsNumbered'
    <3>1. \A n \in DOMAIN drafts' : drafts'[n].id = n /\ drafts'[n].carries \in Seq(Nat) BY <2>3, <2>5
    <3> QED BY <1>4, <2>1, <2>3, <3>1 DEF DraftsNumbered, slices
  <2>8. AllCarried'
    <3> SUFFICES ASSUME NEW order \in Kept(text)
                 PROVE \E n \in DOMAIN drafts' : drafts'[n].status # "archived" /\ order \in ToSet(drafts'[n].carries)
      BY <2>1 DEF AllCarried, Open
    <3>1. PICK n \in DOMAIN slices : order \in ToSet(Draft(n, slices[n]).carries) BY <2>6
    <3> QED BY <2>3, <3>1
  <2>9. DOMAIN drafts \subseteq DOMAIN drafts' BY <1>t, <2>3 DEF DraftsNumbered, slices
  <2>10. ActionsNamed' BY <1>t, <1>4, <2>9 DEF ActionsNamed
  <2> QED BY <2>7, <2>8, <2>9, <2>10
<1>18. ASSUME drafts' = NewDrafts(Sliced[text]), text \in Imported, meta',
              UNCHANGED <<text, report, plan, repairing>>
       PROVE  DraftsInv'
  <2>1. DraftsNumbered' /\ AllCarried' /\ ActionsNamed' /\ DOMAIN drafts \subseteq DOMAIN drafts' BY <1>4, <1>18
  <2>2. IssuesNamed' BY <1>t, <1>18, <2>1 DEF IssuesNamed
  <2> QED BY <2>1, <2>2
<1>a. ASSUME Edited(drafts, drafts'), UNCHANGED <<text, report, plan, repairing>>, meta => meta'
      PROVE  DraftsInv'
  <2>1. DOMAIN drafts' = DOMAIN drafts BY <1>a DEF Edited
  <2>2. DraftsNumbered' /\ AllCarried' BY <1>a, EditedCarry
  <2>3. plan' \cup repairing' \subseteq plan \cup repairing BY <1>a
  <2>4. IssuesNamed' /\ ActionsNamed' BY <1>a, <2>1, <2>3, NamedAsBefore
  <2> QED BY <2>2, <2>4
<1>5. ASSUME NEW ids, NEW action, Review(ids, action) PROVE DraftsInv'
  <2>1. drafts' = ReviewedDrafts(ids, action) /\ UNCHANGED <<text, meta, report, plan, repairing>>
    BY <1>5 DEF Review, Files, Repair
  <2>2. Edited(drafts, drafts') BY <1>t, <2>1, ReviewEdits DEF FilesTyped
  <2> QED BY <1>2, <2>1, <2>2
<1>6. ASSUME NEW asked, NEW action, SubmitReview(asked, action) PROVE DraftsInv'
  <2>1. PICK targets : drafts' = ReviewedDrafts(targets, action) /\ UNCHANGED <<text, meta, report, plan, repairing>>
    BY <1>6 DEF SubmitReview, Files, Repair
  <2>2. Edited(drafts, drafts') BY <1>t, <2>1, ReviewEdits DEF FilesTyped
  <2> QED BY <1>2, <2>1, <2>2
<1>7. CASE RepairStep
  <2>1. UNCHANGED <<text, meta, report, plan>> BY <1>7 DEF RepairStep, Files
  <2>2. PICK action \in repairing : RepairFile(action) \/ \E both \in BOOLEAN : Merge(action, both)
    BY <1>7 DEF RepairStep
  <2>3. CASE RepairFile(action)
    <3>1. Edited(drafts, drafts') BY <1>t, <2>3, RepairEdits DEF FilesTyped
    <3>2. repairing' \subseteq repairing BY <2>3 DEF RepairFile
    <3> QED BY <1>2, <2>1, <3>1, <3>2
  <2>4. ASSUME NEW both, Merge(action, both) PROVE DraftsInv'
    <3>1. DraftsNumbered' /\ AllCarried' BY <2>1, <2>4, MergeCarries
    <3>2. DOMAIN drafts' = DOMAIN drafts BY <1>t, <2>4, MergeKeepsFiles DEF FilesTyped
    <3>3. repairing' \subseteq repairing BY <2>4 DEF Merge
    <3>4. IssuesNamed' /\ ActionsNamed' BY <2>1, <3>2, <3>3, NamedAsBefore
    <3> QED BY <3>1, <3>4
  <2> QED BY <2>2, <2>3, <2>4
<1>8. ASSUME NEW documents, NEW indexed, report' = AuditReport(drafts', documents, indexed), DraftsNumbered'
      PROVE  IssuesNamed'
  <2>1. \A n \in DOMAIN drafts' : drafts'[n].id \in DOMAIN drafts' BY <1>8 DEF DraftsNumbered
  <2>2. \A i \in AuditReport(drafts', documents, indexed).issues :
           /\ i = [id |-> i.id, code |-> i.code, formal |-> i.formal] /\ i.formal \in BOOLEAN
           /\ i.formal \/ i.id \in DOMAIN drafts'
    BY <2>1, AuditNames
  <2> QED BY <1>8, <2>2 DEF IssuesNamed
<1>b. ASSUME NEW documents, NEW indexed, report' = AuditReport(drafts', documents, indexed),
             drafts' = drafts, UNCHANGED <<text, plan, repairing>>, meta => meta'
      PROVE  DraftsInv'
  <2>1. DraftsNumbered' /\ AllCarried'
    <3>1. Edited(drafts, drafts') BY <1>1, <1>b
    <3> QED BY <1>b, <3>1, EditedCarry
  <2>2. ActionsNamed' BY <1>t, <1>b DEF ActionsNamed
  <2>3. IssuesNamed' BY <1>8, <1>b, <2>1
  <2> QED BY <2>1, <2>2, <2>3
<1>9. CASE Audit
  <2>1. report' = AuditReport(drafts', docs, index) /\ UNCHANGED <<text, meta, drafts, plan, repairing>>
    BY <1>9 DEF Audit, Files, Repair
  <2> QED BY <1>b, <2>1
<1>10. ASSUME NEW gated, PrepareRebuild(gated) PROVE DraftsInv'
  <2>1. (report' = report \/ report' = AuditReport(drafts', docs, docs)) /\ UNCHANGED <<text, meta, drafts, plan, repairing>>
    BY <1>10 DEF PrepareRebuild, Files, Repair
  <2>2. CASE report' = report BY <1>1, <1>2, <2>1, <2>2
  <2>3. CASE report' = AuditReport(drafts', docs, docs) BY <1>b, <2>1, <2>3
  <2> QED BY <2>1, <2>2, <2>3
<1>19. ASSUME NEW extracted, Ingest(extracted) PROVE DraftsInv'
  <2>1. text \in Imported /\ meta' /\ UNCHANGED <<text, report, plan, repairing>> BY <1>19 DEF Ingest, Repair
  <2>2. drafts' = drafts \/ drafts' = NewDrafts(Sliced[text]) BY <1>19 DEF Ingest
  <2> QED BY <1>1, <1>a, <1>18, <2>1, <2>2
<1>20. CASE Reslice
  <2>1. /\ text \in Imported /\ meta' /\ UNCHANGED <<text, report, plan, repairing>>
        /\ drafts' = NewDrafts(Sliced[text])
    BY <1>t, <1>20 DEF Reslice, Repair, Files, FilesTyped
  <2> QED BY <1>18, <2>1
<1>21. ASSUME NEW ids, Edit(ids) PROVE DraftsInv'
  <2>1. UNCHANGED <<text, meta, report, plan, repairing>> BY <1>21 DEF Edit, Files, Repair
  <2>2. Edited(drafts, drafts') BY <1>t, <1>21, EditEdits DEF FilesTyped
  <2> QED BY <1>a, <2>1, <2>2
<1>22. ASSUME NEW sliced \in BOOLEAN, NEW legacy, NEW gated, NEW published, NEW finalized,
              InitWorkspace(sliced, legacy, gated, published, finalized)
       PROVE  DraftsInv'
  <2>1. text \in Imported /\ meta' /\ UNCHANGED <<text, plan, repairing>> BY <1>22 DEF InitWorkspace, Repair
  <2>2. drafts' = drafts \/ drafts' = NewDrafts(Sliced[text]) BY <1>22 DEF InitWorkspace
  <2>3. report' = report \/ report' = AuditReport(drafts', docs', docs') BY <1>22 DEF InitWorkspace
  <2>4. CASE report' = report BY <1>1, <1>a, <1>18, <2>1, <2>2, <2>4
  <2>5. CASE report' = AuditReport(drafts', docs', docs')
    <3>1. CASE drafts' = drafts BY <1>b, <2>1, <2>5, <3>1
    <3>2. CASE drafts' = NewDrafts(Sliced[text])
      <4>1. DraftsNumbered' /\ AllCarried' /\ ActionsNamed' BY <1>4, <2>1, <3>2
      <4>2. IssuesNamed' BY <1>8, <2>5, <4>1
      <4> QED BY <4>1, <4>2
    <3> QED BY <2>2, <3>1, <3>2
  <2> QED BY <2>3, <2>4, <2>5
<1>11. CASE PlanRepair
  <2>1. plan' = RepairPlan /\ UNCHANGED <<text, meta, drafts, report, repairing>>
    BY <1>11 DEF PlanRepair, Files
  <2>2. DraftsNumbered' /\ AllCarried'
    <3>1. Edited(drafts, drafts') BY <1>1, <2>1
    <3> QED BY <2>1, <3>1, EditedCarry
  <2>3. IssuesNamed' BY <1>t, <2>1 DEF IssuesNamed
  <2>4. ActionsNamed'
    <3>1. \A action \in RepairPlan : action.formal \/ action.id \in DOMAIN drafts BY PlanNames
    <3> QED BY <1>t, <2>1, <3>1 DEF ActionsNamed
  <2> QED BY <2>2, <2>3, <2>4
<1>12. CASE ApplyPlan
  <2>1. repairing' = plan /\ UNCHANGED <<text, meta, drafts, report, plan>> BY <1>12 DEF ApplyPlan, Files
  <2> QED BY <1>1, <1>2, <2>1
<1>13. ASSUME UNCHANGED <<text, meta, drafts, report, plan, repairing>> PROVE DraftsInv' BY <1>1, <1>2, <1>13
<1>14. ASSUME NEW gate, PublishDrafts(gate) PROVE DraftsInv' BY <1>13, <1>14 DEF PublishDrafts, Files, Repair
<1>15. CASE AutoApprove BY <1>5, <1>15 DEF AutoApprove
<1>16. ASSUME NEW published, NEW finalized, FinishRebuild(published, finalized) PROVE DraftsInv'
  BY <1>13, <1>16 DEF FinishRebuild, Files, Repair
<1>17. CASE UNCHANGED fileVars BY <1>13, <1>17 DEF fileVars
<1> HIDE DEF DraftsInv
<1> QED
  BY <1>3, <1>5, <1>6, <1>7, <1>9, <1>10, <1>11, <1>12, <1>14, <1>15, <1>16, <1>17, <1>19, <1>20, <1>21, <1>22
  DEF FilesNext

LEMMA CarryInit == FilesInit => CarryInv
<1> SUFFICES ASSUME FilesInit PROVE CarryInv OBVIOUS
<1>1. FilesTyped BY TypedInit
<1>2. drafts = <<>> /\ report.issues = {} /\ plan = {} /\ repairing = {} BY DEF FilesInit, NoReport
<1>3. DOMAIN drafts = {} BY <1>2
<1> QED BY <1>1, <1>2, <1>3 DEF CarryInv, DraftsInv, DraftsNumbered, IssuesNamed, ActionsNamed, AllCarried

\* BlocksAreCarried: no repair, review or import loses a block of the file, not
\* even one that dies between the two writes of a merge (repair.ts).
THEOREM NoBlockIsLost == FilesSpec => []BlocksAreCarried
<1>1. FilesInit => CarryInv BY CarryInit
<1>2. CarryInv /\ [FilesNext]_fileVars => CarryInv' BY CarryNext
<1>3. CarryInv => BlocksAreCarried
  <2> SUFFICES ASSUME CarryInv, drafts # <<>>, NEW order \in KeptOf[text]
               PROVE  \E n \in DOMAIN drafts : drafts[n].status # "archived" /\ order \in ToSet(drafts[n].carries)
    BY DEF BlocksAreCarried
  <2>1. drafts = [n \in DOMAIN drafts |-> drafts[n]] BY DEF CarryInv, FilesTyped, AreFiles
  <2>2. DOMAIN drafts # {}
    <3> SUFFICES ASSUME DOMAIN drafts = {} PROVE drafts = <<>> OBVIOUS
    <3> QED BY <2>1
  <2>3. order \in Kept(text)
    <3>1. text \in Imported BY <2>2 DEF CarryInv, FilesTyped
    <3> QED BY <3>1 DEF KeptOf
  <2> QED BY <2>2, <2>3 DEF CarryInv, DraftsInv, AllCarried, Open
<1> QED BY <1>1, <1>2, <1>3, PTL DEF FilesSpec
=============================================================================
