------------------------ MODULE KnowledgeGenerations ------------------------
(***************************************************************************)
(* Publication of knowledge index generations                              *)
(* (src/src/knowledge/generation-store.ts, generation-recovery.ts and      *)
(* src/src/application/knowledge-rebuild-service.ts).                      *)
(*                                                                         *)
(* A generation is a directory that is written under a temporary name,     *)
(* renamed, and then named by active.json.  Publishers and rollbacks of    *)
(* several processes are kept apart by a lock directory, addressed by its  *)
(* path alone, and compare the active generation with the one they started *)
(* from.  An explicit recovery clears the lock of a dead process.          *)
(*                                                                         *)
(* One action is what a process does between two looks at shared files.    *)
(* The content of a directory is abstracted to whether it is complete.     *)
(***************************************************************************)
EXTENDS Naturals

CONSTANTS
  Proc, Gen,
  None,               \* no active.json, no lock, no owner.json
  ParallelRecovery,   \* two recoveries may run together
  MaxCrashes          \* bound of the exploration

Lock == [owner : Proc \cup {None}, expected : Gen \cup {None}, old : BOOLEAN]

ASSUME GenerationAssumption ==
  /\ ParallelRecovery \in BOOLEAN /\ MaxCrashes \in Nat
  /\ None \notin Gen \cup Proc /\ None \notin Lock

VARIABLES
  active,     \* active.json
  draft,      \* the temporary directory of each generation
  final,      \* the published directory of each generation
  previous,   \* previous_generation_id of its manifest
  lock,       \* the lock directory: owner.json, and whether it is 5 minutes old
  alive,
  pc, gen, expected,   \* per process: next step, generation, active one expected
  listed,     \* per process: temporary directories a recovery has listed
  crashes

local == <<pc, gen, expected, listed>>
vars == <<active, draft, final, previous, lock, alive, local, crashes>>

Content == {"absent", "partial", "torn", "complete"}
Stage == {"idle", "prepared", "chosen", "locking", "switching", "checking", "verifying",
          "drafting", "writing", "renaming", "rechecking", "activating",
          "discarding", "unlocking", "inspecting", "cleaning", "releasing"}

Init ==
  /\ active = None
  /\ draft = [g \in Gen |-> "absent"]
  /\ final = [g \in Gen |-> "absent"]
  /\ previous = [g \in Gen |-> None]
  /\ lock = None
  /\ alive = Proc
  /\ pc = [p \in Proc |-> "idle"]
  /\ gen = [p \in Proc |-> None]
  /\ expected = [p \in Proc |-> None]
  /\ listed = [p \in Proc |-> {}]
  /\ crashes = 0

\* readActiveKnowledgeGeneration: a pointer to an incomplete generation is none.
ReadActive == IF active # None /\ final[active] = "complete" THEN active ELSE None

Fresh == {g \in Gen : /\ draft[g] = "absent" /\ final[g] = "absent"
                      /\ \A p \in Proc : gen[p] # g}

Recovering(p) == pc[p] \in {"inspecting", "cleaning", "releasing"}

At(p, s) == p \in alive /\ pc[p] = s
Goto(p, s) == pc' = [pc EXCEPT ![p] = s]

-----------------------------------------------------------------------------
(* publishKnowledgeGeneration and rollbackKnowledgeGeneration.             *)

\* A rebuild reads the active generation and then computes its files, with
\* calls to the embedding model.
Prepare(p) ==
  /\ At(p, "idle") /\ Goto(p, "prepared")
  /\ expected' = [expected EXCEPT ![p] = ReadActive]
  /\ \E g \in Fresh : gen' = [gen EXCEPT ![p] = g]
  /\ UNCHANGED <<active, draft, final, previous, lock, alive, listed, crashes>>

\* A rollback that takes the predecessor for granted.
ChooseAny(p) ==
  /\ At(p, "idle") /\ Goto(p, "chosen")
  /\ ReadActive # None
  /\ expected' = [expected EXCEPT ![p] = ReadActive]
  /\ gen' = [gen EXCEPT ![p] = previous[ReadActive]]
  /\ UNCHANGED <<active, draft, final, previous, lock, alive, listed, crashes>>

\* A rollback is asked for from the active generation to its predecessor.
Choose(p) ==
  /\ At(p, "idle") /\ Goto(p, "chosen")
  /\ ReadActive # None /\ previous[ReadActive] # None
  /\ expected' = [expected EXCEPT ![p] = ReadActive]
  /\ gen' = [gen EXCEPT ![p] = previous[ReadActive]]
  /\ UNCHANGED <<active, draft, final, previous, lock, alive, listed, crashes>>

\* mkdir of the lock; it exists: generation_lock_busy or generation_lock_stale.
MakeLock(p) ==
  /\ \/ /\ At(p, "prepared") /\ Goto(p, IF lock = None THEN "locking" ELSE "idle")
     \/ /\ At(p, "chosen") /\ Goto(p, IF lock = None THEN "switching" ELSE "idle")
  /\ lock' = IF lock = None THEN [owner |-> None, expected |-> None, old |-> FALSE] ELSE lock
  /\ gen' = IF lock = None THEN gen ELSE [gen EXCEPT ![p] = None]
  /\ UNCHANGED <<active, draft, final, previous, alive, expected, listed, crashes>>

\* owner.json is written, into whatever directory has the path; there is none:
\* generation_lock_failed.
OwnLock(p) ==
  /\ \/ At(p, "locking") /\ Goto(p, IF lock = None THEN "idle" ELSE "checking")
     \/ At(p, "switching") /\ Goto(p, IF lock = None THEN "idle" ELSE "verifying")
  /\ lock' = IF lock = None THEN None
             ELSE [owner |-> p, expected |-> expected[p], old |-> FALSE]
  /\ gen' = IF lock = None THEN [gen EXCEPT ![p] = None] ELSE gen
  /\ UNCHANGED <<active, draft, final, previous, alive, expected, listed, crashes>>

\* assertExpectedActive: generation_conflict.
CheckActive(p) ==
  /\ At(p, "checking")
  /\ Goto(p, IF ReadActive = expected[p] THEN "drafting" ELSE "discarding")
  /\ UNCHANGED <<active, draft, final, previous, lock, alive, gen, expected, listed, crashes>>

\* A rollback that only validates its target.
VerifyFiles(p) ==
  /\ At(p, "verifying")
  /\ Goto(p, IF final[gen[p]] = "complete" THEN "activating" ELSE "unlocking")
  /\ UNCHANGED <<active, draft, final, previous, lock, alive, gen, expected, listed, crashes>>

\* The rollback also validates the files of its target.
VerifyTarget(p) ==
  /\ At(p, "verifying")
  /\ Goto(p, IF ReadActive = expected[p] /\ final[gen[p]] = "complete"
               THEN "activating" ELSE "unlocking")
  /\ UNCHANGED <<active, draft, final, previous, lock, alive, gen, expected, listed, crashes>>

MakeDraft(p) ==
  /\ At(p, "drafting") /\ Goto(p, "writing")
  /\ draft' = [draft EXCEPT ![gen[p]] = "partial"]
  /\ UNCHANGED <<active, final, previous, lock, alive, gen, expected, listed, crashes>>

\* The files, the manifest and complete.json are written; files that are
\* removed meanwhile stay missing.
WriteDraft(p) ==
  /\ At(p, "writing")
  /\ Goto(p, IF draft[gen[p]] = "absent" THEN "discarding" ELSE "renaming")
  /\ draft' = [draft EXCEPT ![gen[p]] = IF @ = "partial" THEN "complete" ELSE @]
  /\ previous' = [previous EXCEPT ![gen[p]] = expected[p]]
  /\ UNCHANGED <<active, final, lock, alive, gen, expected, listed, crashes>>

RenameDraft(p) ==
  /\ At(p, "renaming")
  /\ Goto(p, IF draft[gen[p]] = "absent" THEN "discarding" ELSE "rechecking")
  /\ final' = [final EXCEPT ![gen[p]] = draft[gen[p]]]
  /\ draft' = [draft EXCEPT ![gen[p]] = "absent"]
  /\ UNCHANGED <<active, previous, lock, alive, gen, expected, listed, crashes>>

\* assertExpectedActive again.
RecheckActive(p) ==
  /\ At(p, "rechecking")
  /\ Goto(p, IF ReadActive = expected[p] THEN "activating" ELSE "discarding")
  /\ UNCHANGED <<active, draft, final, previous, lock, alive, gen, expected, listed, crashes>>

\* replaceActivePointer.
Activate(p) ==
  /\ At(p, "activating") /\ Goto(p, "discarding")
  /\ active' = gen[p]
  /\ UNCHANGED <<draft, final, previous, lock, alive, gen, expected, listed, crashes>>

\* The finally: the temporary directory and then the lock are removed.
Discard(p) ==
  /\ At(p, "discarding") /\ Goto(p, "unlocking")
  /\ draft' = [draft EXCEPT ![gen[p]] = "absent"]
  /\ UNCHANGED <<active, final, previous, lock, alive, gen, expected, listed, crashes>>

Unlock(p) ==
  /\ At(p, "unlocking") /\ Goto(p, "idle")
  /\ lock' = None
  /\ gen' = [gen EXCEPT ![p] = None]
  /\ expected' = [expected EXCEPT ![p] = None]
  /\ UNCHANGED <<active, draft, final, previous, alive, listed, crashes>>

-----------------------------------------------------------------------------
(* recoverStaleKnowledgeGenerationLock.                                    *)

\* The lock is older than 5 minutes and active.json names a valid generation.
Recover(p) ==
  /\ At(p, "idle") /\ Goto(p, "inspecting")
  /\ ParallelRecovery \/ \A q \in Proc : ~Recovering(q)
  /\ lock # None /\ lock.old /\ active = ReadActive
  /\ expected' = [expected EXCEPT ![p] = active]
  /\ UNCHANGED <<active, draft, final, previous, lock, alive, gen, listed, crashes>>

\* A recovery that goes by the age of the lock.
InspectAge(p) ==
  /\ At(p, "inspecting")
  /\ Goto(p, IF lock # None /\ lock.old /\ lock.owner # None THEN "cleaning" ELSE "idle")
  /\ listed' = [listed EXCEPT ![p] = {g \in Gen : draft[g] # "absent"}]
  /\ UNCHANGED <<active, draft, final, previous, lock, alive, gen, expected, crashes>>

\* The owner is known, old enough and dead, and left active.json as it was.
Clearable(p) ==
  /\ lock # None /\ lock.old
  /\ lock.owner # None /\ lock.owner \notin alive
  /\ lock.expected = expected[p]

Inspect(p) ==
  /\ At(p, "inspecting") /\ Goto(p, IF Clearable(p) THEN "cleaning" ELSE "idle")
  /\ listed' = [listed EXCEPT ![p] =
       IF Clearable(p) THEN {g \in Gen : draft[g] # "absent"} ELSE {}]
  /\ UNCHANGED <<active, draft, final, previous, lock, alive, gen, expected, crashes>>

\* The files of a listed temporary directory are removed one by one.
Tear(p) ==
  /\ At(p, "cleaning") /\ UNCHANGED pc
  /\ \E g \in listed[p] : /\ draft[g] \in {"partial", "complete"}
                          /\ draft' = [draft EXCEPT ![g] = "torn"]
  /\ UNCHANGED <<active, final, previous, lock, alive, gen, expected, listed, crashes>>

\* Every generation but the active one is removed.
CleanAll(p) ==
  /\ At(p, "cleaning") /\ Goto(p, "releasing")
  /\ draft' = [g \in Gen |-> IF g \in listed[p] THEN "absent" ELSE draft[g]]
  /\ final' = [g \in Gen |-> IF g = expected[p] THEN final[g] ELSE "absent"]
  /\ listed' = [listed EXCEPT ![p] = {}]
  /\ UNCHANGED <<active, previous, lock, alive, gen, expected, crashes>>

\* Temporary directories are removed, and then the generations that are not
\* valid, up to the first that still holds its manifest:
\* generation_recovery_invalid_generation.
Clean(p) ==
  LET damaged == {g \in Gen : final[g] = "torn" /\ g # expected[p]} IN
  /\ At(p, "cleaning")
  /\ \E removed \in SUBSET damaged :
       /\ final' = [g \in Gen |-> IF g \in removed THEN "absent" ELSE final[g]]
       /\ Goto(p, IF removed = damaged THEN "releasing" ELSE "idle")
  /\ draft' = [g \in Gen |-> IF g \in listed[p] THEN "absent" ELSE draft[g]]
  /\ listed' = [listed EXCEPT ![p] = {}]
  /\ UNCHANGED <<active, previous, lock, alive, gen, expected, crashes>>

ClearLock(p) ==
  /\ At(p, "releasing") /\ Goto(p, "idle")
  /\ lock' = None
  /\ expected' = [expected EXCEPT ![p] = None]
  /\ UNCHANGED <<active, draft, final, previous, alive, gen, listed, crashes>>

-----------------------------------------------------------------------------
GrowOld ==
  /\ lock # None /\ ~lock.old
  /\ lock' = [lock EXCEPT !.old = TRUE]
  /\ UNCHANGED <<active, draft, final, previous, alive, local, crashes>>

Crash(p) ==
  /\ p \in alive /\ crashes < MaxCrashes
  /\ alive' = alive \ {p}
  /\ pc' = [pc EXCEPT ![p] = "idle"]
  /\ gen' = [gen EXCEPT ![p] = None]
  /\ expected' = [expected EXCEPT ![p] = None]
  /\ listed' = [listed EXCEPT ![p] = {}]
  /\ crashes' = crashes + 1
  /\ UNCHANGED <<active, draft, final, previous, lock>>

Publish(p) == \/ Prepare(p) \/ MakeLock(p) \/ OwnLock(p) \/ CheckActive(p)
              \/ MakeDraft(p) \/ WriteDraft(p) \/ RenameDraft(p) \/ RecheckActive(p)
              \/ Activate(p) \/ Discard(p) \/ Unlock(p)
Rollback(p) == Choose(p) \/ VerifyTarget(p)
Restore(p) == Recover(p) \/ Inspect(p) \/ Tear(p) \/ Clean(p) \/ ClearLock(p)

Next == \/ \E p \in Proc : Publish(p) \/ Rollback(p) \/ Restore(p) \/ Crash(p)
        \/ GrowOld

Spec == Init /\ [][Next]_vars

-----------------------------------------------------------------------------
(* Properties.                                                             *)

\* The values each variable takes.
TypeOK ==
  /\ active \in Gen \cup {None}
  /\ draft \in [Gen -> Content] /\ final \in [Gen -> Content]
  /\ previous \in [Gen -> Gen \cup {None}]
  /\ lock \in Lock \cup {None}
  /\ alive \subseteq Proc
  /\ pc \in [Proc -> Stage]
  /\ gen \in [Proc -> Gen \cup {None}]
  /\ \A p \in Proc : gen[p] \in Gen \/ pc[p] = "idle" \/ Recovering(p)
  /\ expected \in [Proc -> Gen \cup {None}]
  /\ listed \in [Proc -> SUBSET Gen]
  /\ crashes \in 0 .. MaxCrashes

Writing(p) == pc[p] \in {"locking", "switching", "checking", "verifying", "drafting", "writing",
                         "renaming", "rechecking", "activating", "discarding", "unlocking"}

\* The publish lock lets one writer in at a time, also around crashes and the
\* recovery of the locks they leave behind.
OneWriter == \A p, q \in Proc : Writing(p) /\ Writing(q) => p = q

\* A generation replaces the one it was built from: of two publishers that
\* started from the same active generation, one fails.
ReplacesExpected ==
  [][active' # active => \E p \in Proc : gen[p] = active' /\ expected[p] = active]_vars

\* Readers never find the pointer at a generation with files missing, and the
\* active generation can be rolled back to its predecessor: neither a crash in
\* the middle of a publication nor a recovery that cleans up takes either away.
ActiveAndPredecessorAreComplete ==
  /\ active # None => final[active] = "complete"
  /\ active # None /\ previous[active] # None => final[previous[active]] = "complete"
=============================================================================
