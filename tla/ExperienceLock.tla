--------------------------- MODULE ExperienceLock ---------------------------
(***************************************************************************)
(* The lock directories of the experience store                            *)
(* (src/src/knowledge/experience/store-lock.ts): `writer` and `runner` are *)
(* two such locks and do not interact.                                     *)
(*                                                                         *)
(* A lock is a directory with an owner.json inside; a recovery works under *)
(* a second directory, the guard.  Callers belong to operating system      *)
(* processes on one host; processes die at any point, and a pid may be     *)
(* given to a new process.  One action is one call of the file system.     *)
(***************************************************************************)
EXTENDS Naturals

CONSTANTS
  Caller, Pid,
  PidOf,                  \* the process each caller belongs to
  None,                   \* no owner.json, nothing read
  MaxTokens, MaxCrashes   \* bounds of the exploration

ASSUME PidAssumption == PidOf \in [Caller -> Pid]
ASSUME BoundAssumption == MaxTokens \in Nat /\ MaxCrashes \in Nat
ASSUME NoneAssumption == None \notin [pid : Pid, token : Nat]

VARIABLES
  locked,    \* the lock directory exists
  owner,     \* its owner.json
  guard,     \* the guard directory exists
  alive,     \* the running processes
  pc,        \* what each caller does next
  token,     \* the token of its acquisition
  seen,      \* the owner a recovery has read
  tokens, crashes   \* tokens drawn, processes died

lockVars == <<locked, owner, guard, alive, pc, token, seen, tokens, crashes>>

Owner == [pid : Pid, token : Nat]

Stage == {"idle", "making", "naming", "holding", "leaving", "emptied",
          "guarding", "checking", "rereading", "renaming", "unguarding"}

LockInit ==
  /\ locked = FALSE /\ owner = None /\ guard = FALSE
  /\ alive = Pid
  /\ pc = [c \in Caller |-> "idle"]
  /\ token = [c \in Caller |-> 0]
  /\ seen = [c \in Caller |-> None]
  /\ tokens = 0 /\ crashes = 0

\* c runs and its next call is the one of stage s; afterwards it is at stage t.
Goes(c, s, t) == /\ PidOf[c] \in alive /\ pc[c] = s
                 /\ pc' = [pc EXCEPT ![c] = t]

-----------------------------------------------------------------------------
(* acquireExperienceLock and the release it returns.                       *)

\* existsSync of the guard.
Acquire(c) ==
  /\ Goes(c, "idle", "making") /\ ~guard
  /\ UNCHANGED <<locked, owner, guard, alive, token, seen, tokens, crashes>>

\* A lock directory that exists is taken over.
MakeLockAnyway(c) ==
  /\ Goes(c, "making", "naming")
  /\ locked' = TRUE
  /\ UNCHANGED <<owner, guard, alive, token, seen, tokens, crashes>>

\* mkdirSync of the lock; it exists already: EXPERIENCE_STORE_BUSY.
MakeLock(c) ==
  /\ Goes(c, "making", IF locked THEN "idle" ELSE "naming")
  /\ locked' = TRUE
  /\ UNCHANGED <<owner, guard, alive, token, seen, tokens, crashes>>

\* writeExclusive of owner.json.
NameOwner(c) ==
  /\ Goes(c, "naming", "holding") /\ tokens < MaxTokens
  /\ tokens' = tokens + 1
  /\ token' = [token EXCEPT ![c] = tokens + 1]
  /\ owner' = [pid |-> PidOf[c], token |-> tokens + 1]
  /\ UNCHANGED <<locked, guard, alive, seen, crashes>>

\* The release reads the owner: EXPERIENCE_LOCK_OWNER_CHANGED if it is another.
Release(c) ==
  /\ Goes(c, "holding", IF owner # None /\ owner.token = token[c] THEN "leaving" ELSE "idle")
  /\ UNCHANGED <<locked, owner, guard, alive, token, seen, tokens, crashes>>

UnlinkOwner(c) ==
  /\ Goes(c, "leaving", "emptied")
  /\ owner' = None
  /\ UNCHANGED <<locked, guard, alive, token, seen, tokens, crashes>>

RemoveLock(c) ==
  /\ Goes(c, "emptied", "idle")
  /\ locked' = FALSE
  /\ token' = [token EXCEPT ![c] = 0]
  /\ UNCHANGED <<owner, guard, alive, seen, tokens, crashes>>

-----------------------------------------------------------------------------
(* recoverDeadExperienceLock.                                              *)

\* Recoveries that do not exclude each other.
MakeGuardAnyway(c) ==
  /\ Goes(c, "idle", "guarding")
  /\ guard' = TRUE
  /\ UNCHANGED <<locked, owner, alive, token, seen, tokens, crashes>>

\* mkdirSync of the guard; it exists already: EXPERIENCE_STORE_BUSY.
MakeGuard(c) ==
  /\ Goes(c, "idle", "guarding") /\ ~guard
  /\ guard' = TRUE
  /\ UNCHANGED <<locked, owner, alive, token, seen, tokens, crashes>>

\* The owner is read; none: EXPERIENCE_LOCK_OWNER_UNKNOWN.
ReadOwner(c) ==
  /\ Goes(c, "guarding", IF owner = None THEN "unguarding" ELSE "checking")
  /\ seen' = [seen EXCEPT ![c] = owner]
  /\ UNCHANGED <<locked, owner, guard, alive, token, tokens, crashes>>

\* A recovery that does not ask whether the owner runs.
SkipOwnerCheck(c) ==
  /\ Goes(c, "checking", "rereading")
  /\ UNCHANGED <<locked, owner, guard, alive, token, seen, tokens, crashes>>

\* process.kill(pid, 0); it runs: EXPERIENCE_LOCK_OWNER_ALIVE.
CheckOwner(c) ==
  /\ Goes(c, "checking", IF seen[c].pid \in alive THEN "unguarding" ELSE "rereading")
  /\ UNCHANGED <<locked, owner, guard, alive, token, seen, tokens, crashes>>

\* The owner is read again.
RereadOwner(c) ==
  /\ Goes(c, "rereading",
          IF owner # None /\ owner.token = seen[c].token THEN "renaming" ELSE "unguarding")
  /\ UNCHANGED <<locked, owner, guard, alive, token, seen, tokens, crashes>>

\* renameSync: the lock directory is kept under another name.
RenameLock(c) ==
  /\ Goes(c, "renaming", "unguarding")
  /\ locked' = FALSE /\ owner' = None
  /\ UNCHANGED <<guard, alive, token, seen, tokens, crashes>>

\* rmdirSync of the guard, in the finally.
RemoveGuard(c) ==
  /\ Goes(c, "unguarding", "idle")
  /\ guard' = FALSE
  /\ seen' = [seen EXCEPT ![c] = None]
  /\ UNCHANGED <<locked, owner, alive, token, tokens, crashes>>

-----------------------------------------------------------------------------
(* Processes.                                                              *)

Crash(p) ==
  /\ p \in alive /\ crashes < MaxCrashes
  /\ alive' = alive \ {p}
  /\ pc' = [c \in Caller |-> IF PidOf[c] = p THEN "idle" ELSE pc[c]]
  /\ token' = [c \in Caller |-> IF PidOf[c] = p THEN 0 ELSE token[c]]
  /\ seen' = [c \in Caller |-> IF PidOf[c] = p THEN None ELSE seen[c]]
  /\ crashes' = crashes + 1
  /\ UNCHANGED <<locked, owner, guard, tokens>>

\* A new process gets the pid.
Reuse(p) ==
  /\ p \notin alive
  /\ alive' = alive \cup {p}
  /\ UNCHANGED <<locked, owner, guard, pc, token, seen, tokens, crashes>>

-----------------------------------------------------------------------------
Hold(c) == \/ Acquire(c) \/ MakeLock(c) \/ NameOwner(c)
           \/ Release(c) \/ UnlinkOwner(c) \/ RemoveLock(c)

Restore(c) == \/ MakeGuard(c) \/ ReadOwner(c) \/ CheckOwner(c) \/ RereadOwner(c)
              \/ RenameLock(c) \/ RemoveGuard(c)

LockNext == \/ \E c \in Caller : Hold(c) \/ Restore(c)
        \/ \E p \in Pid : Crash(p) \/ Reuse(p)

LockSpec == LockInit /\ [][LockNext]_lockVars

-----------------------------------------------------------------------------
(* Properties.                                                             *)

\* The values each variable takes.
TypeOK ==
  /\ locked \in BOOLEAN /\ guard \in BOOLEAN
  /\ owner \in Owner \cup {None}
  /\ alive \subseteq Pid
  /\ pc \in [Caller -> Stage]
  /\ token \in [Caller -> Nat]
  /\ seen \in [Caller -> Owner \cup {None}]
  /\ tokens \in 0 .. MaxTokens /\ crashes \in 0 .. MaxCrashes

\* From the mkdir of the lock to its rmdir.
Inside(c) == pc[c] \in {"naming", "holding", "leaving", "emptied"}
Recovering(c) == pc[c] \in {"guarding", "checking", "rereading", "renaming", "unguarding"}

\* Two callers never work under the lock together, however acquisitions,
\* releases, recoveries and crashes interleave.
MutualExclusion == \A c, d \in Caller : Inside(c) /\ Inside(d) => c = d

\* A lock is always found by its holder as it left it: no release fails with
\* EXPERIENCE_LOCK_OWNER_CHANGED.
HolderKeepsLock ==
  \A c \in Caller :
    pc[c] \in {"holding", "leaving"} =>
      locked /\ owner = [pid |-> PidOf[c], token |-> token[c]]

\* The lock implements the abstract lease: recovery reclaims it from the dead
\* only, and a new holder comes after it was released or reclaimed.
Leased == INSTANCE Lease WITH inside <- {c \in Caller : Inside(c)}, free <- ~locked
ImplementsLease == Leased!LSpec
=============================================================================
