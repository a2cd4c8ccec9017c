------------------------------ MODULE TurnQueue ------------------------------
(***************************************************************************)
(* CaseTurnQueue (src/src/runtime/turn-queue.ts): the promise chain that   *)
(* serialises the turns of a case inside one DiagnosticRuntime.            *)
(*                                                                         *)
(* A turn t is one call of run(caseId, task).  The call reads the map      *)
(* entry of its case (the tail promise of the previous call, or nothing),  *)
(* chains its task behind it and installs its own tail, all in one         *)
(* synchronous step; everything later happens in microtasks whose order    *)
(* relative to other calls is left open here:                              *)
(*   - the task starts once the promise it was chained to has settled;     *)
(*   - it settles, fulfilled or rejected, and its tail is fulfilled either *)
(*     way;                                                                *)
(*   - the `finally` of the call deletes the map entry if it is still this *)
(*     call's own tail.                                                    *)
(*                                                                         *)
(* clock and stamp are history: the order in which run was called.         *)
(***************************************************************************)
EXTENDS Naturals

CONSTANTS
  Turn,     \* the calls of run
  Case,     \* the case sessions
  CaseOf,   \* the case each call is made for
  None      \* no map entry

ASSUME CaseAssumption == CaseOf \in [Turn -> Case]
ASSUME NoneAssumption == None \notin Turn

VARIABLES
  tail,     \* the map `queues`: the last call whose tail promise it holds
  prev,     \* the call whose tail promise a call was chained to
  state,    \* progress of each call
  failed,   \* calls whose task rejected
  clock, stamp

vars == <<tail, prev, state, failed, clock, stamp>>

TurnState == {"new", "waiting", "running", "settled", "cleaned"}

\* The tail promise of the call has been fulfilled.
Settled(t) == state[t] \in {"settled", "cleaned"}

Init ==
  /\ tail = [c \in Case |-> None]
  /\ prev = [t \in Turn |-> None]
  /\ state = [t \in Turn |-> "new"]
  /\ failed = {}
  /\ clock = 0
  /\ stamp = [t \in Turn |-> 0]

\* The synchronous part of run: previous, current and tail are created and
\* the map entry is replaced.
Run(t) ==
  /\ state[t] = "new"
  /\ prev' = [prev EXCEPT ![t] = tail[CaseOf[t]]]
  /\ tail' = [tail EXCEPT ![CaseOf[t]] = t]
  /\ state' = [state EXCEPT ![t] = "waiting"]
  /\ clock' = clock + 1
  /\ stamp' = [stamp EXCEPT ![t] = clock + 1]
  /\ UNCHANGED failed

\* A task that is started by the call itself.
StartAtOnce(t) ==
  /\ state[t] = "waiting"
  /\ state' = [state EXCEPT ![t] = "running"]
  /\ UNCHANGED <<tail, prev, failed, clock, stamp>>

\* Chaining with then(task) alone: a rejected predecessor skips the task.
StartAfterSuccessOnly(t) ==
  /\ state[t] = "waiting"
  /\ prev[t] # None => Settled(prev[t]) /\ prev[t] \notin failed
  /\ state' = [state EXCEPT ![t] = "running"]
  /\ UNCHANGED <<tail, prev, failed, clock, stamp>>

\* previous.then(task, task): the task starts when the promise it was chained
\* to settles, whatever its outcome.
Start(t) ==
  /\ state[t] = "waiting"
  /\ prev[t] # None => Settled(prev[t])
  /\ state' = [state EXCEPT ![t] = "running"]
  /\ UNCHANGED <<tail, prev, failed, clock, stamp>>

\* current settles; the tail swallows a rejection.
Settle(t) ==
  /\ state[t] = "running"
  /\ state' = [state EXCEPT ![t] = "settled"]
  /\ failed' \in {failed, failed \cup {t}}
  /\ UNCHANGED <<tail, prev, clock, stamp>>

\* A call that never deletes its map entry.
CleanupNever(t) ==
  /\ state[t] = "settled"
  /\ state' = [state EXCEPT ![t] = "cleaned"]
  /\ UNCHANGED <<tail, prev, failed, clock, stamp>>

\* The finally of run: delete the map entry if it is still this call's tail.
Cleanup(t) ==
  /\ state[t] = "settled"
  /\ state' = [state EXCEPT ![t] = "cleaned"]
  /\ tail' = IF tail[CaseOf[t]] = t
               THEN [tail EXCEPT ![CaseOf[t]] = None]
               ELSE tail
  /\ UNCHANGED <<prev, failed, clock, stamp>>

Next == \E t \in Turn : Run(t) \/ Start(t) \/ Settle(t) \/ Cleanup(t)

Spec == Init /\ [][Next]_vars

\* Microtasks always run, and every task settles: its awaits are model and
\* worker calls, which return, fail or are aborted.
FairSpec == Spec /\ \A t \in Turn : WF_vars(Start(t) \/ Settle(t) \/ Cleanup(t))

-----------------------------------------------------------------------------
\* The values each variable takes.
TypeOK ==
  /\ tail \in [Case -> Turn \cup {None}]
  /\ prev \in [Turn -> Turn \cup {None}]
  /\ state \in [Turn -> TurnState]
  /\ failed \subseteq Turn
  /\ clock \in Nat
  /\ stamp \in [Turn -> Nat]

SameCaseBefore(u, t) == /\ stamp[u] # 0
                        /\ CaseOf[u] = CaseOf[t]
                        /\ stamp[u] < stamp[t]

\* Two turns of one case are never in flight together: the pipeline works on
\* an in-memory copy of the case and would lose the other turn's changes.
OneTurnPerCase ==
  \A t, u \in Turn :
    t # u /\ CaseOf[t] = CaseOf[u] => ~(state[t] = "running" /\ state[u] = "running")

\* A turn starts only after every turn of its case submitted before it has
\* settled, so a conversation is answered in the order it was written.
InSubmissionOrder ==
  \A t, u \in Turn :
    SameCaseBefore(u, t) /\ state[t] \in {"running", "settled", "cleaned"} => Settled(u)

\* Once every call of a case has returned, the map holds nothing for the case:
\* an idle case costs no memory.
IdleCaseHasNoEntry ==
  \A c \in Case :
    (\A t \in Turn : CaseOf[t] = c => state[t] \in {"new", "cleaned"}) => tail[c] = None

\* The queue implements the abstract serial execution of turns, although each
\* call looks at one predecessor only.
Phase == [t \in Turn |-> IF Settled(t) THEN "over" ELSE state[t]]
Serial == INSTANCE SerialTurns WITH phase <- Phase
RunsSerially == Serial!ASpec

\* Every submitted turn runs to its end, also after turns that failed.
EveryTurnSettles == \A t \in Turn : state[t] = "waiting" ~> Settled(t)
=============================================================================
