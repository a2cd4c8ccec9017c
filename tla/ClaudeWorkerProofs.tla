-------------------------- MODULE ClaudeWorkerProofs --------------------------
(***************************************************************************)
(* Proofs about CaseTurnQueue, for any set of turns and cases, and about   *)
(* the calls of the Claude worker made in these turns, for any sessions    *)
(* and number of retries.                                                  *)
(*                                                                         *)
(* The queue.  A call of runExclusive knows one predecessor only.  That    *)
(* its task nevertheless waits for every earlier call of the case rests on *)
(* the shape of the chain: prev links the calls of a case in stamp order   *)
(* without a gap (Chained), the map entry is the last of them              *)
(* (TailIsLast), and a missing link or entry means that everything before  *)
(* it has settled.                                                         *)
(*                                                                         *)
(* The worker.  A call waits for the chain of promises it found when it    *)
(* was made.  That no other call of its session can be at work beside it   *)
(* rests on two facts: of two calls that have not returned one waits for   *)
(* the other (Linked), and the map entry of a session waits for all of     *)
(* them (EntryIsLast) so that the next call will, too.                     *)
(***************************************************************************)
EXTENDS ClaudeWorker, TLAPS
-----------------------------------------------------------------------------
(* The queue *)


\* Stamps number the calls made so far, each differently.
Stamped ==
  /\ \A t \in Turn : (state[t] = "new") <=> (stamp[t] = 0)
  /\ \A t \in Turn : stamp[t] <= clock
  /\ \A t, u \in Turn : stamp[t] # 0 /\ stamp[t] = stamp[u] => t = u

\* The predecessor of a call is the call of its case made just before it; a
\* call without one was made when all earlier ones had settled.
Chained ==
  \A t \in Turn :
    /\ prev[t] = None => \A u \in Turn : SameCaseBefore(u, t) => Settled(u)
    /\ prev[t] # None =>
         /\ SameCaseBefore(prev[t], t)
         /\ \A u \in Turn : SameCaseBefore(u, t) =>
                              u = prev[t] \/ SameCaseBefore(u, prev[t])

\* The map entry of a case is its last call, not yet cleaned up; without an
\* entry every call of the case has settled.
TailIsLast ==
  \A c \in Case :
    /\ tail[c] = None => \A u \in Turn : CaseOf[u] = c /\ stamp[u] # 0 => Settled(u)
    /\ tail[c] # None =>
         /\ CaseOf[tail[c]] = c
         /\ stamp[tail[c]] # 0
         /\ state[tail[c]] # "cleaned"
         /\ \A u \in Turn : CaseOf[u] = c /\ stamp[u] # 0 =>
                              u = tail[c] \/ stamp[u] < stamp[tail[c]]

QueueInv == TypeOK /\ Stamped /\ Chained /\ TailIsLast /\ InSubmissionOrder

-----------------------------------------------------------------------------
LEMMA TypeInit == Init => TypeOK
BY DEF Init, TypeOK, TurnState

LEMMA TypeStep == TypeOK /\ [Next]_vars => TypeOK'
<1> SUFFICES ASSUME TypeOK, [Next]_vars PROVE TypeOK'
    OBVIOUS
<1> USE CaseAssumption DEF TypeOK, TurnState
<1>1. ASSUME NEW t \in Turn, Run(t) PROVE TypeOK'
      BY <1>1 DEF Run
<1>2. ASSUME NEW t \in Turn, Start(t) PROVE TypeOK'
      BY <1>2 DEF Start
<1>3. ASSUME NEW t \in Turn, Settle(t) PROVE TypeOK'
      BY <1>3 DEF Settle
<1>4. ASSUME NEW t \in Turn, Cleanup(t) PROVE TypeOK'
      BY <1>4 DEF Cleanup
<1>5. CASE UNCHANGED vars
      BY <1>5 DEF vars
<1> QED BY <1>1, <1>2, <1>3, <1>4, <1>5 DEF Next

\* Every reachable state of the queue is well typed.
THEOREM QueueTypeCorrect == Spec => []TypeOK
BY TypeInit, TypeStep, PTL DEF Spec

-----------------------------------------------------------------------------
LEMMA QueueInvInit == Init => QueueInv
BY TypeInit DEF Init, QueueInv, Stamped, Chained, TailIsLast, InSubmissionOrder,
                SameCaseBefore, Settled

LEMMA QueueInvRun == ASSUME QueueInv, TypeOK', NEW t \in Turn, Run(t) PROVE QueueInv'
<1> USE CaseAssumption, NoneAssumption
    DEF QueueInv, TypeOK, TurnState, Run, SameCaseBefore, Settled
<1>1. stamp[t] = 0 /\ stamp'[t] = clock + 1 /\ CaseOf[t] \in Case
      BY DEF Stamped
<1>2. \A u \in Turn \ {t} : /\ stamp'[u] = stamp[u]
                            /\ state'[u] = state[u]
                            /\ prev'[u] = prev[u]
                            /\ stamp'[u] < stamp'[t]
      BY <1>1 DEF Stamped
<1>3. Stamped'
      BY <1>1, <1>2 DEF Stamped
<1>4. Chained'
  <2>1. ASSUME NEW u \in Turn \ {t} PROVE prev[u] # t
        BY <1>1 DEF Chained
  <2>2. \A u \in Turn \ {t} : \A v \in Turn :
           SameCaseBefore(v, u)' => v # t /\ SameCaseBefore(v, u)
        BY <1>1, <1>2
  <2>3. CASE tail[CaseOf[t]] = None
        BY <1>1, <1>2, <2>1, <2>2, <2>3 DEF Chained, TailIsLast
  <2>4. CASE tail[CaseOf[t]] # None
    <3>1. PICK p \in Turn \ {t} : /\ p = tail[CaseOf[t]]
                                   /\ CaseOf[p] = CaseOf[t]
                                   /\ stamp[p] # 0
          BY <1>1, <2>4 DEF TailIsLast
    <3>2. prev'[t] = p
          BY <3>1
    <3>3. SameCaseBefore(p, t)'
          BY <1>2, <3>1
    <3>4. \A v \in Turn : SameCaseBefore(v, t)' => v = p \/ SameCaseBefore(v, p)'
          BY <1>1, <1>2, <3>1, <2>4 DEF TailIsLast
    <3>5. ASSUME NEW u \in Turn \ {t}, prev'[u] # None
          PROVE /\ SameCaseBefore(prev[u], u)'
                /\ \A v \in Turn : SameCaseBefore(v, u)' =>
                      v = prev'[u] \/ SameCaseBefore(v, prev[u])'
      <4>1. PICK q \in Turn \ {t} : q = prev[u] /\ q = prev'[u] /\ SameCaseBefore(q, u)
            BY <1>2, <2>1, <3>5 DEF Chained
      <4>2. SameCaseBefore(prev[u], u)'
            BY <1>2, <4>1
      <4>3. \A v \in Turn : SameCaseBefore(v, u) => v = q \/ SameCaseBefore(v, q)
            BY <3>5, <4>1 DEF Chained
      <4> QED BY <1>1, <1>2, <2>2, <4>1, <4>2, <4>3
    <3>6. ASSUME NEW u \in Turn \ {t}, prev'[u] = None
          PROVE \A v \in Turn : SameCaseBefore(v, u)' => Settled(v)'
          BY <1>1, <1>2, <2>2, <3>6 DEF Chained
    <3> QED BY <1>2, <3>1, <3>2, <3>3, <3>4, <3>5, <3>6 DEF Chained
  <2> QED BY <2>3, <2>4
<1>5. TailIsLast'
      BY <1>1, <1>2 DEF TailIsLast
<1>6. InSubmissionOrder'
      BY <1>1, <1>2 DEF InSubmissionOrder
<1> QED BY <1>3, <1>4, <1>5, <1>6

LEMMA QueueInvStart == ASSUME QueueInv, TypeOK', NEW t \in Turn, Start(t) PROVE QueueInv'
<1> USE CaseAssumption, NoneAssumption
    DEF QueueInv, TypeOK, TurnState, Start, SameCaseBefore, Settled
<1>1. Stamped' /\ Chained' /\ TailIsLast'
      BY DEF Stamped, Chained, TailIsLast
<1>2. ASSUME NEW u \in Turn, SameCaseBefore(u, t) PROVE Settled(u)
  <2>1. CASE prev[t] = None
        BY <1>2, <2>1 DEF Chained
  <2>2. CASE prev[t] # None
    <3>1. prev[t] \in Turn /\ Settled(prev[t])
          BY <2>2
    <3>2. u = prev[t] \/ SameCaseBefore(u, prev[t])
          BY <1>2, <2>2 DEF Chained
    <3> QED BY <3>1, <3>2 DEF InSubmissionOrder
  <2> QED BY <2>1, <2>2
<1>3. InSubmissionOrder'
      BY <1>2 DEF InSubmissionOrder
<1> QED BY <1>1, <1>3

LEMMA QueueInvSettle == ASSUME QueueInv, TypeOK', NEW t \in Turn, Settle(t) PROVE QueueInv'
<1> USE CaseAssumption, NoneAssumption
    DEF QueueInv, TypeOK, TurnState, Settle, SameCaseBefore, Settled
<1>1. Stamped' /\ Chained' /\ TailIsLast'
      BY DEF Stamped, Chained, TailIsLast
<1>2. InSubmissionOrder'
      BY DEF InSubmissionOrder
<1> QED BY <1>1, <1>2

LEMMA QueueInvCleanup == ASSUME QueueInv, TypeOK', NEW t \in Turn, Cleanup(t) PROVE QueueInv'
<1> USE CaseAssumption, NoneAssumption
    DEF QueueInv, TypeOK, TurnState, Cleanup, SameCaseBefore, Settled
<1>1. Stamped' /\ Chained'
      BY DEF Stamped, Chained
<1>2. InSubmissionOrder'
      BY DEF InSubmissionOrder
<1>3. TailIsLast'
  <2>1. CASE tail[CaseOf[t]] = t
    <3>1. \A u \in Turn : CaseOf[u] = CaseOf[t] /\ stamp[u] # 0 => Settled(u)
          BY <2>1 DEF TailIsLast, InSubmissionOrder
    <3>2. \A c \in Case : tail[c] = t => c = CaseOf[t]
          BY DEF TailIsLast
    <3> QED BY <2>1, <3>1, <3>2 DEF TailIsLast
  <2>2. CASE tail[CaseOf[t]] # t
    <3>1. \A c \in Case : tail[c] # t
          BY <2>2 DEF TailIsLast
    <3> QED BY <2>2, <3>1 DEF TailIsLast
  <2> QED BY <2>1, <2>2
<1> QED BY <1>1, <1>2, <1>3

LEMMA QueueInvStep == QueueInv /\ [Next]_vars => QueueInv'
<1> SUFFICES ASSUME QueueInv, [Next]_vars PROVE QueueInv'
    OBVIOUS
<1>1. TypeOK'
      BY TypeStep DEF QueueInv
<1>2. CASE UNCHANGED vars
      BY <1>1, <1>2 DEF vars, QueueInv, Stamped, Chained, TailIsLast, InSubmissionOrder,
                        SameCaseBefore, Settled
<1> QED BY <1>1, <1>2, QueueInvRun, QueueInvStart, QueueInvSettle, QueueInvCleanup DEF Next

LEMMA Inductive == Spec => []QueueInv
BY QueueInvInit, QueueInvStep, PTL DEF Spec

-----------------------------------------------------------------------------
\* A turn of diagnostic-runtime starts only after every earlier turn of its
\* case has settled, however many are queued and whichever failed.
THEOREM SubmissionOrder == Spec => []InSubmissionOrder
<1>1. QueueInv => InSubmissionOrder
      BY DEF QueueInv
<1> QED BY <1>1, Inductive, PTL

\* Two turns of one case never run together.
THEOREM MutualExclusion == Spec => []OneTurnPerCase
<1>1. QueueInv => OneTurnPerCase
  <2> SUFFICES ASSUME QueueInv, NEW t \in Turn, NEW u \in Turn, t # u,
                      CaseOf[t] = CaseOf[u], state[t] = "running", state[u] = "running"
               PROVE FALSE
      BY DEF OneTurnPerCase
  <2>1. stamp[t] \in Nat /\ stamp[u] \in Nat /\ stamp[t] # stamp[u]
        /\ stamp[t] # 0 /\ stamp[u] # 0
        BY DEF QueueInv, TypeOK, Stamped
  <2>2. SameCaseBefore(t, u) \/ SameCaseBefore(u, t)
        BY <2>1 DEF SameCaseBefore
  <2> QED BY <2>2 DEF QueueInv, InSubmissionOrder, Settled
<1> QED BY <1>1, Inductive, PTL

\* The map of the queue holds no entry for a case whose calls have all
\* returned.
THEOREM IdleHasNoEntry == Spec => []IdleCaseHasNoEntry
<1>1. QueueInv => IdleCaseHasNoEntry
      BY DEF QueueInv, TypeOK, Stamped, TailIsLast, IdleCaseHasNoEntry
<1> QED BY <1>1, Inductive, PTL

\* The queue implements SerialTurns: the turns of a case execute serially in
\* the order of the calls.
THEOREM QueueRunsSerially == Spec => RunsSerially
<1> USE DEF Phase, Settled
<1>1. Init => Serial!AInit
      BY DEF Init, Serial!AInit
<1>2. QueueInv /\ [Next]_vars => [Serial!ANext]_Serial!avars
  <2> SUFFICES ASSUME QueueInv, [Next]_vars PROVE [Serial!ANext]_Serial!avars
      OBVIOUS
  <2> USE DEF QueueInv, TypeOK, TurnState
  <2>1. ASSUME NEW t \in Turn, Run(t) PROVE Serial!Submit(t)
        BY <2>1 DEF Run, Serial!Submit
  <2>2. ASSUME NEW t \in Turn, Start(t) PROVE Serial!Begin(t)
    <3>1. InSubmissionOrder'
          BY <2>2, QueueInvStart, TypeStep DEF Next
    <3>2. \A u \in Turn : SameCaseBefore(u, t) => Settled(u)
          BY <2>2, <3>1 DEF Start, InSubmissionOrder, SameCaseBefore
    <3>3. \A u \in Turn : Serial!Before(u, t) => Phase[u] = "over"
          BY <3>2 DEF SameCaseBefore, Serial!Before, Serial!Submitted
    <3> QED BY <2>2, <3>3 DEF Start, Serial!Begin
  <2>3. ASSUME NEW t \in Turn, Settle(t) PROVE Serial!Finish(t)
        BY <2>3 DEF Settle, Serial!Finish
  <2>4. ASSUME NEW t \in Turn, Cleanup(t) PROVE UNCHANGED Serial!avars
        BY <2>4 DEF Cleanup, Serial!avars
  <2>5. CASE UNCHANGED vars
        BY <2>5 DEF vars, Serial!avars
  <2> QED BY <2>1, <2>2, <2>3, <2>4, <2>5 DEF Next, Serial!ANext
<1> QED BY <1>1, <1>2, Inductive, PTL DEF Spec, RunsSerially, Serial!ASpec
-----------------------------------------------------------------------------
(* The calls of the worker *)

Calls == {"none", "waiting", "running", "sleeping", "answered", "forgotten"}
Processes == [leader : BOOLEAN, busy : BOOLEAN, group : BOOLEAN,
              ending : {"no", "asked_in_time", "killed"}]
Working(t) == call[t] \in {"waiting", "running", "sleeping"}
SameSession(t, u) == SessionFor(t) = SessionFor(u)

\* The values the variables of the calls take, as far as they matter.
CallsTyped ==
  /\ entry \in [Sessions -> Turn \cup {None}]
  /\ ahead \in [Turn -> SUBSET Turn]
  /\ call \in [Turn -> Calls]
  /\ process \in [Turn -> Processes]

\* A turn calls the worker once, when it runs.
CalledOnce == \A t \in Turn : call[t] # "none" => state[t] \notin {"new", "waiting"}

\* Only a call that runs has a process.
ProcessOfCall == \A t \in Turn : call[t] # "running" => process[t] = NoProcess

\* A call that came to its process has waited for all before it.
Waited == \A t \in Turn : call[t] \in {"running", "sleeping"} => SessionFree(t)

\* The entry of a session is a call that waits for all that work there.
EntryIsLast ==
  \A s \in Sessions :
    /\ entry[s] = None => \A t \in Turn : SessionFor(t) = s => ~Working(t)
    /\ entry[s] # None =>
         /\ SessionFor(entry[s]) = s
         /\ call[entry[s]] \notin {"none", "forgotten"}
         /\ \A t \in Turn : SessionFor(t) = s /\ Working(t) =>
                              t = entry[s] \/ t \in ahead[entry[s]]

\* Of two calls of a session that have not returned one waits for the other.
Linked ==
  \A t, u \in Turn :
    t # u /\ SameSession(t, u) /\ Working(t) /\ Working(u) => t \in ahead[u] \/ u \in ahead[t]

CallsInv == CallsTyped /\ CalledOnce /\ ProcessOfCall /\ Waited /\ EntryIsLast /\ Linked

-----------------------------------------------------------------------------
LEMMA NoProcessTyped == NoProcess \in Processes /\ [NoProcess EXCEPT !.group = FALSE] = NoProcess
<1>1. NoProcess \in Processes
      BY DEF NoProcess, Processes
<1>2. \A p \in Processes : p.group = FALSE => [p EXCEPT !.group = FALSE] = p
      BY DEF Processes
<1>3. NoProcess.group = FALSE
      BY DEF NoProcess
<1> QED BY <1>1, <1>2, <1>3

LEMMA SessionKnown == \A t \in Turn : SessionFor(t) \in Sessions
BY CaseAssumption DEF SessionFor, Sessions

LEMMA CallsInvInit == CallsInit => CallsInv
BY SessionKnown, NoProcessTyped DEF CallsInit, Init, WorkerInit, CallsInv, CallsTyped, CalledOnce, ProcessOfCall,
   Waited, EntryIsLast, Linked, Working, Calls

\* A call that moves on, or returns, while the maps stay as they are.
LEMMA CallMoves ==
  ASSUME CallsInv, NEW t \in Turn, NEW next \in {"running", "sleeping", "answered"},
         Working(t), next # "answered" => SessionFree(t),
         call' = [call EXCEPT ![t] = next], UNCHANGED <<entry, ahead>>
  PROVE  Waited' /\ EntryIsLast' /\ Linked'
<1> USE DEF CallsInv, CallsTyped, Calls
<1>1. \A u \in Turn : /\ Released(u) => Released(u)'
                      /\ Working(u)' => Working(u)
      BY DEF Released, Working
<1>2. \A u \in Turn : SessionFree(u) => SessionFree(u)'
      BY <1>1 DEF SessionFree
<1>3. Waited'
      BY <1>2 DEF Waited
<1>4. EntryIsLast'
  <2> SUFFICES ASSUME NEW s \in Sessions
               PROVE  /\ entry[s] = None => \A u \in Turn : SessionFor(u) = s => ~Working(u)'
                      /\ entry[s] # None =>
                           /\ SessionFor(entry[s]) = s
                           /\ call'[entry[s]] \notin {"none", "forgotten"}
                           /\ \A u \in Turn : SessionFor(u) = s /\ Working(u)' =>
                                                u = entry[s] \/ u \in ahead[entry[s]]
      BY DEF EntryIsLast, SessionFor
  <2>1. entry[s] \in Turn \cup {None}
      OBVIOUS
  <2> QED BY <1>1, <2>1 DEF EntryIsLast
<1>5. Linked'
      BY <1>1 DEF Linked, SameSession, SessionFor
<1> QED BY <1>3, <1>4, <1>5

LEMMA CallsInvStep == TypeOK /\ CallsInv /\ [CallsNext]_all => CallsInv'
<1> SUFFICES ASSUME TypeOK, CallsInv, [CallsNext]_all PROVE CallsInv'
    OBVIOUS
<1>0. state \in [Turn -> TurnState]
      BY DEF TypeOK
<1>1. ASSUME NEW t \in Turn, QueueStep(t) PROVE CallsInv'
  <2>1. CalledOnce'
      BY <1>0, <1>1 DEF QueueStep, worker, Run, Cleanup, CallsInv, CalledOnce
  <2> QED BY <1>1, <2>1 DEF QueueStep, worker, CallsInv, CallsTyped, ProcessOfCall, Waited, EntryIsLast,
             Linked, Working, SessionFree, Released, SameSession, SessionFor
<1>2. ASSUME NEW t \in Turn, Diagnose(t) PROVE CallsInv'
  <2>1. SessionFor(t) \in Sessions
      BY SessionKnown
  <2>2. call[t] = "none" /\ call' = [call EXCEPT ![t] = "waiting"] /\ process' = process
      BY <1>2 DEF Diagnose, Start, CallsInv, CalledOnce
  <2> DEFINE last == entry[SessionFor(t)]
  <2>3. /\ ahead' = [ahead EXCEPT ![t] = IF last = None THEN {} ELSE ahead[last] \cup {last}]
        /\ entry' = [entry EXCEPT ![SessionFor(t)] = t]
      BY <1>2 DEF Diagnose
  <2>4. last \in Turn \cup {None}
      BY <2>1 DEF CallsInv, CallsTyped
  <2> HIDE DEF last
  <2>5. CallsTyped'
      BY <2>1, <2>2, <2>3, <2>4 DEF CallsInv, CallsTyped, Calls
  <2>6. CalledOnce'
      BY <1>0, <1>2, <2>2 DEF Diagnose, Start, CallsInv, CalledOnce, CallsTyped
  <2>7. ProcessOfCall'
      BY <2>2 DEF CallsInv, ProcessOfCall, CallsTyped
  <2>8. \A u \in Turn : Released(u)' <=> Released(u)
      BY <2>2 DEF Released, CallsInv, CallsTyped
  <2>9. \A u \in Turn : u # t => ahead'[u] = ahead[u] /\ (Working(u)' <=> Working(u))
      BY <2>2, <2>3 DEF Working, CallsInv, CallsTyped
  <2>10. Waited'
      BY <2>2, <2>8, <2>9 DEF Waited, SessionFree, CallsInv, CallsTyped
  <2>11. \A u \in Turn : u # t /\ SameSession(u, t) /\ Working(u) => u \in ahead'[t]
    <3> SUFFICES ASSUME NEW u \in Turn, u # t, SameSession(u, t), Working(u) PROVE u \in ahead'[t]
        OBVIOUS
    <3>1. last # None /\ (u = last \/ u \in ahead[last])
        BY <2>1 DEF last, CallsInv, EntryIsLast, SameSession
    <3> QED BY <3>1, <2>3 DEF CallsInv, CallsTyped
  <2>12. Linked'
      BY <2>9, <2>11 DEF CallsInv, Linked, SameSession, SessionFor
  <2>13. EntryIsLast'
    <3> SUFFICES ASSUME NEW s \in Sessions
                 PROVE  /\ entry'[s] = None => \A u \in Turn : SessionFor(u) = s => ~Working(u)'
                        /\ entry'[s] # None =>
                             /\ SessionFor(entry'[s]) = s
                             /\ call'[entry'[s]] \notin {"none", "forgotten"}
                             /\ \A u \in Turn : SessionFor(u) = s /\ Working(u)' =>
                                                  u = entry'[s] \/ u \in ahead'[entry'[s]]
        BY DEF EntryIsLast, SessionFor
    <3>1. CASE s = SessionFor(t)
        BY <3>1, <2>1, <2>2, <2>3, <2>9, <2>11, NoneAssumption DEF SameSession, CallsInv, CallsTyped
    <3>2. CASE s # SessionFor(t)
      <4>1. entry'[s] = entry[s] /\ entry[s] \in Turn \cup {None}
          BY <3>2, <2>3 DEF CallsInv, CallsTyped
      <4>2. entry[s] # None => entry[s] # t
          BY <3>2 DEF CallsInv, EntryIsLast
      <4> QED BY <3>2, <4>1, <4>2, <2>2, <2>9 DEF CallsInv, EntryIsLast, CallsTyped
    <3> QED BY <3>1, <3>2
  <2> QED BY <2>5, <2>6, <2>7, <2>10, <2>12, <2>13 DEF CallsInv
<1>3. ASSUME NEW t \in Turn, Answer(t), Working(t), UNCHANGED <<entry, ahead>>,
             process' = [process EXCEPT ![t] = NoProcess] PROVE CallsInv'
  <2>1. call' = [call EXCEPT ![t] = "answered"]
      BY <1>3 DEF Answer
  <2>2. Waited' /\ EntryIsLast' /\ Linked'
      BY <1>3, <2>1, CallMoves
  <2>3. CalledOnce'
      BY <1>0, <1>3, <2>1 DEF Answer, Settle, Working, CallsInv, CalledOnce, CallsTyped
  <2>4. CallsTyped' /\ ProcessOfCall'
      BY <1>3, <2>1, NoProcessTyped DEF CallsInv, CallsTyped, Calls, ProcessOfCall
  <2> QED BY <2>2, <2>3, <2>4 DEF CallsInv
<1>4. ASSUME NEW t \in Turn, NEW next \in {"running", "sleeping"}, Working(t), SessionFree(t),
             call' = [call EXCEPT ![t] = next], UNCHANGED <<vars, entry, ahead>>,
             NEW after \in Processes, process' = [process EXCEPT ![t] = after],
             next = "sleeping" => after = NoProcess
      PROVE CallsInv'
  <2>1. Waited' /\ EntryIsLast' /\ Linked'
      BY <1>4, CallMoves
  <2>2. CallsTyped' /\ ProcessOfCall'
      BY <1>4 DEF CallsInv, CallsTyped, Calls, ProcessOfCall
  <2>3. CalledOnce'
      BY <1>4 DEF vars, Working, CallsInv, CalledOnce, CallsTyped
  <2> QED BY <2>1, <2>2, <2>3 DEF CallsInv
<1>5. ASSUME NEW t \in Turn, call[t] # "running", Working(t), Answer(t), UNCHANGED <<entry, ahead, process>>
      PROVE CallsInv'
  <2>1. process' = [process EXCEPT ![t] = NoProcess]
      BY <1>5 DEF CallsInv, CallsTyped, ProcessOfCall
  <2> QED BY <1>3, <1>5, <2>1
<1>6. ASSUME NEW t \in Turn, Working(t), call[t] # "running", SessionFree(t), Spawn(t), UNCHANGED <<entry, ahead>>
      PROVE CallsInv'
  <2>1. CASE Answer(t) /\ UNCHANGED process
      BY <1>5, <1>6, <2>1
  <2>2. CASE ~(Answer(t) /\ UNCHANGED process)
    <3> DEFINE spawned == [NoProcess EXCEPT !.leader = TRUE, !.group = ~InUse(t), !.busy = InUse(t)]
    <3>1. spawned \in Processes
      <4>1. InUse(t) \in BOOLEAN /\ (~InUse(t)) \in BOOLEAN
          BY DEF InUse
      <4> QED BY <4>1, NoProcessTyped DEF Processes
    <3>2. /\ process' = [process EXCEPT ![t] = spawned]
          /\ call' = [call EXCEPT ![t] = "running"] /\ UNCHANGED vars
        BY <1>6, <2>2 DEF Spawn
    <3> HIDE DEF spawned
    <3> QED BY <1>4, <1>6, <3>1, <3>2
  <2> QED BY <2>1, <2>2
<1>7. ASSUME NEW t \in Turn, TurnAway(t) \/ Refuse(t) PROVE CallsInv'
      BY <1>5, <1>7 DEF TurnAway, Refuse, Working
<1>8. ASSUME NEW t \in Turn, Begin(t) PROVE CallsInv'
      BY <1>6, <1>8 DEF Begin, Working
<1>9. ASSUME NEW t \in Turn, Wake(t) PROVE CallsInv'
  <2>1. Working(t) /\ SessionFree(t)
      BY <1>9 DEF Wake, Working, CallsInv, Waited
  <2> QED BY <1>5, <1>6, <1>9, <2>1 DEF Wake
<1>10. ASSUME NEW t \in Turn, Close(t) PROVE CallsInv'
  <2>1. Working(t) /\ SessionFree(t)
      BY <1>10 DEF Close, Working, CallsInv, Waited
  <2>2. process' = [process EXCEPT ![t] = NoProcess]
      BY <1>10, NoProcessTyped DEF Close, GroupAfter
  <2>3. UNCHANGED <<entry, ahead>>
      BY <1>10 DEF Close
  <2>4. CASE Answer(t)
      BY <1>3, <2>1, <2>2, <2>3, <2>4
  <2>5. CASE ~Answer(t)
    <3>1. call' = [call EXCEPT ![t] = "sleeping"] /\ UNCHANGED vars
        BY <1>10, <2>5 DEF Close
    <3> QED BY <1>4, <2>1, <2>2, <2>3, <3>1, NoProcessTyped
  <2> QED BY <2>4, <2>5
<1>11. ASSUME NEW t \in Turn, Stop(t) \/ TimeOut(t) \/ KillTimer(t) PROVE CallsInv'
  <2>1. UNCHANGED <<vars, entry, ahead, call>>
      BY <1>11 DEF Stop, TimeOut, KillTimer
  <2>2. \/ process' = process
        \/ /\ call[t] = "running"
           /\ \E ending \in {"asked_in_time", "killed"} : process' = [process EXCEPT ![t].ending = ending]
      BY <1>11 DEF Stop, TimeOut, KillTimer, Terminated
  <2>3. process' \in [Turn -> Processes] /\ \A u \in Turn : call[u] # "running" => process'[u] = process[u]
      BY <2>2 DEF CallsInv, CallsTyped, Processes
  <2> QED BY <2>1, <2>3 DEF vars, CallsInv, CallsTyped, CalledOnce, ProcessOfCall, Waited, EntryIsLast,
             Linked, Working, SessionFree, Released, SameSession, SessionFor
<1>12. ASSUME NEW t \in Turn, Forget(t) PROVE CallsInv'
  <2>1. /\ call[t] = "answered" /\ SessionFree(t) /\ call' = [call EXCEPT ![t] = "forgotten"]
        /\ UNCHANGED <<vars, ahead, process>>
        /\ entry' = IF entry[SessionFor(t)] = t THEN [entry EXCEPT ![SessionFor(t)] = None] ELSE entry
      BY <1>12 DEF Forget
  <2>2. SessionFor(t) \in Sessions
      BY SessionKnown
  <2>3. \A u \in Turn : (Released(u)' <=> Released(u)) /\ (Working(u)' <=> Working(u))
      BY <2>1 DEF CallsInv, CallsTyped, Released, Working
  <2>4. CallsTyped' /\ ProcessOfCall'
      BY <2>1, <2>2 DEF CallsInv, CallsTyped, Calls, ProcessOfCall
  <2>5. CalledOnce'
      BY <2>1 DEF vars, CallsInv, CallsTyped, CalledOnce
  <2>6. Waited' /\ Linked'
      BY <2>1, <2>3 DEF CallsInv, CallsTyped, Waited, Linked, SessionFree, SameSession, SessionFor
  <2>7. EntryIsLast'
    <3> SUFFICES ASSUME NEW s \in Sessions
                 PROVE  /\ entry'[s] = None => \A u \in Turn : SessionFor(u) = s => ~Working(u)'
                        /\ entry'[s] # None =>
                             /\ SessionFor(entry'[s]) = s
                             /\ call'[entry'[s]] \notin {"none", "forgotten"}
                             /\ \A u \in Turn : SessionFor(u) = s /\ Working(u)' =>
                                                  u = entry'[s] \/ u \in ahead'[entry'[s]]
        BY DEF EntryIsLast, SessionFor
    <3>1. CASE entry[s] = t
      <4>1. s = SessionFor(t) /\ entry'[s] = None
          BY <3>1, <2>1, <2>2, NoneAssumption DEF CallsInv, CallsTyped, EntryIsLast
      <4>2. \A u \in Turn : SessionFor(u) = s /\ Working(u) => u \in ahead[t] /\ ~Released(u)
          BY <3>1, <4>1, <2>1, NoneAssumption DEF CallsInv, EntryIsLast, Working, Released
      <4> QED BY <4>1, <4>2, <2>1, <2>3 DEF SessionFree
    <3>2. CASE entry[s] # t
      <4>1. entry'[s] = entry[s] /\ entry[s] \in Turn \cup {None}
          BY <3>2, <2>1 DEF CallsInv, CallsTyped
      <4> QED BY <3>2, <4>1, <2>1, <2>3 DEF CallsInv, EntryIsLast, CallsTyped
    <3> QED BY <3>1, <3>2
  <2> QED BY <2>4, <2>5, <2>6, <2>7 DEF CallsInv
<1>13. ASSUME NEW s \in Sessions, StrayEnds(s) PROVE CallsInv'
      BY <1>13 DEF StrayEnds, vars, CallsInv, CallsTyped, CalledOnce, ProcessOfCall, Waited, EntryIsLast,
         Linked, Working, SessionFree, Released, SameSession, SessionFor
<1>14. CASE UNCHANGED all
      BY <1>14 DEF all, worker, vars, CallsInv, CallsTyped, CalledOnce, ProcessOfCall, Waited, EntryIsLast,
         Linked, Working, SessionFree, Released, SameSession, SessionFor
<1> QED BY <1>1, <1>2, <1>7, <1>8, <1>9, <1>10, <1>11, <1>12, <1>13, <1>14 DEF CallsNext

\* Whatever the calls do, the turns of a case go through their queue as
\* CaseTurnQueue has them go: a call begins with its turn and ends with it.
LEMMA CallsFollowQueue == [CallsNext]_all => [Next]_vars
<1> SUFFICES ASSUME CallsNext PROVE [Next]_vars
    BY DEF all
<1>1. ASSUME NEW t \in Turn, QueueStep(t) \/ Diagnose(t) PROVE Next
      BY <1>1 DEF QueueStep, Diagnose, Next
<1>2. ASSUME NEW t \in Turn, Answer(t) PROVE Next
      BY <1>2 DEF Answer, Next
<1>3. ASSUME NEW t \in Turn, TurnAway(t) \/ Refuse(t) \/ Begin(t) \/ Wake(t) \/ Close(t) PROVE [Next]_vars
      BY <1>2, <1>3 DEF TurnAway, Refuse, Begin, Wake, Close, Spawn
<1>4. ASSUME NEW t \in Turn, Forget(t) \/ Stop(t) \/ TimeOut(t) \/ KillTimer(t) PROVE UNCHANGED vars
      BY <1>4 DEF Forget, Stop, TimeOut, KillTimer
<1>5. ASSUME NEW s \in Sessions, StrayEnds(s) PROVE UNCHANGED vars
      BY <1>5 DEF StrayEnds
<1> QED BY <1>1, <1>3, <1>4, <1>5 DEF CallsNext

LEMMA CallsImplementQueue == CallsSpec => Spec
BY CallsFollowQueue, PTL DEF CallsSpec, CallsInit, Spec

LEMMA CallsInvHolds == CallsSpec => []CallsInv
BY CallsInvInit, CallsInvStep, CallsImplementQueue, QueueTypeCorrect, PTL DEF CallsSpec

-----------------------------------------------------------------------------
\* The turns whose work is a call of the Claude worker run one by one per case,
\* in the order in which they were submitted.
THEOREM TurnsRunSerially == CallsSpec => RunsSerially
BY CallsImplementQueue, QueueRunsSerially

\* Two calls of one Claude session never have their processes at work together.
THEOREM SessionExclusion == CallsSpec => []OneProcessPerSession
<1>1. CallsInv => OneProcessPerSession
  <2> SUFFICES ASSUME CallsInv, NEW t \in Turn, NEW u \in Turn, t # u, SameSession(t, u),
                      process[t].leader, process[u].leader
               PROVE FALSE
      BY DEF OneProcessPerSession, SameSession
  <2>1. call[t] = "running" /\ call[u] = "running"
      BY DEF CallsInv, ProcessOfCall, NoProcess
  <2>2. SessionFree(t) /\ SessionFree(u) /\ (t \in ahead[u] \/ u \in ahead[t])
      BY <2>1 DEF CallsInv, Waited, Linked, Working
  <2> QED BY <2>1, <2>2 DEF SessionFree, Released
<1> QED BY <1>1, CallsInvHolds, PTL

\* A call that has returned leaves no process, and a case or session whose
\* calls have all returned no entry in either map.
THEOREM NothingIsLeft == CallsSpec => []EndedCallLeavesNothing
<1>1. CallsInv /\ IdleCaseHasNoEntry => EndedCallLeavesNothing
  <2> SUFFICES ASSUME CallsInv, IdleCaseHasNoEntry PROVE EndedCallLeavesNothing
      OBVIOUS
  <2>1. \A t \in Turn : Released(t) => process[t] = NoProcess
      BY DEF CallsInv, ProcessOfCall, Released
  <2>2. ASSUME NEW s \in Sessions,
               \A t \in Turn : SessionFor(t) = s => call[t] \in {"none", "forgotten"}
        PROVE entry[s] = None
      BY <2>2 DEF CallsInv, CallsTyped, EntryIsLast
  <2> QED BY <2>1, <2>2 DEF EndedCallLeavesNothing
<1> QED BY <1>1, CallsImplementQueue, CallsInvHolds, IdleHasNoEntry, PTL
=============================================================================
