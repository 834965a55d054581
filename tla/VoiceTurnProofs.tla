--------------------------- MODULE VoiceTurnProofs ---------------------------
(***************************************************************************)
(* Proofs about VoiceTurn, for every number of turns, pieces and refused   *)
(* publishes, and about VoiceLoop, which MCVoice has as V, for every set   *)
(* of calls and every number of utterances. TLC checks the same formulas   *)
(* on small instances.                                                     *)
(***************************************************************************)
EXTENDS MCVoice, TLAPS

USE BoundsAssumption

(* The small operators that actions share are expanded everywhere.         *)
USE DEF CreateTurn, Confirm, Played, Communicated, ClaimCompletion,
        CommitHistory

-----------------------------------------------------------------------------
(* Types                                                                   *)

(* A turn task runs only for a turn that was begun. *)
TaskHasTurn == pc # "idle" => cur \in Turns

TypeInv == TypeOK /\ TaskHasTurn

(* The two variables that most actions change only through a helper. *)
LEMMA RequeueType ==
  ASSUME TypeOK, NEW p \in Publishers, NEW b, Requeue(p, b)
  PROVE  ahead' \in [Publishers -> SUBSET Publishers]
BY DEF TypeOK, Requeue, Publishing

LEMMA RecordType ==
  ASSUME TypeOK, NEW t \in Turns,
         NEW e \in {"Started", "Interrupted", "Completed", "Failed"}, Record(t, e)
  PROVE  log' \in [Turns -> Seq({"Started", "Interrupted", "Completed", "Failed"})]
BY DEF TypeOK, Record

LEMMA TurnStepType ==
  ASSUME TypeInv, TurnStep, UNCHANGED <<ipc, stopper>>,
         Requeue(0, pc' \in TurnPublishes)
  PROVE  TypeInv'
<1>1. ahead' \in [Publishers -> SUBSET Publishers]
  <2>1. 0 \in Publishers
    BY DEF Publishers
  <2>. QED  BY <2>1, RequeueType DEF TypeInv
<1>2. \A t \in Turns, e \in {"Started", "Interrupted", "Completed", "Failed"} :
        Record(t, e) => log' \in [Turns -> Seq({"Started", "Interrupted", "Completed", "Failed"})]
  BY RecordType DEF TypeInv
<1>. USE DEF TypeInv, TypeOK, TaskHasTurn, TurnPc, TurnPublishes, StagePublishes, TurnState,
             ActiveStates, Pieces, Items, Goto, At, Calm, SetState, idleTask, notes, audio, record, stopper
<1>3. CASE StartPublished
  BY <1>1, <1>2, <1>3 DEF StartPublished, Committed, Commit, TryMove
<1>4. CASE StartRefused
  BY <1>1, <1>2, <1>4 DEF StartRefused, Refused
<1>5. CASE StageRefused
  <2>1. state' \in [Turns -> TurnState \cup {"none"}] /\ pc' \in TurnPc
    BY <1>5 DEF StageRefused, FailTurn
  <2>. QED  BY <1>1, <1>5, <2>1 DEF StageRefused, Refused
<1>6. CASE StageCancelled
  BY <1>1, <1>2, <1>6 DEF StageCancelled, Committed, Commit, Dropped
<1>7. CASE Transcribed
  BY <1>1, <1>2, <1>7 DEF Transcribed
<1>8. CASE TranscriptPublished
  BY <1>1, <1>2, <1>8 DEF TranscriptPublished, Committed, Commit, TryMove
<1>9. CASE Generated
  BY <1>1, <1>2, <1>9 DEF Generated, TryMove
<1>10. CASE NextPhrase
  BY <1>1, <1>2, <1>10 DEF NextPhrase
<1>11. CASE StreamEnds
  BY <1>1, <1>2, <1>11 DEF StreamEnds
<1>12. CASE NextChunk
  BY <1>1, <1>2, <1>12 DEF NextChunk
<1>13. CASE PhraseEnds
  BY <1>1, <1>2, <1>13 DEF PhraseEnds
<1>14. CASE ChunkPublished
  BY <1>1, <1>2, <1>14 DEF ChunkPublished, Committed, Commit, TryMove
<1>15. CASE StartPlay
  BY <1>1, <1>2, <1>15 DEF StartPlay
<1>16. CASE StreamStarted
  BY <1>1, <1>2, <1>16 DEF StreamStarted, FailTurn
<1>17. CASE Written
  BY <1>1, <1>2, <1>17 DEF Written
<1>18. CASE WriteAborted
  BY <1>1, <1>2, <1>18 DEF WriteAborted
<1>19. CASE PlaybackPublished
  BY <1>1, <1>2, <1>19 DEF PlaybackPublished, Committed, Commit
<1>20. CASE OutputFinished
  BY <1>1, <1>2, <1>20 DEF OutputFinished
<1>21. CASE StageFails
  <2>1. \/ heard' = heard
        \/ heard' = [heard EXCEPT ![cur] = @ \cup {items}]
    BY <1>21 DEF StageFails, WriteGivenUp
  <2>2. heard' \in [Turns -> SUBSET Pieces]
    BY <2>1
  <2>3. state' \in [Turns -> TurnState \cup {"none"}] /\ pc' \in TurnPc
    BY <1>21 DEF StageFails, FailTurn
  <2>. QED  BY <1>1, <1>21, <2>2, <2>3 DEF StageFails, WriteGivenUp
<1>22. CASE ResponsePublished
  <2>1. log' = log
    BY <1>22 DEF ResponsePublished, Committed, Commit
  <2>2. state' \in [Turns -> TurnState \cup {"none"}] /\ pc' \in TurnPc
    BY <1>22 DEF ResponsePublished, FailTurn
  <2>3. confirmed[cur] \in SUBSET Pieces /\ {0} \in SUBSET Pieces
    BY <1>22 DEF ResponsePublished
  <2>4. said' \in [Turns -> SUBSET Pieces]
    BY <1>22, <2>3 DEF ResponsePublished
  <2>. QED  BY <1>1, <1>22, <2>1, <2>2, <2>4 DEF ResponsePublished
<1>23. CASE CompletionPublished
  BY <1>1, <1>2, <1>23 DEF CompletionPublished, Dropped
<1>24. CASE CompletionRefused
  BY <1>1, <1>2, <1>24 DEF CompletionRefused, Refused
<1>25. CASE HistoryCommitted
  BY <1>1, <1>2, <1>25 DEF HistoryCommitted
<1>26. CASE FailurePublished
  <2>1. log' \in [Turns -> Seq({"Started", "Interrupted", "Completed", "Failed"})]
    BY <1>2, <1>26 DEF FailurePublished
  <2>2. lost' = lost \/ lost' = [lost EXCEPT ![cur] = TRUE]
    BY <1>26 DEF FailurePublished
  <2>3. faults' = faults \/ (faults < MaxFaults /\ faults' = faults + 1)
    BY <1>26 DEF FailurePublished, Refused
  <2>4. lost' \in [Turns -> BOOLEAN]
    BY <2>2
  <2>5. faults' \in 0..MaxFaults
    BY <2>3
  <2>. QED  BY <1>1, <1>26, <2>1, <2>4, <2>5 DEF FailurePublished
<1>27. CASE CancelDelivered
  <2>1. \/ heard' = heard
        \/ heard' = [heard EXCEPT ![cur] = @ \cup {items}]
    BY <1>27 DEF CancelDelivered, WriteGivenUp
  <2>2. heard' \in [Turns -> SUBSET Pieces]
    BY <2>1
  <2>. QED  BY <1>1, <1>27, <2>2 DEF CancelDelivered, WriteGivenUp
<1>28. CASE CancelStartedTurn
  <2>1. state' \in [Turns -> TurnState \cup {"none"}]
    BY <1>28 DEF CancelStartedTurn
  <2>2. pc' \in {"pubFailed", "idle"}
    BY <1>28 DEF CancelStartedTurn
  <2>. QED  BY <1>1, <1>28, <2>1, <2>2 DEF CancelStartedTurn
<1>. QED
  BY <1>3, <1>4, <1>5, <1>6, <1>7, <1>8, <1>9, <1>10, <1>11, <1>12, <1>13, <1>14, <1>15, <1>16, <1>17, <1>18, <1>19, <1>20, <1>21, <1>22, <1>23, <1>24, <1>25, <1>26, <1>27, <1>28 DEF TurnStep

LEMMA InterruptTaskType ==
  ASSUME TypeInv, NEW t \in Turns, InterruptTask(t)
  PROVE  TypeInv'
<1>1. ahead' \in [Publishers -> SUBSET Publishers]
  <2>1. t \in Publishers
    BY DEF Publishers, Turns
  <2>. QED  BY <2>1, RequeueType DEF TypeInv, InterruptTask
<1>2. \A e \in {"Started", "Interrupted", "Completed", "Failed"} :
        Record(t, e) => log' \in [Turns -> Seq({"Started", "Interrupted", "Completed", "Failed"})]
  BY RecordType DEF TypeInv
<1>. USE DEF TypeInv, TypeOK, TaskHasTurn, InterruptPc, InterruptPublishes, TurnState,
             SetState, SetIpc, notes, audio, record, stopper, InterruptTask
<1>3. CASE StopAudio(t)
  BY <1>1, <1>3 DEF StopAudio
<1>4. CASE ProvidersStopped(t)
  BY <1>1, <1>4 DEF ProvidersStopped
<1>5. ASSUME FailInterrupted(t)
      PROVE  /\ state' \in [Turns -> TurnState \cup {"none"}]
             /\ ipc' \in [Turns -> InterruptPc]
  BY <1>5 DEF FailInterrupted
<1>6. ASSUME Refused(t)
      PROVE  faults' \in 0..MaxFaults
  BY <1>6 DEF Refused
<1>7. CASE InterruptionPublished(t)
  <2>1. log' \in [Turns -> Seq({"Started", "Interrupted", "Completed", "Failed"})]
    BY <1>2, <1>7 DEF InterruptionPublished
  <2>2. state' \in [Turns -> TurnState \cup {"none"}] /\ ipc' \in [Turns -> InterruptPc]
    BY <1>5, <1>7 DEF InterruptionPublished
  <2>3. faults' \in 0..MaxFaults
    BY <1>6, <1>7 DEF InterruptionPublished
  <2>. QED  BY <1>1, <1>7, <2>1, <2>2, <2>3 DEF InterruptionPublished
<1>8. CASE Yielded(t)
  <2>1. state' \in [Turns -> TurnState \cup {"none"}] /\ ipc' \in [Turns -> InterruptPc]
    BY <1>5, <1>8 DEF Yielded
  <2>2. said' \in [Turns -> SUBSET Pieces]
    BY <1>8 DEF Yielded
  <2>. QED  BY <1>1, <1>8, <2>1, <2>2 DEF Yielded
<1>9. CASE InterruptedCompletion(t)
  <2>1. log' \in [Turns -> Seq({"Started", "Interrupted", "Completed", "Failed"})]
    BY <1>2, <1>9 DEF InterruptedCompletion
  <2>2. state' \in [Turns -> TurnState \cup {"none"}] /\ ipc' \in [Turns -> InterruptPc]
    BY <1>5, <1>9 DEF InterruptedCompletion
  <2>3. faults' \in 0..MaxFaults
    BY <1>6, <1>9 DEF InterruptedCompletion
  <2>4. history' \in [Turns -> SUBSET Pieces]
    BY <1>9 DEF InterruptedCompletion
  <2>. QED  BY <1>1, <1>9, <2>1, <2>2, <2>3, <2>4 DEF InterruptedCompletion
<1>10. CASE InterruptedFailure(t)
  <2>1. log' \in [Turns -> Seq({"Started", "Interrupted", "Completed", "Failed"})]
    BY <1>2, <1>10 DEF InterruptedFailure
  <2>2. lost' = lost \/ lost' = [lost EXCEPT ![t] = TRUE]
    BY <1>10 DEF InterruptedFailure
  <2>3. lost' \in [Turns -> BOOLEAN]
    BY <2>2
  <2>4. faults' \in 0..MaxFaults
    BY <1>6, <1>10 DEF InterruptedFailure
  <2>. QED  BY <1>1, <1>10, <2>1, <2>3, <2>4 DEF InterruptedFailure
<1>. QED
  BY <1>3, <1>4, <1>7, <1>8, <1>9, <1>10

LEMMA InitType == Init => TypeInv
<1>. SUFFICES ASSUME Init PROVE TypeInv
  OBVIOUS
<1>1. /\ cur \in 0..MaxTurns /\ items \in 0..MaxItems
      /\ victim \in 0..MaxTurns /\ faults \in 0..MaxFaults
  BY DEF Init
<1>2. log \in [Turns -> Seq({"Started", "Interrupted", "Completed", "Failed"})]
  BY DEF Init
<1>3. /\ state \in [Turns -> TurnState \cup {"none"}]
      /\ ipc \in [Turns -> InterruptPc]
      /\ lost \in [Turns -> BOOLEAN]
  BY DEF Init, InterruptPc
<1>4. ahead \in [Publishers -> SUBSET Publishers]
  BY DEF Init
<1>5. /\ heard \in [Turns -> SUBSET Pieces] /\ confirmed \in [Turns -> SUBSET Pieces]
      /\ said \in [Turns -> SUBSET Pieces] /\ history \in [Turns -> SUBSET Pieces]
  BY DEF Init
<1>6. /\ pc \in TurnPc /\ mode \in {"voice", "text"} /\ cancels \in 0..2
      /\ stream \in {"open", "closed"} /\ spc \in {"idle", "interrupting", "waiting", "done"}
  BY DEF Init, TurnPc
<1>7. aborted \in BOOLEAN /\ closed \in BOOLEAN
  BY DEF Init
<1>8. TaskHasTurn
  BY DEF Init, TaskHasTurn
<1>. QED
  BY <1>1, <1>2, <1>3, <1>4, <1>5, <1>6, <1>7, <1>8 DEF TypeInv, TypeOK

LEMMA NextType ==
  ASSUME TypeInv, [Next]_vars
  PROVE  TypeInv'
<1>1. CASE TurnStep /\ Requeue(0, pc' \in TurnPublishes) /\ UNCHANGED <<ipc, stopper>>
  BY <1>1, TurnStepType
<1>2. ASSUME NEW m \in {"voice", "text"}, Admit(m), Requeue(0, pc' \in TurnPublishes),
             UNCHANGED <<ipc, stopper>>
      PROVE  TypeInv'
  <2>1. ahead' \in [Publishers -> SUBSET Publishers]
    <3>1. 0 \in Publishers
      BY DEF Publishers
    <3>. QED  BY <1>2, <3>1, RequeueType DEF TypeInv
  <2>2. cur' \in Turns
    BY <1>2 DEF Admit, TypeInv, TypeOK, Turns
  <2>. QED  BY <1>2, <2>1, <2>2 DEF Admit, TypeInv, TypeOK, TaskHasTurn, TurnPc, TurnPublishes,
              StagePublishes, TurnState, ActiveStates, Goto, notes, audio, record, stopper, Turns
<1>3. ASSUME NEW t \in Turns, InterruptTask(t)
      PROVE  TypeInv'
  BY <1>3, InterruptTaskType
<1>. USE DEF TypeInv, TypeOK, TaskHasTurn, InterruptPc, TurnState, SetState, SetIpc, Accept,
             AddCancel, notes, audio, record, stopper
<1>4. CASE Interrupt
  BY <1>4 DEF Interrupt
<1>5. CASE Cancel
  BY <1>5 DEF Cancel
<1>6. CASE OwnerCancel
  BY <1>6 DEF OwnerCancel
<1>7. ASSUME NEW shutdown \in BOOLEAN, Stop(shutdown)
      PROVE  TypeInv'
  <2>1. state' \in [Turns -> TurnState \cup {"none"}] /\ ipc' \in [Turns -> InterruptPc]
    BY <1>7 DEF Stop
  <2>2. cancels' \in 0..2
    BY <1>7 DEF Stop
  <2>. QED  BY <1>7, <2>1, <2>2 DEF Stop
<1>8. CASE StopInterrupted
  BY <1>8 DEF StopInterrupted
<1>9. CASE StopWaited
  BY <1>9 DEF StopWaited
<1>10. CASE UNCHANGED vars
  BY <1>10 DEF vars
<1>. QED
  BY <1>1, <1>2, <1>3, <1>4, <1>5, <1>6, <1>7, <1>8, <1>9, <1>10 DEF Next, TurnTask

(* Type correctness of the pipeline: no counter leaves its range, no task  *)
(* is left at an await that is not its own, whatever the interleaving.     *)
THEOREM TypeCorrect == Spec => []TypeOK
<1>1. Init => TypeInv
  BY InitType
<1>2. TypeInv /\ [Next]_vars => TypeInv'
  BY NextType
<1>3. TypeInv => TypeOK
  BY DEF TypeInv
<1>. QED  BY <1>1, <1>2, <1>3, PTL DEF Spec

-----------------------------------------------------------------------------
(* The lifecycle log                                                       *)

LEMMA NothingOccurs ==
  ASSUME TypeOK, NEW t \in Turns, log[t] = <<>>, NEW e
  PROVE  ~Has(t, e)
BY DEF Has, Lifecycle!Occurs

LEMMA SameLog ==
  ASSUME log' = log, NEW t \in Turns, NEW e
  PROVE  Has(t, e)' <=> Has(t, e)
BY DEF Has, Lifecycle!Occurs

(* A recorded event is added to what occurs in its turn, and to no other.  *)
LEMMA RecordedOccurs ==
  ASSUME TypeOK, NEW t \in Turns,
         NEW e \in {"Started", "Interrupted", "Completed", "Failed"}, Record(t, e),
         NEW u \in Turns, NEW f
  PROVE  /\ Has(u, f)' <=> Has(u, f) \/ (u = t /\ f = e)
         /\ u # t => log'[u] = log[u]
<1>1. CASE u # t
  <2>1. log'[u] = log[u]
    BY <1>1 DEF TypeOK, Record
  <2>. QED  BY <1>1, <2>1 DEF Has, Lifecycle!Occurs
<1>2. CASE u = t
  <2>1. log[t] \in Seq({"Started", "Interrupted", "Completed", "Failed"})
    BY DEF TypeOK
  <2>2. log'[t] = Append(log[t], e)
    BY DEF TypeOK, Record
  <2>3. /\ Len(log'[t]) = Len(log[t]) + 1
        /\ log'[t][Len(log[t]) + 1] = e
        /\ \A i \in 1..Len(log[t]) : log'[t][i] = log[t][i]
    BY <2>1, <2>2
  <2>4. Len(log[t]) \in Nat
    BY <2>1
  <2>5. (\E i \in 1..Len(log'[t]) : log'[t][i] = f)
           <=> (\E i \in 1..Len(log[t]) : log[t][i] = f) \/ f = e
    BY <2>3, <2>4
  <2>. QED  BY <1>2, <2>5 DEF Has, Lifecycle!Occurs
<1>. QED  BY <1>1, <1>2

-----------------------------------------------------------------------------
(* The lifecycle invariant                                                 *)

LifecycleTyped == TypeInv /\ LifecycleInv

(* A step of the turn task that records nothing, claims nothing and leaves *)
(* every turn as active as it was.                                         *)
LEMMA QuietStep ==
  ASSUME LifecycleTyped, TypeInv', UNCHANGED <<cur, ipc, log>>,
         \A u \in Turns : \/ state'[u] = state[u]
                          \/ u = cur /\ Active(u) /\ state'[u] \in ActiveStates,
         \A u \in Turns : confirmed'[u] = confirmed[u] \/ Has(u, "Started"),
         pc' \notin {"pubStarted", "pubCompleted", "pubFailed", "commit"},
         \/ pc' \in {"idle", "unwind"}
         \/ pc \notin {"idle", "pubStarted", "unwind", "pubFailed"}
  PROVE  LifecycleInv'
<1>1. \A u \in Turns, e \in {"Started", "Interrupted", "Completed", "Failed"} :
        Has(u, e)' <=> Has(u, e)
  BY SameLog
<1>2. \A u \in Turns : Active(u)' <=> Active(u)
  BY DEF Active, ActiveStates
<1>3. TurnOrder'
  BY <1>2 DEF LifecycleTyped, TypeInv, TypeOK, TaskHasTurn, LifecycleInv, TurnOrder, Active, ActiveStates
<1>4. StartFirst'
  BY <1>1 DEF LifecycleTyped, TypeInv, TaskHasTurn, LifecycleInv, StartFirst
<1>5. TaskClaim'
  BY DEF TaskClaim
<1>6. InterruptClaim'
  BY <1>1, <1>2 DEF LifecycleTyped, LifecycleInv, InterruptClaim, Ended, Active, ActiveStates
<1>7. TerminalMatchesState'
  BY <1>1 DEF LifecycleTyped, LifecycleInv, TerminalMatchesState, Active, ActiveStates
<1>. QED
  BY <1>3, <1>4, <1>5, <1>6, <1>7 DEF LifecycleInv

(* The turn task claims the failure of its active turn.                    *)
LEMMA FailStep ==
  ASSUME LifecycleTyped, TypeInv', UNCHANGED <<cur, ipc, log, confirmed>>, Current,
         NEW s \in {"error", "cancelled"}, SetState(cur, s), pc' = "pubFailed"
  PROVE  LifecycleInv'
<1>1. \A u \in Turns, e \in {"Started", "Interrupted", "Completed", "Failed"} :
        Has(u, e)' <=> Has(u, e)
  BY SameLog
<1>2. cur \in Turns /\ Active(cur) /\ ipc[cur] = "idle"
  BY DEF Current, LifecycleTyped, LifecycleInv, InterruptClaim
<1>3. state'[cur] = s /\ \A u \in Turns : u # cur => state'[u] = state[u]
  BY <1>2 DEF LifecycleTyped, TypeInv, TypeOK, SetState
<1>4. ~Ended(cur)
  BY <1>2 DEF LifecycleTyped, LifecycleInv, TerminalMatchesState, Ended, Active, ActiveStates
<1>5. TurnOrder'
  BY <1>2, <1>3 DEF LifecycleTyped, TypeInv, TypeOK, LifecycleInv, TurnOrder, Active, ActiveStates, Turns
<1>6. StartFirst'
  BY <1>1 DEF LifecycleTyped, LifecycleInv, StartFirst
<1>7. TaskClaim'
  BY <1>1, <1>2, <1>3, <1>4 DEF TaskClaim, Ended
<1>8. InterruptClaim'
  BY <1>1, <1>2, <1>3 DEF LifecycleTyped, LifecycleInv, InterruptClaim, Ended, Active, ActiveStates
<1>9. TerminalMatchesState'
  BY <1>1, <1>3, <1>4 DEF LifecycleTyped, LifecycleInv, TerminalMatchesState, Ended
<1>. QED
  BY <1>5, <1>6, <1>7, <1>8, <1>9 DEF LifecycleInv

LEMMA FailTurnStep ==
  ASSUME LifecycleTyped, TypeInv', UNCHANGED <<cur, ipc, log, confirmed>>,
         pc # "idle", FailTurn
  PROVE  LifecycleInv'
<1>1. cur \in Turns
  BY DEF LifecycleTyped, TypeInv, TaskHasTurn
<1>2. CASE Active(cur)
  BY <1>1, <1>2, FailStep DEF FailTurn, Current, Goto
<1>3. CASE ~Active(cur)
  BY <1>3, QuietStep DEF FailTurn, Goto
<1>. QED  BY <1>2, <1>3

(* A transition to a running state leaves an active turn active and an     *)
(* inactive one as it is.                                                  *)
LEMMA MoveKeepsActive ==
  ASSUME TypeOK, NEW t \in Turns, NEW s \in ActiveStates, TryMove(t, s)
  PROVE  \A u \in Turns : \/ state'[u] = state[u]
                          \/ u = t /\ Active(u) /\ state'[u] \in ActiveStates
<1>1. s \in Allowed(state[t]) => Active(t)
  BY DEF TypeOK, Allowed, Active, ActiveStates, TurnState
<1>. QED
  BY <1>1 DEF TryMove, SetState, TypeOK

(* The start of a turn becomes durable, before anything else of the turn.  *)
LEMMA StartStep ==
  ASSUME LifecycleTyped, TypeInv', UNCHANGED <<cur, ipc, confirmed>>,
         pc = "pubStarted", pc' \in {"asr", "llm", "unwind"}, Record(cur, "Started"),
         \A u \in Turns : \/ state'[u] = state[u]
                          \/ u = cur /\ Active(u) /\ state'[u] \in ActiveStates
  PROVE  LifecycleInv'
<1>1. cur \in Turns /\ TypeOK
  BY DEF LifecycleTyped, TypeInv, TaskHasTurn
<1>2. \A u \in Turns, f \in {"Started", "Interrupted", "Completed", "Failed"} :
        Has(u, f)' <=> Has(u, f) \/ (u = cur /\ f = "Started")
  BY <1>1, RecordedOccurs
<1>3. \A u \in Turns : u # cur => log'[u] = log[u]
  BY <1>1, RecordedOccurs
<1>4. \A u \in Turns : Active(u)' <=> Active(u)
  BY DEF Active, ActiveStates
<1>5. TurnOrder'
  BY <1>1, <1>3, <1>4 DEF LifecycleTyped, TypeInv, TypeOK, LifecycleInv, TurnOrder, Active,
     ActiveStates, Turns
<1>6. StartFirst'
  BY <1>1, <1>2 DEF LifecycleTyped, LifecycleInv, StartFirst
<1>7. TaskClaim'
  BY DEF TaskClaim
<1>8. InterruptClaim'
  <2>1. ipc[cur] \in {"idle", "stopping", "silencing", "pubInterrupted"}
    BY DEF LifecycleTyped, LifecycleInv, StartFirst
  <2>. QED  BY <1>1, <1>2, <1>4, <2>1 DEF LifecycleTyped, LifecycleInv, InterruptClaim, Ended, Active, ActiveStates
<1>9. TerminalMatchesState'
  BY <1>2 DEF LifecycleTyped, LifecycleInv, TerminalMatchesState, Active, ActiveStates
<1>. QED
  BY <1>5, <1>6, <1>7, <1>8, <1>9 DEF LifecycleInv

(* The turn task changes only its own settled turn: it claims the          *)
(* completion, rolls it back or records the terminal it claimed.           *)
LEMMA SettleStep ==
  ASSUME LifecycleTyped, TypeInv', UNCHANGED <<cur, ipc, confirmed>>,
         cur \in Turns, ipc[cur] = "idle", Has(cur, "Started") \/ pc' = "idle" \/ pc' = "pubFailed",
         NEW s \in {"completed", "error", "cancelled"},
         state' = [state EXCEPT ![cur] = s],
         pc' \in {"idle", "commit", "pubCompleted", "pubFailed"},
         \A u \in Turns : u # cur =>
            /\ log'[u] = log[u]
            /\ \A f \in {"Started", "Interrupted", "Completed", "Failed"} : Has(u, f)' <=> Has(u, f),
         \A f \in {"Started", "Interrupted"} : Has(cur, f)' <=> Has(cur, f),
         Has(cur, "Completed")' => s = "completed",
         Has(cur, "Failed")' => s \in {"error", "cancelled"},
         pc' \in {"pubCompleted", "commit"} => s = "completed",
         pc' = "pubCompleted" => ~Ended(cur)',
         pc' = "pubFailed" => s \in {"error", "cancelled"} /\ ~Ended(cur)'
  PROVE  LifecycleInv'
<1>1. state'[cur] = s /\ \A u \in Turns : u # cur => state'[u] = state[u]
  BY DEF LifecycleTyped, TypeInv, TypeOK
<1>2. TurnOrder'
  BY <1>1 DEF LifecycleTyped, TypeInv, TypeOK, LifecycleInv, TurnOrder, Active, ActiveStates, Turns
<1>3. StartFirst'
  BY DEF LifecycleTyped, LifecycleInv, StartFirst
<1>4. TaskClaim'
  BY <1>1 DEF TaskClaim
<1>5. InterruptClaim'
  BY <1>1 DEF LifecycleTyped, LifecycleInv, InterruptClaim, Ended, Active, ActiveStates
<1>6. TerminalMatchesState'
  BY <1>1 DEF LifecycleTyped, LifecycleInv, TerminalMatchesState
<1>. QED
  BY <1>2, <1>3, <1>4, <1>5, <1>6 DEF LifecycleInv

LEMMA TurnStepLifecycle ==
  ASSUME LifecycleTyped, TypeInv', TurnStep, UNCHANGED ipc
  PROVE  LifecycleInv'
<1>1. /\ cur' = cur
      /\ pc # "idle"
      /\ cur \in Turns
  <2>1. cur' = cur
    BY DEF TurnStep, StartPublished, StartRefused, StageRefused, StageCancelled, Transcribed,
           TranscriptPublished, Generated, NextPhrase, StreamEnds, NextChunk, PhraseEnds,
           ChunkPublished, StartPlay, StreamStarted, Written, WriteAborted, PlaybackPublished,
           OutputFinished, StageFails, ResponsePublished, CompletionPublished, CompletionRefused,
           HistoryCommitted, FailurePublished, CancelDelivered, CancelStartedTurn, idleTask
  <2>2. pc # "idle"
    BY DEF TurnStep, StartPublished, StartRefused, StageRefused, StageCancelled, Transcribed,
           TranscriptPublished, Generated, NextPhrase, StreamEnds, NextChunk, PhraseEnds,
           ChunkPublished, StartPlay, StreamStarted, Written, WriteAborted, PlaybackPublished,
           OutputFinished, StageFails, ResponsePublished, CompletionPublished, CompletionRefused,
           HistoryCommitted, FailurePublished, CancelDelivered, CancelStartedTurn,
           At, StagePublishes, TurnPublishes
  <2>. QED  BY <2>1, <2>2 DEF LifecycleTyped, TypeInv, TaskHasTurn
<1>2. TypeOK
  BY DEF LifecycleTyped, TypeInv
<1>3. \A s \in ActiveStates : TryMove(cur, s) =>
        \A u \in Turns : \/ state'[u] = state[u]
                         \/ u = cur /\ Active(u) /\ state'[u] \in ActiveStates
  BY <1>1, <1>2, MoveKeepsActive
<1>. USE DEF Goto, At, StagePublishes, notes, audio, record
(* Steps that record nothing and claim nothing. *)
<1>4. CASE StartRefused
  BY <1>1, <1>4, QuietStep DEF StartRefused
<1>5. CASE Transcribed
  BY <1>1, <1>5, QuietStep DEF Transcribed
<1>6. CASE TranscriptPublished
  <2>1. "llm_thinking" \in ActiveStates /\ TryMove(cur, "llm_thinking")
    BY <1>6 DEF TranscriptPublished, ActiveStates
  <2>2. UNCHANGED <<ipc, log, confirmed>> /\ pc = "pubAsr" /\ pc' = "llm"
    BY <1>6 DEF TranscriptPublished, Committed, Commit
  <2>. QED  BY <1>1, <1>3, <2>1, <2>2, QuietStep
<1>7. CASE Generated
  <2>1. "tts_synthesizing" \in ActiveStates /\ TryMove(cur, "tts_synthesizing")
    BY <1>7 DEF Generated, ActiveStates
  <2>2. UNCHANGED <<ipc, log, confirmed>> /\ pc = "llm" /\ pc' \in {"idle", "phrase", "pubLlm"}
    BY <1>7 DEF Generated
  <2>. QED  BY <1>1, <1>3, <2>1, <2>2, QuietStep
<1>8. CASE NextPhrase
  BY <1>1, <1>8, QuietStep DEF NextPhrase
<1>9. CASE StreamEnds
  BY <1>1, <1>9, QuietStep DEF StreamEnds
<1>10. CASE NextChunk
  BY <1>1, <1>10, QuietStep DEF NextChunk
<1>11. CASE PhraseEnds
  BY <1>1, <1>11, QuietStep DEF PhraseEnds
<1>12. CASE ChunkPublished
  <2>1. "playing" \in ActiveStates /\ (TryMove(cur, "playing") \/ UNCHANGED state)
    BY <1>12 DEF ChunkPublished, ActiveStates
  <2>2. UNCHANGED <<ipc, log, confirmed>> /\ pc = "pubTts" /\ pc' \in {"avatar", "phrase"}
    BY <1>12 DEF ChunkPublished, Committed, Commit
  <2>. QED  BY <1>1, <1>3, <2>1, <2>2, QuietStep
<1>13. CASE StartPlay
  BY <1>1, <1>13, QuietStep DEF StartPlay
<1>14. CASE Written
  <2>1. \A u \in Turns : confirmed'[u] = confirmed[u] \/ Has(u, "Started")
    BY <1>1, <1>14 DEF Written, LifecycleTyped, LifecycleInv, StartFirst, TypeInv, TypeOK
  <2>. QED  BY <1>1, <1>14, <2>1, QuietStep DEF Written
<1>15. CASE WriteAborted
  BY <1>1, <1>15, QuietStep DEF WriteAborted
<1>16. CASE PlaybackPublished
  <2>1. UNCHANGED <<ipc, log, state, confirmed>> /\ pc = "pubPlayed" /\ pc' \in {"tts", "phrase"}
    BY <1>16 DEF PlaybackPublished, Committed, Commit
  <2>. QED  BY <1>1, <2>1, QuietStep
<1>17. CASE OutputFinished
  BY <1>1, <1>17, QuietStep DEF OutputFinished
<1>18. CASE HistoryCommitted
  BY <1>1, <1>18, QuietStep DEF HistoryCommitted
<1>19. CASE CancelDelivered
  BY <1>1, <1>19, QuietStep DEF CancelDelivered, WriteGivenUp
(* Steps that fail the turn. *)
<1>20. CASE StageRefused
  BY <1>1, <1>20, FailTurnStep DEF StageRefused
<1>21. CASE StreamStarted
  <2>1. CASE stream = "open"
    BY <1>1, <1>21, <2>1, QuietStep DEF StreamStarted
  <2>2. CASE stream # "open"
    BY <1>1, <1>21, <2>2, FailTurnStep DEF StreamStarted
  <2>. QED  BY <2>1, <2>2
<1>22. CASE StageFails
  BY <1>1, <1>22, FailTurnStep DEF StageFails, WriteGivenUp
<1>23. CASE CancelStartedTurn
  <2>1. CASE Current
    BY <1>1, <1>23, <2>1, FailStep DEF CancelStartedTurn
  <2>2. CASE ~Current
    BY <1>1, <1>23, <2>2, QuietStep DEF CancelStartedTurn
  <2>. QED  BY <2>1, <2>2
(* Steps that record or claim. *)
<1>24. CASE StartPublished
  <2>1. /\ {"asr_processing", "llm_thinking"} \subseteq ActiveStates
        /\ TryMove(cur, "asr_processing") \/ TryMove(cur, "llm_thinking")
    BY <1>24 DEF StartPublished, ActiveStates
  <2>2. /\ UNCHANGED <<cur, ipc, confirmed>> /\ Record(cur, "Started")
        /\ pc = "pubStarted" /\ pc' \in {"asr", "llm"}
    BY <1>1, <1>24 DEF StartPublished, Committed, Commit
  <2>3. \A u \in Turns : \/ state'[u] = state[u]
                         \/ u = cur /\ Active(u) /\ state'[u] \in ActiveStates
    BY <1>3, <2>1
  <2>. QED  BY <2>2, <2>3, StartStep
<1>25. CASE StageCancelled
  <2>1. /\ UNCHANGED <<cur, ipc, confirmed, state>> /\ pc' = "unwind"
        /\ (pc = "pubStarted" /\ Record(cur, "Started")) \/ log' = log
    BY <1>1, <1>25 DEF StageCancelled, Committed, Commit
  <2>2. CASE log' = log
    BY <1>1, <2>1, <2>2, QuietStep
  <2>3. CASE pc = "pubStarted" /\ Record(cur, "Started")
    BY <1>1, <2>1, <2>3, StartStep
  <2>. QED  BY <2>1, <2>2, <2>3
<1>26. CASE ResponsePublished
  <2>1. /\ UNCHANGED <<cur, ipc, confirmed, log>> /\ pc = "pubLlm"
        /\ \/ FailTurn
           \/ Current /\ SetState(cur, "completed") /\ pc' = "pubCompleted"
    BY <1>1, <1>26 DEF ResponsePublished, Committed, Commit
  <2>2. CASE FailTurn
    BY <1>1, <2>1, <2>2, FailTurnStep
  <2>3. CASE Current /\ SetState(cur, "completed") /\ pc' = "pubCompleted"
    <3>1. Active(cur) /\ ipc[cur] = "idle" /\ Has(cur, "Started")
      BY <1>1, <2>1, <2>3 DEF Current, LifecycleTyped, LifecycleInv, InterruptClaim, StartFirst
    <3>2. ~Has(cur, "Completed") /\ ~Has(cur, "Failed")
      BY <1>1, <3>1 DEF LifecycleTyped, LifecycleInv, TerminalMatchesState, Active, ActiveStates
    <3>3. \A u \in Turns, f \in {"Started", "Interrupted", "Completed", "Failed"} :
            Has(u, f)' <=> Has(u, f)
      BY <2>1, SameLog
    <3>4. ~Ended(cur)'
      BY <1>1, <3>2, <3>3 DEF Ended
    <3>. QED  BY <1>1, <2>1, <2>3, <3>1, <3>2, <3>3, <3>4, SettleStep DEF SetState
  <2>. QED  BY <2>1, <2>2, <2>3
<1>27. CASE CompletionPublished
  <2>1. /\ ipc[cur] = "idle" /\ state[cur] = "completed" /\ Has(cur, "Started")
        /\ ~Has(cur, "Completed") /\ ~Has(cur, "Failed")
    BY <1>1, <1>27 DEF CompletionPublished, LifecycleTyped, LifecycleInv, TaskClaim, StartFirst, Ended
  <2>2. /\ UNCHANGED <<cur, ipc, confirmed, state>> /\ pc' = "commit"
        /\ Record(cur, "Completed") \/ log' = log
    BY <1>1, <1>27 DEF CompletionPublished
  <2>3. state' = [state EXCEPT ![cur] = "completed"]
    BY <1>1, <1>2, <2>1, <2>2 DEF TypeOK
  <2>4. /\ \A u \in Turns : u # cur => log'[u] = log[u]
        /\ \A u \in Turns, f \in {"Started", "Interrupted", "Failed"} : Has(u, f)' <=> Has(u, f)
        /\ \A u \in Turns : u # cur => (Has(u, "Completed")' <=> Has(u, "Completed"))
    BY <1>1, <1>2, <2>2, SameLog, RecordedOccurs
  <2>. QED  BY <1>1, <2>1, <2>2, <2>3, <2>4, SettleStep
<1>28. CASE CompletionRefused
  <2>1. /\ ipc[cur] = "idle" /\ ~Has(cur, "Completed") /\ ~Has(cur, "Failed")
    BY <1>1, <1>28 DEF CompletionRefused, LifecycleTyped, LifecycleInv, TaskClaim, Ended
  <2>2. /\ UNCHANGED <<cur, ipc, confirmed, log>> /\ pc' = "pubFailed" /\ SetState(cur, "error")
    BY <1>1, <1>28 DEF CompletionRefused
  <2>3. \A u \in Turns, f \in {"Started", "Interrupted", "Completed", "Failed"} :
          Has(u, f)' <=> Has(u, f)
    BY <2>2, SameLog
  <2>4. ~Ended(cur)'
    BY <1>1, <2>1, <2>3 DEF Ended
  <2>. QED  BY <1>1, <2>1, <2>2, <2>3, <2>4, SettleStep DEF SetState
<1>29. CASE FailurePublished
  <2>1. /\ ipc[cur] = "idle" /\ state[cur] \in {"error", "cancelled"}
        /\ ~Has(cur, "Completed") /\ ~Has(cur, "Failed")
    BY <1>1, <1>29 DEF FailurePublished, LifecycleTyped, LifecycleInv, TaskClaim, Ended
  <2>2. /\ UNCHANGED <<cur, ipc, confirmed, state>> /\ pc' = "idle"
        /\ Record(cur, "Failed") \/ log' = log
    BY <1>1, <1>29 DEF FailurePublished
  <2>3. state' = [state EXCEPT ![cur] = state[cur]]
    BY <1>1, <1>2, <2>2 DEF TypeOK
  <2>4. /\ \A u \in Turns : u # cur => log'[u] = log[u]
        /\ \A u \in Turns, f \in {"Started", "Interrupted", "Completed"} : Has(u, f)' <=> Has(u, f)
        /\ \A u \in Turns : u # cur => (Has(u, "Failed")' <=> Has(u, "Failed"))
    BY <1>1, <1>2, <2>2, SameLog, RecordedOccurs
  <2>. QED  BY <1>1, <2>1, <2>2, <2>3, <2>4, SettleStep
<1>. QED
  BY <1>4, <1>5, <1>6, <1>7, <1>8, <1>9, <1>10, <1>11, <1>12, <1>13, <1>14, <1>15, <1>16, <1>17,
     <1>18, <1>19, <1>20, <1>21, <1>22, <1>23, <1>24, <1>25, <1>26, <1>27, <1>28, <1>29 DEF TurnStep

(* A step of the interruption task of t settles at most t, and only when   *)
(* the interruption owns it.                                               *)
LEMMA InterruptStep ==
  ASSUME LifecycleTyped, TypeInv', NEW t \in Turns, ipc[t] # "idle",
         UNCHANGED <<cur, pc, confirmed>>,
         NEW s \in {"interrupted", "completed", "error", "cancelled"},
         state[t] \notin ActiveStates, state' = [state EXCEPT ![t] = s],
         NEW p \in InterruptPc, p # "idle", ipc' = [ipc EXCEPT ![t] = p],
         Requeue(t, p \in InterruptPublishes),
         pc = "pubStarted" /\ cur = t => p \in {"stopping", "silencing", "pubInterrupted"} /\ log' = log,
         \A u \in Turns : u # t =>
            /\ log'[u] = log[u]
            /\ \A f \in {"Started", "Interrupted", "Completed", "Failed"} : Has(u, f)' <=> Has(u, f),
         Has(t, "Started")' <=> Has(t, "Started"),
         p \in {"stopping", "silencing", "pubInterrupted"} => ~Has(t, "Interrupted")',
         p \in {"stopping", "silencing", "pubInterrupted", "yield"} => s = "interrupted",
         p = "pubCompleted" => s = "completed" /\ ~Ended(t)' /\ Has(t, "Started"),
         p = "pubFailed" => s = "error" /\ ~Ended(t)',
         Has(t, "Completed")' => s = "completed",
         Has(t, "Failed")' => s \in {"error", "cancelled"}
  PROVE  LifecycleInv'
<1>1. /\ state'[t] = s /\ ipc'[t] = p
      /\ \A u \in Turns : u # t => state'[u] = state[u] /\ ipc'[u] = ipc[u]
  BY DEF LifecycleTyped, TypeInv, TypeOK
<1>2. TurnOrder'
  BY <1>1 DEF LifecycleTyped, TypeInv, TypeOK, TaskHasTurn, LifecycleInv, TurnOrder, Active, ActiveStates
<1>3. StartFirst'
  <2>1. CASE pc = "pubStarted" /\ cur = t
    <3>1. /\ log'[cur] = <<>> /\ ipc'[cur] \in {"idle", "stopping", "silencing", "pubInterrupted"}
      BY <1>1, <2>1 DEF LifecycleTyped, LifecycleInv, StartFirst
    <3>2. ipc'[cur] = "pubInterrupted" => 0 \in ahead'[cur]
      BY <1>1, <2>1 DEF Requeue, Publishing, Publishers, Turns, InterruptPublishes, TurnPublishes, StagePublishes
    <3>. QED  BY <2>1, <3>1, <3>2 DEF LifecycleTyped, LifecycleInv, StartFirst
  <2>2. CASE pc = "pubStarted" /\ cur # t
    <3>1. cur \in Turns /\ cur \in Publishers /\ t # 0
      BY <2>2 DEF LifecycleTyped, TypeInv, TaskHasTurn, Turns, Publishers
    <3>2. 0 \in ahead[cur] => 0 \in ahead'[cur]
      BY <2>2, <3>1 DEF Requeue
    <3>. QED  BY <1>1, <2>2, <3>1, <3>2 DEF LifecycleTyped, LifecycleInv, StartFirst
  <2>3. CASE pc # "pubStarted"
    BY <2>3 DEF LifecycleTyped, TypeInv, TaskHasTurn, LifecycleInv, StartFirst
  <2>. QED  BY <2>1, <2>2, <2>3
<1>4. TaskClaim'
  <2>1. CASE cur = t
    BY <2>1 DEF LifecycleTyped, LifecycleInv, TaskClaim
  <2>2. CASE cur # t /\ pc \in {"pubCompleted", "pubFailed", "commit"}
    BY <1>1, <2>2 DEF LifecycleTyped, TypeInv, TaskHasTurn, LifecycleInv, TaskClaim, Ended
  <2>. QED  BY <2>1, <2>2 DEF TaskClaim
<1>5. InterruptClaim'
  BY <1>1 DEF LifecycleTyped, LifecycleInv, InterruptClaim, Ended, Active, ActiveStates
<1>6. TerminalMatchesState'
  BY <1>1 DEF LifecycleTyped, LifecycleInv, TerminalMatchesState
<1>. QED
  BY <1>2, <1>3, <1>4, <1>5, <1>6 DEF LifecycleInv

LEMMA InterruptTaskLifecycle ==
  ASSUME LifecycleTyped, TypeInv', NEW t \in Turns, InterruptTask(t)
  PROVE  LifecycleInv'
<1>1. /\ TypeOK
      /\ UNCHANGED <<cur, pc, confirmed>>
      /\ Requeue(t, ipc'[t] \in InterruptPublishes)
  BY DEF LifecycleTyped, TypeInv, InterruptTask, StopAudio, ProvidersStopped, InterruptionPublished,
         Yielded, InterruptedCompletion, InterruptedFailure, audio
<1>2. log' = log => \A u \in Turns, f \in {"Started", "Interrupted", "Completed", "Failed"} :
                      Has(u, f)' <=> Has(u, f)
  BY SameLog
<1>3. \A e \in {"Started", "Interrupted", "Completed", "Failed"} : Record(t, e) =>
        /\ \A u \in Turns : u # t => log'[u] = log[u]
        /\ \A u \in Turns, f \in {"Started", "Interrupted", "Completed", "Failed"} :
             Has(u, f)' <=> Has(u, f) \/ (u = t /\ f = e)
  BY <1>1, RecordedOccurs
<1>4. \A p : SetIpc(t, p) => ipc'[t] = p
  BY <1>1 DEF SetIpc, TypeOK
<1>5. /\ pc = "pubStarted" /\ cur = t =>
           /\ ipc[t] \in {"idle", "stopping", "silencing", "pubInterrupted"}
           /\ ipc[t] = "pubInterrupted" => ahead[t] # {}
      /\ ipc[t] \in {"stopping", "silencing", "pubInterrupted"} => ~Has(t, "Interrupted")
      /\ ipc[t] \in {"stopping", "silencing", "pubInterrupted", "yield"} => state[t] = "interrupted"
      /\ ipc[t] = "pubCompleted" =>
           state[t] = "completed" /\ ~Has(t, "Completed") /\ ~Has(t, "Failed") /\ Has(t, "Started")
      /\ ipc[t] = "pubFailed" => state[t] = "error" /\ ~Has(t, "Completed") /\ ~Has(t, "Failed")
      /\ state[t] = "interrupted" => ~Has(t, "Completed") /\ ~Has(t, "Failed")
      /\ confirmed[t] # {} => Has(t, "Started")
  BY DEF LifecycleTyped, LifecycleInv, StartFirst, InterruptClaim, TerminalMatchesState, Ended
<1>6. Ended(t)' <=> Has(t, "Completed")' \/ Has(t, "Failed")'
  BY DEF Ended
<1>7. \A s : state[t] = s => state = [state EXCEPT ![t] = s]
  BY <1>1 DEF TypeOK
<1>. USE DEF SetState, SetIpc, notes, audio, record, InterruptPc, InterruptPublishes, ActiveStates
<1>8. CASE StopAudio(t)
  <2>1. /\ ipc[t] = "stopping" /\ ipc' = [ipc EXCEPT ![t] = "silencing"]
        /\ UNCHANGED <<state, log>>
    BY <1>8 DEF StopAudio
  <2>. QED  BY <1>1, <1>2, <1>4, <1>5, <1>6, <1>7, <2>1, InterruptStep
<1>9. CASE ProvidersStopped(t)
  <2>1. /\ ipc[t] = "silencing" /\ ipc' = [ipc EXCEPT ![t] = "pubInterrupted"]
        /\ UNCHANGED <<state, log>>
    BY <1>9 DEF ProvidersStopped
  <2>. QED  BY <1>1, <1>2, <1>4, <1>5, <1>6, <1>7, <2>1, InterruptStep
<1>10. CASE InterruptionPublished(t)
  <2>1. /\ ipc[t] = "pubInterrupted" /\ state[t] = "interrupted" /\ ahead[t] = {}
        /\ \/ Record(t, "Interrupted") /\ ipc' = [ipc EXCEPT ![t] = "yield"] /\ UNCHANGED state
           \/ /\ log' = log /\ ipc' = [ipc EXCEPT ![t] = "pubFailed"]
              /\ state' = [state EXCEPT ![t] = "error"]
    BY <1>5, <1>10 DEF InterruptionPublished, Refused, FailInterrupted
  <2>2. CASE Record(t, "Interrupted") /\ ipc' = [ipc EXCEPT ![t] = "yield"] /\ UNCHANGED state
    <3>1. /\ \A u \in Turns : u # t => log'[u] = log[u]
          /\ \A u \in Turns, f \in {"Started", "Interrupted", "Completed", "Failed"} :
               Has(u, f)' <=> Has(u, f) \/ (u = t /\ f = "Interrupted")
      BY <1>3, <2>2
    <3>2. /\ state' = [state EXCEPT ![t] = "interrupted"] /\ state[t] = "interrupted"
          /\ ipc' = [ipc EXCEPT ![t] = "yield"] /\ ipc'[t] = "yield" /\ ipc[t] = "pubInterrupted"
      BY <1>4, <1>7, <2>1, <2>2
    <3>3. /\ Has(t, "Started")' <=> Has(t, "Started")
          /\ ~Has(t, "Failed")'
          /\ ~Has(t, "Completed")'
      BY <1>5, <2>1, <3>1
    <3>4. ~(pc = "pubStarted" /\ cur = t)
      BY <1>5, <2>1
    <3>. QED  BY <1>1, <1>5, <3>1, <3>2, <3>3, <3>4, InterruptStep
  <2>3. CASE /\ log' = log /\ ipc' = [ipc EXCEPT ![t] = "pubFailed"]
             /\ state' = [state EXCEPT ![t] = "error"]
    BY <1>1, <1>2, <1>4, <1>5, <1>6, <2>1, <2>3, InterruptStep
  <2>. QED  BY <2>1, <2>2, <2>3
<1>11. CASE Yielded(t)
  <2>1. /\ ipc[t] = "yield" /\ state[t] = "interrupted" /\ log' = log
        /\ \/ /\ confirmed[t] # {} /\ ipc' = [ipc EXCEPT ![t] = "pubCompleted"]
              /\ state' = [state EXCEPT ![t] = "completed"]
           \/ /\ ipc' = [ipc EXCEPT ![t] = "pubFailed"]
              /\ state' = [state EXCEPT ![t] = "error"]
    BY <1>5, <1>11 DEF Yielded, FailInterrupted
  <2>. QED  BY <1>1, <1>2, <1>4, <1>5, <1>6, <2>1, InterruptStep
<1>12. CASE InterruptedCompletion(t)
  <2>1. /\ ipc[t] = "pubCompleted" /\ state[t] = "completed"
        /\ \/ Record(t, "Completed") /\ ipc' = [ipc EXCEPT ![t] = "done"] /\ UNCHANGED state
           \/ /\ log' = log /\ ipc' = [ipc EXCEPT ![t] = "pubFailed"]
              /\ state' = [state EXCEPT ![t] = "error"]
    BY <1>5, <1>12 DEF InterruptedCompletion, FailInterrupted
  <2>2. CASE Record(t, "Completed") /\ ipc' = [ipc EXCEPT ![t] = "done"] /\ UNCHANGED state
    <3>1. /\ \A u \in Turns : u # t => log'[u] = log[u]
          /\ \A u \in Turns, f \in {"Started", "Interrupted", "Completed", "Failed"} :
               Has(u, f)' <=> Has(u, f) \/ (u = t /\ f = "Completed")
      BY <1>3, <2>2
    <3>2. /\ state' = [state EXCEPT ![t] = "completed"] /\ state[t] = "completed"
          /\ ipc' = [ipc EXCEPT ![t] = "done"] /\ ipc'[t] = "done" /\ ipc[t] = "pubCompleted"
      BY <1>4, <1>7, <2>1, <2>2
    <3>3. /\ Has(t, "Started")' <=> Has(t, "Started")
          /\ ~Has(t, "Failed")'
          /\ Has(t, "Completed")'
      BY <1>5, <2>1, <3>1
    <3>4. ~(pc = "pubStarted" /\ cur = t)
      BY <1>5, <2>1
    <3>. QED  BY <1>1, <3>1, <3>2, <3>3, <3>4, InterruptStep
  <2>3. CASE /\ log' = log /\ ipc' = [ipc EXCEPT ![t] = "pubFailed"]
             /\ state' = [state EXCEPT ![t] = "error"]
    BY <1>1, <1>2, <1>4, <1>5, <1>6, <2>1, <2>3, InterruptStep
  <2>. QED  BY <2>1, <2>2, <2>3
<1>13. CASE InterruptedFailure(t)
  <2>1. /\ ipc[t] = "pubFailed" /\ state[t] = "error" /\ UNCHANGED state
        /\ ipc' = [ipc EXCEPT ![t] = "done"]
        /\ Record(t, "Failed") \/ log' = log
    BY <1>5, <1>13 DEF InterruptedFailure
  <2>2. CASE Record(t, "Failed")
    BY <1>1, <1>3, <1>4, <1>5, <1>6, <1>7, <2>1, <2>2, InterruptStep
  <2>3. CASE log' = log
    BY <1>1, <1>2, <1>4, <1>5, <1>6, <1>7, <2>1, <2>3, InterruptStep
  <2>. QED  BY <2>1, <2>2, <2>3
<1>. QED
  BY <1>8, <1>9, <1>10, <1>11, <1>12, <1>13 DEF InterruptTask

(* An interruption is accepted for an active turn only. *)
LEMMA AcceptStep ==
  ASSUME LifecycleTyped, TypeInv', Current, Accept(cur), UNCHANGED <<cur, pc, log, confirmed, ahead>>
  PROVE  LifecycleInv'
<1>1. /\ cur \in Turns /\ Active(cur) /\ ipc[cur] = "idle"
      /\ ~Has(cur, "Interrupted") /\ ~Has(cur, "Completed") /\ ~Has(cur, "Failed")
  BY DEF Current, LifecycleTyped, LifecycleInv, InterruptClaim, TerminalMatchesState, Active, ActiveStates
<1>2. \A u \in Turns, f \in {"Started", "Interrupted", "Completed", "Failed"} :
        Has(u, f)' <=> Has(u, f)
  BY SameLog
<1>3. /\ state'[cur] = "interrupted" /\ ipc'[cur] = "stopping"
      /\ \A u \in Turns : u # cur => state'[u] = state[u] /\ ipc'[u] = ipc[u]
  BY <1>1 DEF LifecycleTyped, TypeInv, TypeOK, Accept, SetState, SetIpc
<1>4. TurnOrder'
  BY <1>1, <1>3 DEF LifecycleTyped, TypeInv, TypeOK, LifecycleInv, TurnOrder, Active, ActiveStates, Turns
<1>5. StartFirst'
  BY <1>1, <1>2, <1>3 DEF LifecycleTyped, LifecycleInv, StartFirst
<1>6. TaskClaim'
  BY <1>1 DEF LifecycleTyped, LifecycleInv, TaskClaim, Active, ActiveStates, Ended, TerminalMatchesState
<1>7. InterruptClaim'
  BY <1>1, <1>2, <1>3 DEF LifecycleTyped, LifecycleInv, InterruptClaim, Ended, Active, ActiveStates
<1>8. TerminalMatchesState'
  BY <1>1, <1>2, <1>3 DEF LifecycleTyped, LifecycleInv, TerminalMatchesState
<1>. QED
  BY <1>4, <1>5, <1>6, <1>7, <1>8 DEF LifecycleInv

(* A step that touches nothing the invariant reads. *)
LEMMA IdleStep ==
  ASSUME LifecycleInv, UNCHANGED <<cur, state, pc, ipc, ahead, log, confirmed>>
  PROVE  LifecycleInv'
<1>1. \A u \in Turns, f \in {"Started", "Interrupted", "Completed", "Failed"} :
        Has(u, f)' <=> Has(u, f)
  BY SameLog
<1>2. TurnOrder'
  BY DEF LifecycleInv, TurnOrder, Active
<1>3. StartFirst'
  BY <1>1 DEF LifecycleInv, StartFirst, Has
<1>4. TaskClaim'
  BY <1>1 DEF LifecycleInv, TaskClaim, Ended, Has
<1>5. InterruptClaim'
  BY <1>1 DEF LifecycleInv, InterruptClaim, Ended, Active
<1>6. TerminalMatchesState'
  BY <1>1 DEF LifecycleInv, TerminalMatchesState
<1>. QED
  BY <1>2, <1>3, <1>4, <1>5, <1>6 DEF LifecycleInv

LEMMA AdmitLifecycle ==
  ASSUME LifecycleTyped, TypeInv', NEW m \in {"voice", "text"}, Admit(m), UNCHANGED ipc
  PROVE  LifecycleInv'
<1>. USE DEF Admit, Goto, notes, audio
<1>1. /\ cur \in 0..MaxTurns /\ cur' = cur + 1 /\ cur' \in Turns
  BY DEF LifecycleTyped, TypeInv, TypeOK, Turns
<1>2. \A u \in Turns, f \in {"Started", "Interrupted", "Completed", "Failed"} :
        Has(u, f)' <=> Has(u, f)
  BY SameLog
<1>3. /\ state'[cur'] = "started" /\ ipc[cur'] = "idle" /\ log[cur'] = <<>>
      /\ \A u \in Turns : u # cur' => \/ state'[u] = state[u] /\ u # cur
                                      \/ state'[u] = state[u] /\ ~Active(u)
                                      \/ state'[u] = "interrupted" /\ Active(u) /\ u = cur
  BY <1>1 DEF LifecycleTyped, TypeInv, TypeOK, LifecycleInv, TurnOrder, Turns
<1>4. \A f : ~Has(cur', f)
  BY <1>1, <1>3 DEF Has, Lifecycle!Occurs
<1>5. \A u \in Turns : Active(u)' => u = cur'
  BY <1>1, <1>3 DEF LifecycleTyped, LifecycleInv, TurnOrder, Active, ActiveStates
<1>6. TurnOrder'
  BY <1>1, <1>3, <1>5 DEF LifecycleTyped, TypeInv, TypeOK, LifecycleInv, TurnOrder, Turns
<1>7. StartFirst'
  BY <1>1, <1>2, <1>3 DEF LifecycleTyped, LifecycleInv, StartFirst
<1>8. TaskClaim'
  BY DEF TaskClaim
<1>9. InterruptClaim'
  BY <1>1, <1>2, <1>3, <1>5 DEF LifecycleTyped, LifecycleInv, InterruptClaim, Ended, Active, ActiveStates
<1>10. TerminalMatchesState'
  <2>. SUFFICES ASSUME NEW u \in Turns
                PROVE  /\ Has(u, "Completed")' => state'[u] = "completed"
                       /\ Has(u, "Failed")' => state'[u] \in {"error", "cancelled"}
    BY DEF TerminalMatchesState
  <2>1. CASE u = cur'
    BY <1>2, <1>4, <2>1
  <2>2. CASE u # cur'
    BY <1>2, <1>3, <2>2 DEF LifecycleTyped, LifecycleInv, TerminalMatchesState, Active, ActiveStates
  <2>. QED  BY <2>1, <2>2
<1>. QED
  BY <1>6, <1>7, <1>8, <1>9, <1>10 DEF LifecycleInv

LEMMA NextLifecycle ==
  ASSUME LifecycleTyped, [Next]_vars
  PROVE  LifecycleTyped'
<1>1. TypeInv'
  BY NextType DEF LifecycleTyped
<1>2. CASE TurnTask
  BY <1>1, <1>2, TurnStepLifecycle, AdmitLifecycle DEF TurnTask, LifecycleTyped
<1>3. ASSUME NEW t \in Turns, InterruptTask(t)
      PROVE  LifecycleTyped'
  BY <1>1, <1>3, InterruptTaskLifecycle DEF LifecycleTyped
<1>. USE DEF LifecycleTyped, audio, record, stopper
<1>4. CASE Interrupt
  BY <1>1, <1>4, AcceptStep DEF Interrupt
<1>5. CASE Cancel
  BY <1>1, <1>5, IdleStep DEF Cancel
<1>6. CASE OwnerCancel
  BY <1>1, <1>6, IdleStep DEF OwnerCancel
<1>7. ASSUME NEW shutdown \in BOOLEAN, Stop(shutdown)
      PROVE  LifecycleTyped'
  <2>1. /\ UNCHANGED <<cur, pc, ahead, log, confirmed>>
        /\ (Current /\ Accept(cur)) \/ UNCHANGED <<state, ipc>>
    BY <1>7 DEF Stop
  <2>2. CASE Current /\ Accept(cur)
    BY <1>1, <2>1, <2>2, AcceptStep
  <2>3. CASE UNCHANGED <<state, ipc>>
    BY <1>1, <2>1, <2>3, IdleStep
  <2>. QED  BY <2>1, <2>2, <2>3
<1>8. CASE StopInterrupted
  BY <1>1, <1>8, IdleStep DEF StopInterrupted
<1>9. CASE StopWaited
  BY <1>1, <1>9, IdleStep DEF StopWaited
<1>10. CASE UNCHANGED vars
  BY <1>1, <1>10, IdleStep DEF vars
<1>. QED
  BY <1>2, <1>3, <1>4, <1>5, <1>6, <1>7, <1>8, <1>9, <1>10 DEF Next

LEMMA InitLifecycle == Init => LifecycleTyped
<1>. SUFFICES ASSUME Init PROVE LifecycleTyped
  OBVIOUS
<1>1. TypeInv
  BY InitType
<1>2. \A u \in Turns : state[u] = "none" /\ ipc[u] = "idle" /\ log[u] = <<>> /\ confirmed[u] = {}
  BY DEF Init
<1>3. \A u \in Turns, f \in {"Started", "Interrupted", "Completed", "Failed"} : ~Has(u, f)
  BY <1>1, <1>2, NothingOccurs DEF TypeInv
<1>4. TurnOrder /\ TaskClaim /\ StartFirst
  BY <1>2 DEF Init, TurnOrder, TaskClaim, StartFirst, Active, ActiveStates
<1>5. InterruptClaim /\ TerminalMatchesState
  BY <1>2, <1>3 DEF InterruptClaim, TerminalMatchesState, Active, ActiveStates
<1>. QED
  BY <1>1, <1>4, <1>5 DEF LifecycleTyped, LifecycleInv

LEMMA LifecycleTypedAlways == Spec => []LifecycleTyped
<1>1. Init => LifecycleTyped
  BY InitLifecycle
<1>2. LifecycleTyped /\ [Next]_vars => LifecycleTyped'
  BY NextLifecycle
<1>. QED  BY <1>1, <1>2, PTL DEF Spec

(* The claims of the turn task, of the interruption task and of the log    *)
(* never contradict one another: the inductive invariant itself.           *)
THEOREM LifecycleInvariant == Spec => []LifecycleInv
<1>1. LifecycleTyped => LifecycleInv
  BY DEF LifecycleTyped
<1>. QED  BY <1>1, LifecycleTypedAlways, PTL

(* A durable terminal event and the in-memory state of its turn agree, for *)
(* every interleaving of completion, failure, cancellation, interruption,  *)
(* stop and refused publishes.                                             *)
THEOREM TerminalsMatchState == Spec => []TerminalMatchesState
<1>1. LifecycleTyped => TerminalMatchesState
  BY DEF LifecycleTyped, LifecycleInv
<1>. QED  BY <1>1, LifecycleTypedAlways, PTL

-----------------------------------------------------------------------------
(* The pipeline implements the event ledger                                *)

LEMMA TurnStepLog ==
  ASSUME LifecycleTyped, TurnStep
  PROVE  log' = log \/ Lifecycle!Next
<1>1. /\ pc = "pubStarted" => cur \in Turns /\ log[cur] = <<>>
      /\ pc = "pubCompleted" => cur \in Turns /\ ~Ended(cur) /\ Has(cur, "Started")
      /\ pc = "pubFailed" => cur \in Turns /\ ~Ended(cur)
  BY DEF LifecycleTyped, TypeInv, TaskHasTurn, LifecycleInv, StartFirst, TaskClaim
<1>2. \A t \in Turns : Ended(t) <=> Lifecycle!Ended(t)
  BY DEF Ended, Has, Lifecycle!Ended, Lifecycle!Has
<1>3. \/ log' = log
      \/ pc = "pubStarted" /\ Record(cur, "Started")
      \/ pc = "pubCompleted" /\ Record(cur, "Completed")
      \/ pc = "pubFailed" /\ Record(cur, "Failed")
  BY DEF TurnStep, StartPublished, StartRefused, StageRefused, StageCancelled, Transcribed,
         TranscriptPublished, Generated, NextPhrase, StreamEnds, NextChunk, PhraseEnds,
         ChunkPublished, StartPlay, StreamStarted, Written, WriteAborted, PlaybackPublished,
         OutputFinished, StageFails, ResponsePublished, CompletionPublished, CompletionRefused,
         HistoryCommitted, FailurePublished, CancelDelivered, CancelStartedTurn,
         At, Committed, Commit, notes
<1>4. CASE pc = "pubStarted" /\ Record(cur, "Started")
  BY <1>1, <1>4 DEF Lifecycle!Next, Lifecycle!Start, Lifecycle!Record, Record
<1>5. CASE pc = "pubCompleted" /\ Record(cur, "Completed")
  BY <1>1, <1>2, <1>5 DEF Lifecycle!Next, Lifecycle!Complete, Lifecycle!Record, Lifecycle!Has, Record, Has
<1>6. CASE pc = "pubFailed" /\ Record(cur, "Failed")
  BY <1>1, <1>2, <1>6 DEF Lifecycle!Next, Lifecycle!Fail, Lifecycle!Record, Record
<1>. QED  BY <1>3, <1>4, <1>5, <1>6

LEMMA InterruptTaskLog ==
  ASSUME LifecycleTyped, NEW t \in Turns, InterruptTask(t)
  PROVE  log' = log \/ Lifecycle!Next
<1>1. /\ ipc[t] = "pubInterrupted" => ~Ended(t) /\ ~Has(t, "Interrupted")
      /\ ipc[t] = "pubCompleted" => ~Ended(t) /\ Has(t, "Started")
      /\ ipc[t] = "pubFailed" => ~Ended(t)
  BY DEF LifecycleTyped, LifecycleInv, InterruptClaim, TerminalMatchesState, Ended
<1>2. Ended(t) <=> Lifecycle!Ended(t)
  BY DEF Ended, Has, Lifecycle!Ended, Lifecycle!Has
<1>3. \/ log' = log
      \/ ipc[t] = "pubInterrupted" /\ Record(t, "Interrupted")
      \/ ipc[t] = "pubCompleted" /\ Record(t, "Completed")
      \/ ipc[t] = "pubFailed" /\ Record(t, "Failed")
  BY DEF InterruptTask, StopAudio, ProvidersStopped, InterruptionPublished, Yielded,
         InterruptedCompletion, InterruptedFailure, notes
<1>4. CASE ipc[t] = "pubInterrupted" /\ Record(t, "Interrupted")
  BY <1>1, <1>2, <1>4 DEF Lifecycle!Next, Lifecycle!Interrupt, Lifecycle!Record, Lifecycle!Has, Record, Has
<1>5. CASE ipc[t] = "pubCompleted" /\ Record(t, "Completed")
  BY <1>1, <1>2, <1>5 DEF Lifecycle!Next, Lifecycle!Complete, Lifecycle!Record, Lifecycle!Has, Record, Has
<1>6. CASE ipc[t] = "pubFailed" /\ Record(t, "Failed")
  BY <1>1, <1>2, <1>6 DEF Lifecycle!Next, Lifecycle!Fail, Lifecycle!Record, Record
<1>. QED  BY <1>3, <1>4, <1>5, <1>6

(* The voice pipeline implements the lifecycle of the event ledger: every  *)
(* step records nothing or is one of the ledger's own steps.               *)
THEOREM PipelineImplementsLifecycle == Spec => ImplementsLifecycle
<1>1. Init => Lifecycle!Init
  BY DEF Init, Lifecycle!Init
<1>2. LifecycleTyped /\ [Next]_vars => [Lifecycle!Next]_log
  <2>. SUFFICES ASSUME LifecycleTyped, [Next]_vars
                PROVE  log' = log \/ Lifecycle!Next
    OBVIOUS
  <2>1. CASE TurnTask
    BY <2>1, TurnStepLog DEF TurnTask, Admit, notes
  <2>2. CASE \E t \in Turns : InterruptTask(t)
    BY <2>2, InterruptTaskLog
  <2>3. CASE \/ Interrupt \/ Cancel \/ OwnerCancel \/ (\E shutdown \in BOOLEAN : Stop(shutdown))
             \/ StopInterrupted \/ StopWaited \/ UNCHANGED vars
    BY <2>3 DEF Interrupt, Cancel, OwnerCancel, Stop, StopInterrupted, StopWaited, vars
  <2>. QED  BY <2>1, <2>2, <2>3 DEF Next
<1>. QED
  BY <1>1, <1>2, LifecycleTypedAlways, PTL DEF Spec, ImplementsLifecycle, Lifecycle!Spec

-----------------------------------------------------------------------------
(* An interruption owns its turn                                           *)

LEMMA TurnStepOwnership ==
  ASSUME LifecycleTyped, TurnStep, NEW t \in Turns, state[t] = "interrupted"
  PROVE  state'[t] = "interrupted"
<1>1. TypeOK /\ pc # "idle" => cur \in Turns
  BY DEF LifecycleTyped, TypeInv, TaskHasTurn
<1>2. \/ UNCHANGED state
      \/ \E s \in ActiveStates : TryMove(cur, s)
      \/ Active(cur) /\ \E s \in {"completed", "error", "cancelled"} : SetState(cur, s)
      \/ pc = "pubCompleted" /\ SetState(cur, "error")
  BY DEF TurnStep, StartPublished, StartRefused, StageRefused, StageCancelled, Transcribed,
         TranscriptPublished, Generated, NextPhrase, StreamEnds, NextChunk, PhraseEnds,
         ChunkPublished, StartPlay, StreamStarted, Written, WriteAborted, PlaybackPublished,
         OutputFinished, StageFails, ResponsePublished, CompletionPublished, CompletionRefused,
         HistoryCommitted, FailurePublished, CancelDelivered, CancelStartedTurn,
         FailTurn, Current, ActiveStates
<1>3. CASE \E s \in ActiveStates : TryMove(cur, s)
  BY <1>3 DEF TryMove, SetState, Allowed, ActiveStates, LifecycleTyped, TypeInv, TypeOK
<1>4. CASE Active(cur) /\ \E s \in {"completed", "error", "cancelled"} : SetState(cur, s)
  BY <1>4 DEF Active, ActiveStates, SetState, LifecycleTyped, TypeInv, TypeOK
<1>5. CASE pc = "pubCompleted" /\ SetState(cur, "error")
  BY <1>5 DEF SetState, LifecycleTyped, TypeInv, TypeOK, LifecycleInv, TaskClaim
<1>. QED  BY <1>2, <1>3, <1>4, <1>5

(* Once accepted, an interruption is settled by its own task only: a turn  *)
(* task that is still running cannot complete, fail or cancel the turn.    *)
THEOREM InterruptionIsOwned == Spec => InterruptionOwnsTurn
<1>. DEFINE Owned == \A t \in Turns : state[t] = "interrupted" /\ state'[t] # "interrupted"
                                        => ipc'[t] # ipc[t]
<1>1. LifecycleTyped /\ [Next]_vars => Owned
  <2>. SUFFICES ASSUME LifecycleTyped, [Next]_vars, NEW t \in Turns,
                       state[t] = "interrupted", state'[t] # "interrupted"
                PROVE  ipc'[t] # ipc[t]
    OBVIOUS
  <2>1. CASE TurnStep
    BY <2>1, TurnStepOwnership
  <2>2. CASE \E m \in {"voice", "text"} : Admit(m)
    BY <2>2 DEF Admit, LifecycleTyped, TypeInv, TypeOK, LifecycleInv, TurnOrder, Turns, Active, ActiveStates
  <2>3. ASSUME NEW u \in Turns, InterruptTask(u)
        PROVE  ipc'[t] # ipc[t]
    <3>1. UNCHANGED state \/ \E s : SetState(u, s)
      BY <2>3 DEF InterruptTask, StopAudio, ProvidersStopped, InterruptionPublished, Yielded,
                  InterruptedCompletion, InterruptedFailure, FailInterrupted
    <3>2. u = t
      BY <3>1 DEF SetState, LifecycleTyped, TypeInv, TypeOK
    <3>. QED
      BY <2>3, <3>2 DEF InterruptTask, StopAudio, ProvidersStopped, InterruptionPublished, Yielded,
           InterruptedCompletion, InterruptedFailure, FailInterrupted, SetIpc, LifecycleTyped, TypeInv, TypeOK
  <2>4. CASE \/ Interrupt \/ Cancel \/ OwnerCancel \/ (\E shutdown \in BOOLEAN : Stop(shutdown))
             \/ StopInterrupted \/ StopWaited \/ UNCHANGED vars
    <3>1. UNCHANGED state \/ Accept(cur)
      BY <2>4 DEF Interrupt, Cancel, OwnerCancel, Stop, StopInterrupted, StopWaited, vars
    <3>. QED  BY <3>1 DEF Accept, SetState, LifecycleTyped, TypeInv, TypeOK
  <2>. QED  BY <2>1, <2>2, <2>3, <2>4 DEF Next, TurnTask
<1>. QED
  BY <1>1, LifecycleTypedAlways, PTL DEF Spec, InterruptionOwnsTurn

-----------------------------------------------------------------------------
(* The history holds what was heard                                        *)

LEMMA InitHeard == Init => HeardFirst
BY DEF Init, HeardFirst

(* What a step may do to the four sets of pieces. *)
LEMMA TurnStepHeard ==
  ASSUME TypeInv, HeardFirst, TurnStep
  PROVE  HeardFirst'
<1>1. cur \in Turns /\ cur' = cur
  <2>1. pc # "idle" /\ cur' = cur
    BY DEF TurnStep, StartPublished, StartRefused, StageRefused, StageCancelled, Transcribed,
           TranscriptPublished, Generated, NextPhrase, StreamEnds, NextChunk, PhraseEnds,
           ChunkPublished, StartPlay, StreamStarted, Written, WriteAborted, PlaybackPublished,
           OutputFinished, StageFails, ResponsePublished, CompletionPublished, CompletionRefused,
           HistoryCommitted, FailurePublished, CancelDelivered, CancelStartedTurn,
           At, StagePublishes, TurnPublishes, idleTask
  <2>. QED  BY <2>1 DEF TypeInv, TaskHasTurn
<1>2. \/ UNCHANGED <<heard, confirmed, said, history>>
      \/ /\ heard' = [heard EXCEPT ![cur] = @ \cup {items}]
         /\ UNCHANGED <<confirmed, said, history>>
      \/ Written
      \/ /\ UNCHANGED <<heard, confirmed, history>>
         /\ said' = [said EXCEPT ![cur] = confirmed[cur]] \/ said' = [said EXCEPT ![cur] = {0}]
      \/ HistoryCommitted
  BY DEF TurnStep, StartPublished, StartRefused, StageRefused, StageCancelled, Transcribed,
         TranscriptPublished, Generated, NextPhrase, StreamEnds, NextChunk, PhraseEnds,
         ChunkPublished, StartPlay, StreamStarted, WriteAborted, PlaybackPublished,
         OutputFinished, StageFails, ResponsePublished, CompletionPublished, CompletionRefused,
         FailurePublished, CancelDelivered, CancelStartedTurn, WriteGivenUp, audio, record
<1>. USE DEF TypeInv, TypeOK, HeardFirst, audio, record
<1>3. CASE UNCHANGED <<heard, confirmed, said, history>>
  BY <1>3
<1>4. CASE /\ heard' = [heard EXCEPT ![cur] = @ \cup {items}]
           /\ UNCHANGED <<confirmed, said, history>>
  BY <1>4
<1>5. CASE Written
  BY <1>1, <1>5 DEF Written
<1>6. CASE /\ UNCHANGED <<heard, confirmed, history>>
           /\ said' = [said EXCEPT ![cur] = confirmed[cur]] \/ said' = [said EXCEPT ![cur] = {0}]
  BY <1>1, <1>6
<1>7. CASE HistoryCommitted
  BY <1>1, <1>7 DEF HistoryCommitted
<1>. QED  BY <1>2, <1>3, <1>4, <1>5, <1>6, <1>7

LEMMA InterruptTaskHeard ==
  ASSUME TypeInv, HeardFirst, NEW t \in Turns, InterruptTask(t)
  PROVE  HeardFirst'
<1>1. /\ UNCHANGED <<heard, confirmed>>
      /\ UNCHANGED said \/ said' = [said EXCEPT ![t] = confirmed[t]]
      /\ UNCHANGED history \/ (UNCHANGED said /\ history' = [history EXCEPT ![t] = said[t]])
  BY DEF InterruptTask, StopAudio, ProvidersStopped, InterruptionPublished, Yielded,
         InterruptedCompletion, InterruptedFailure, audio, record
<1>. QED  BY <1>1 DEF TypeInv, TypeOK, HeardFirst

(* The conversation history never holds audio that was not written to the  *)
(* device to the end, whoever commits it and whenever.                     *)
THEOREM HistoryIsHeard == Spec => []HistoryWasHeard
<1>1. Init => TypeInv /\ HeardFirst
  BY InitType, InitHeard
<1>2. (TypeInv /\ HeardFirst) /\ [Next]_vars => (TypeInv /\ HeardFirst)'
  <2>. SUFFICES ASSUME TypeInv, HeardFirst, [Next]_vars
                PROVE  HeardFirst'
    BY NextType
  <2>1. CASE TurnStep
    BY <2>1, TurnStepHeard
  <2>2. CASE \E t \in Turns : InterruptTask(t)
    BY <2>2, InterruptTaskHeard
  <2>3. CASE \/ (\E m \in {"voice", "text"} : Admit(m)) \/ Interrupt \/ Cancel \/ OwnerCancel
             \/ (\E shutdown \in BOOLEAN : Stop(shutdown)) \/ StopInterrupted \/ StopWaited
             \/ UNCHANGED vars
    <3>1. UNCHANGED <<heard, confirmed, said, history>>
      BY <2>3 DEF Admit, Interrupt, Cancel, OwnerCancel, Stop, StopInterrupted, StopWaited, vars,
                  audio, record
    <3>. QED  BY <3>1 DEF HeardFirst
  <2>. QED  BY <2>1, <2>2, <2>3 DEF Next, TurnTask
<1>3. TypeInv /\ HeardFirst => HistoryWasHeard
  BY DEF HeardFirst, HistoryWasHeard
<1>. QED  BY <1>1, <1>2, <1>3, PTL DEF Spec

-----------------------------------------------------------------------------
(* The history has its durable events                                      *)

(* A completed event stays in the log. *)
LEMMA CompletedStays ==
  ASSUME TypeOK, NEW u \in Turns, Has(u, "Completed"),
         \/ log' = log
         \/ \E t \in Turns, e \in {"Started", "Interrupted", "Completed", "Failed"} : Record(t, e)
  PROVE  Has(u, "Completed")'
BY SameLog, RecordedOccurs

LEMMA TurnStepDurable ==
  ASSUME LifecycleTyped, DurableInv, TurnStep, UNCHANGED ipc
  PROVE  DurableInv'
<1>. USE DEF LifecycleTyped, TypeInv
<1>1. /\ pc # "idle" /\ cur' = cur /\ lost' \in [Turns -> BOOLEAN]
      /\ \A t \in Turns : t # cur => state'[t] = state[t]
      /\ \A t \in Turns : lost[t] => lost'[t]
  <2>1. /\ pc # "idle" /\ cur' = cur
        /\ state' = state \/ \E s : SetState(cur, s)
        /\ lost' = lost \/ lost' = [lost EXCEPT ![cur] = TRUE]
    BY DEF TurnStep, StartPublished, StartRefused, StageRefused, StageCancelled, Transcribed,
           TranscriptPublished, Generated, NextPhrase, StreamEnds, NextChunk, PhraseEnds,
           ChunkPublished, StartPlay, StreamStarted, Written, WriteAborted, PlaybackPublished,
           OutputFinished, StageFails, ResponsePublished, CompletionPublished, CompletionRefused,
           HistoryCommitted, FailurePublished, CancelDelivered, CancelStartedTurn,
           At, StagePublishes, TurnPublishes, idleTask, notes, FailTurn, TryMove
  <2>. QED  BY <2>1 DEF SetState, TypeOK
<1>2. cur \in Turns
  BY <1>1 DEF TaskHasTurn
<1>3. \/ log' = log
      \/ \E e \in {"Started", "Interrupted", "Completed", "Failed"} : Record(cur, e)
  BY DEF TurnStep, StartPublished, StartRefused, StageRefused, StageCancelled, Transcribed,
         TranscriptPublished, Generated, NextPhrase, StreamEnds, NextChunk, PhraseEnds,
         ChunkPublished, StartPlay, StreamStarted, Written, WriteAborted, PlaybackPublished,
         OutputFinished, StageFails, ResponsePublished, CompletionPublished, CompletionRefused,
         HistoryCommitted, FailurePublished, CancelDelivered, CancelStartedTurn,
         At, Committed, Commit, notes
<1>4. \A u \in Turns : Has(u, "Completed") => Has(u, "Completed")'
  BY <1>2, <1>3, CompletedStays
<1>5. CASE HistoryCommitted
  <2>1. /\ pc' = "idle" /\ state' = state /\ pc = "commit"
        /\ \A t \in Turns : t # cur => history'[t] = history[t]
    BY <1>2, <1>5 DEF HistoryCommitted, Goto, TypeOK
  <2>2. ipc[cur] = "idle" /\ state[cur] = "completed"
    BY <2>1 DEF LifecycleInv, TaskClaim
  <2>3. Kept(cur)'
    <3>1. Has(cur, "Completed") \/ lost[cur]
      BY <2>1 DEF DurableInv
    <3>. QED  BY <1>1, <1>2, <1>4, <2>1, <2>2, <3>1 DEF Kept
  <2>4. \A t \in Turns : t # cur => (Kept(t) => Kept(t)')
    BY <1>1, <1>4, <2>1 DEF Kept
  <2>5. \A t \in Turns : t > cur => history'[t] = {}
    BY <1>2, <2>1 DEF DurableInv, Turns
  <2>6. \A t \in Turns : history'[t] # {} => Kept(t)'
    BY <1>1, <2>1, <2>3, <2>4 DEF DurableInv
  <2>. QED  BY <1>1, <2>1, <2>5, <2>6 DEF DurableInv
<1>6. CASE CompletionPublished
  <2>1. history' = history /\ pc' = "commit" /\ state' = state
    BY <1>6 DEF CompletionPublished, Goto, record
  <2>2. Has(cur, "Completed")' \/ lost'[cur]
    <3>1. CASE Record(cur, "Completed")
      BY <1>1, <1>2, <3>1, RecordedOccurs
    <3>2. CASE lost' = [lost EXCEPT ![cur] = TRUE]
      BY <1>2, <3>2 DEF TypeOK
    <3>. QED  BY <1>6, <3>1, <3>2 DEF CompletionPublished
  <2>3. \A t \in Turns : Kept(t) => Kept(t)'
    BY <1>1, <1>4, <2>1 DEF Kept
  <2>. QED  BY <1>1, <1>2, <1>4, <2>1, <2>2, <2>3 DEF DurableInv
<1>7. CASE ~HistoryCommitted /\ ~CompletionPublished
  <2>1. history' = history /\ pc' # "commit"
    BY <1>7
       DEF TurnStep, StartPublished, StartRefused, StageRefused, StageCancelled, Transcribed,
           TranscriptPublished, Generated, NextPhrase, StreamEnds, NextChunk, PhraseEnds,
           ChunkPublished, StartPlay, StreamStarted, Written, WriteAborted, PlaybackPublished,
           OutputFinished, StageFails, ResponsePublished, CompletionRefused, FailurePublished,
           CancelDelivered, CancelStartedTurn, FailTurn, Goto, record
  <2>2. \A t \in Turns : t # cur => (Kept(t) => Kept(t)')
    BY <1>1, <1>4 DEF Kept
  <2>3. history[cur] # {} => Kept(cur)'
    BY <1>1, <1>2, <1>4 DEF DurableInv, Kept
  <2>4. history[cur] = {} \/ Has(cur, "Completed")'
    BY <1>1, <1>2, <1>4 DEF DurableInv
  <2>. QED  BY <1>1, <1>2, <2>1, <2>2, <2>3, <2>4 DEF DurableInv
<1>. QED  BY <1>5, <1>6, <1>7

LEMMA InterruptTaskDurable ==
  ASSUME LifecycleTyped, DurableInv, NEW t \in Turns, InterruptTask(t)
  PROVE  DurableInv'
<1>. USE DEF LifecycleTyped, TypeInv
<1>1. /\ UNCHANGED <<cur, pc>> /\ ipc[t] # "idle"
      /\ log' = log \/ \E e \in {"Interrupted", "Completed", "Failed"} : Record(t, e)
      /\ lost' = lost \/ lost' = [lost EXCEPT ![t] = TRUE]
      /\ state' = state \/ \E s : SetState(t, s)
      /\ \E p : SetIpc(t, p)
      /\ \/ history' = history
         \/ history' = [history EXCEPT ![t] = said[t]] /\ Record(t, "Completed")
  BY DEF InterruptTask, StopAudio, ProvidersStopped, InterruptionPublished, Yielded,
         InterruptedCompletion, InterruptedFailure, FailInterrupted, notes, record
<1>2. \A u \in Turns : Has(u, "Completed") => Has(u, "Completed")'
  BY <1>1, CompletedStays
<1>3. \A u \in Turns : /\ u # t => state'[u] = state[u] /\ ipc'[u] = ipc[u] /\ history'[u] = history[u]
                       /\ lost[u] => lost'[u]
  BY <1>1 DEF SetState, SetIpc, TypeOK
<1>4. history'[t] = history[t] \/ Has(t, "Completed")'
  BY <1>1, RecordedOccurs
<1>5. history'[t] # {} => Has(t, "Completed")'
  BY <1>1, <1>2, <1>4 DEF DurableInv, Kept
<1>6. \A u \in Turns : u # t => (Kept(u) => Kept(u)')
  BY <1>2, <1>3 DEF Kept
<1>7. t > cur => history'[t] = {}
  <2>1. t > cur => ipc[t] = "idle"
    BY DEF LifecycleInv, TurnOrder
  <2>. QED  BY <1>1, <2>1
<1>8. pc # "idle" => history'[cur] = {} \/ Has(cur, "Completed")'
  BY <1>1, <1>2, <1>3, <1>5 DEF DurableInv, TaskHasTurn
<1>9. pc = "commit" => Has(cur, "Completed")' \/ lost'[cur]
  BY <1>1, <1>2, <1>3 DEF DurableInv, TaskHasTurn
<1>10. ASSUME NEW u \in Turns
       PROVE  (u > cur => history'[u] = {}) /\ (history'[u] # {} => Kept(u)')
  BY <1>3, <1>5, <1>6, <1>7 DEF DurableInv, Kept
<1>. QED  BY <1>1, <1>8, <1>9, <1>10 DEF DurableInv

LEMMA OthersDurable ==
  ASSUME LifecycleTyped, DurableInv,
         \/ (\E m \in {"voice", "text"} : Admit(m)) /\ UNCHANGED ipc
         \/ Interrupt \/ Cancel \/ OwnerCancel \/ (\E shutdown \in BOOLEAN : Stop(shutdown))
         \/ StopInterrupted \/ StopWaited \/ UNCHANGED vars
  PROVE  DurableInv'
<1>. USE DEF LifecycleTyped, TypeInv
<1>1. UNCHANGED <<log, lost, history>>
  BY DEF Admit, Interrupt, Cancel, OwnerCancel, Stop, StopInterrupted, StopWaited, vars, notes, record
<1>2. \A u \in Turns : Has(u, "Completed")' <=> Has(u, "Completed")
  BY <1>1, SameLog
<1>3. ASSUME NEW m \in {"voice", "text"}, Admit(m), UNCHANGED ipc  PROVE DurableInv'
  <2>1. /\ cur' = cur + 1 /\ pc' = "pubStarted" /\ cur \in Nat /\ cur' \in Turns
        /\ \A u \in Turns : state[u] = "completed" /\ u # cur' => state'[u] = "completed"
    BY <1>3 DEF Admit, Goto, Active, ActiveStates, TypeOK, Turns
  <2>2. history[cur'] = {}
    BY <2>1 DEF DurableInv, Turns
  <2>3. \A u \in Turns : u # cur' => (Kept(u) => Kept(u)')
    BY <1>1, <1>2, <1>3, <2>1 DEF Kept
  <2>4. \A u \in Turns : u > cur' => u > cur
    BY <2>1 DEF Turns
  <2>. QED  BY <1>1, <2>1, <2>2, <2>3, <2>4 DEF DurableInv
<1>4. ASSUME UNCHANGED <<cur, pc>>, Current /\ Accept(cur)  PROVE DurableInv'
  <2>1. /\ cur \in Turns /\ state[cur] # "completed"
        /\ \A u \in Turns : u # cur => state'[u] = state[u] /\ ipc'[u] = ipc[u]
    BY <1>4 DEF Current, Accept, SetState, SetIpc, Active, ActiveStates, TypeOK
  <2>2. \A u \in Turns : Kept(u) => Kept(u)'
    BY <1>1, <1>2, <2>1 DEF Kept
  <2>3. pc # "idle" => cur \in Turns
    BY DEF TaskHasTurn
  <2>. QED  BY <1>1, <1>2, <1>4, <2>2, <2>3 DEF DurableInv
<1>5. ASSUME UNCHANGED <<cur, pc, state, ipc>>  PROVE DurableInv'
  <2>1. \A u \in Turns : Kept(u) => Kept(u)'
    BY <1>1, <1>2, <1>5 DEF Kept
  <2>2. pc # "idle" => cur \in Turns
    BY DEF TaskHasTurn
  <2>. QED  BY <1>1, <1>2, <1>5, <2>1, <2>2 DEF DurableInv
<1>6. \/ UNCHANGED <<cur, pc, state, ipc>>
      \/ UNCHANGED <<cur, pc>> /\ Current /\ Accept(cur)
      \/ (\E m \in {"voice", "text"} : Admit(m)) /\ UNCHANGED ipc
  BY DEF Interrupt, Cancel, OwnerCancel, Stop, StopInterrupted, StopWaited, vars
<1>. QED  BY <1>3, <1>4, <1>5, <1>6

(* What is in the conversation history is on the ledger as a completed     *)
(* turn, or the publish of that event was cancelled twice; the history of  *)
(* a failed turn is empty, whoever settles the turn and in what order.     *)
THEOREM HistoryHasItsEvent == Spec => []HistoryIsDurable
<1>1. Init => DurableInv
  BY DEF Init, DurableInv
<1>2. LifecycleTyped /\ DurableInv /\ [Next]_vars => DurableInv'
  BY TurnStepDurable, InterruptTaskDurable, OthersDurable DEF Next, TurnTask
<1>3. LifecycleTyped /\ DurableInv => HistoryIsDurable
  <2>. SUFFICES ASSUME LifecycleTyped, DurableInv, NEW t \in Turns, history[t] # {},
                       ~Has(t, "Completed")
                PROVE  lost[t] /\ ~Has(t, "Failed")
    BY DEF HistoryIsDurable
  <2>1. lost[t] /\ state[t] = "completed"
    BY DEF DurableInv, Kept
  <2>2. Has(t, "Failed") => state[t] \in {"error", "cancelled"}
    BY DEF LifecycleTyped, LifecycleInv, TerminalMatchesState
  <2>. QED  BY <2>1, <2>2
<1>. QED  BY <1>1, <1>2, <1>3, LifecycleTypedAlways, PTL DEF Spec

-----------------------------------------------------------------------------
(* The voice mode of the desktop client: its microphone.                   *)

(* The lock of the voice mode has one holder, there is a microphone just   *)
(* while the mode is enabled, and an adopted one is captured only as it.   *)
MicInv ==
  /\ modePc \in [V!Calls -> {"idle", "lock", "opening", "closing", "joining", "done"}]
  /\ \A c \in V!Calls : modePc[c] \in {"opening", "closing", "joining"} => modeLock = c
  /\ \A c \in V!Calls : modePc[c] = "opening" => c \in Starts /\ modeMic = None
  /\ modeCapture \in [Starts -> {"none", "opening", "running", "ended"}]
  /\ modeMic \in Starts \cup {None} /\ modeEnabled \in BOOLEAN /\ (modeEnabled <=> modeMic # None)
  /\ modeAdopted \subseteq Starts
  /\ \A m \in modeAdopted :
       modePc[m] = "done" /\ modeCapture[m] # "opening" /\ (modeCapture[m] = "running" => modeMic = m)

LEMMA MicNext == V!CallsAssumption /\ MicInv /\ [V!Next]_V!vars => MicInv'
<1> SUFFICES ASSUME V!CallsAssumption, MicInv, [V!Next]_V!vars PROVE MicInv'
  OBVIOUS
<1>1. CASE UNCHANGED <<V!calls, modeCapture, modeEnabled, modeMic, modeAdopted>>
  BY <1>1 DEF MicInv, V!calls
<1>2. ASSUME NEW c \in V!Calls, V!CallIt(c) \/ V!Cancel(c) PROVE MicInv'
  BY <1>2 DEF MicInv, V!CallIt, V!Cancel, V!Goto, V!Calls, V!CallsAssumption, V!control
<1>3. ASSUME NEW c \in V!Calls, V!Open(c) PROVE MicInv'
  BY <1>3 DEF MicInv, V!Open, V!Goto, V!Calls, V!CallsAssumption
<1>4. ASSUME NEW c \in V!Calls, V!Adopt(c) PROVE MicInv'
  BY <1>4 DEF MicInv, V!Adopt, V!Goto, V!Return, V!Calls, V!CallsAssumption
<1>5. ASSUME NEW c \in V!Calls, V!OpenFails(c) PROVE MicInv'
  BY <1>5 DEF MicInv, V!OpenFails, V!Goto, V!Return, V!Calls, V!CallsAssumption
<1>6. ASSUME NEW c \in V!Calls, V!Close(c) PROVE MicInv'
  BY <1>6 DEF MicInv, V!Close, V!Goto, V!Calls, V!CallsAssumption
<1>7. ASSUME NEW c \in V!Calls, V!CancelResponse(c) \/ V!Closed(c) PROVE MicInv'
  BY <1>7 DEF MicInv, V!CancelResponse, V!Closed, V!Goto, V!Return, V!Calls, V!CallsAssumption, V!control
<1>8. ASSUME NEW m \in Starts, V!Device(m) PROVE MicInv'
  BY <1>8 DEF MicInv, V!Device, V!Calls, V!CallsAssumption, V!calls
<1>9. CASE \/ V!Say \/ V!Quiet \/ V!Take \/ V!Put \/ V!Collect \/ V!Expire \/ V!LoopStep
           \/ V!TextMoves \/ (\E i \in V!Replies : V!ReplyMoves(i)) \/ V!SendText \/ UNCHANGED V!vars
  <2>1. UNCHANGED <<V!calls, modeCapture, modeEnabled, modeMic, modeAdopted>>
    BY <1>9 DEF V!Say, V!Quiet, V!Take, V!Put, V!Collect, V!Expire, V!LoopStep, V!TextMoves,
       V!ReplyMoves, V!SendText, V!Hear, V!Discard, V!Respond, V!Responded, V!BargeIn, V!Interrupted,
       V!LoopEnds, V!control, V!vars
  <2>. QED  BY <1>1, <2>1
<1>. QED  BY <1>2, <1>3, <1>4, <1>5, <1>6, <1>7, <1>8, <1>9 DEF V!Next, V!SystemStep, V!World, V!CallStep

-----------------------------------------------------------------------------
(* The order in which the pieces of speech are said.                       *)
SaidBefore(p, q) == p.of < q.of \/ (p.of = q.of /\ p.part < q.part)
Said(p) == p.of <= modeSpoken /\ (p.of = modeSpoken /\ modePart # 0 => p.part <= modePart)
SpeechPieces == [of : Nat, part : Nat, mark : {"none", "start", "end"}]

Sorted(s) == \A i, j \in 1..Len(s) : i < j => SaidBefore(s[i], s[j])
AllBefore(s, u) == \A i \in 1..Len(s) : \A j \in 1..Len(u) : SaidBefore(s[i], u[j])
AllSaid(s) == s \in Seq(SpeechPieces) /\ \A i \in 1..Len(s) : Said(s[i])

(* What was said and not lost is, in this order, what was passed on, what  *)
(* is collected, queued, about to be put and not yet taken.                *)
OrderInv ==
  /\ modeSpoken \in Nat /\ modePart \in Nat
  /\ AllSaid(modeWindow) /\ AllSaid(modeQueue) /\ AllSaid(modePutting) /\ AllSaid(modeFrames)
  /\ Sorted(modeWindow) /\ Sorted(modeQueue) /\ Sorted(modePutting) /\ Sorted(modeFrames)
  /\ AllBefore(modeWindow, modeQueue) /\ AllBefore(modeWindow, modePutting)
  /\ AllBefore(modeWindow, modeFrames)
  /\ AllBefore(modeQueue, modePutting) /\ AllBefore(modeQueue, modeFrames)
  /\ AllBefore(modePutting, modeFrames)
  /\ modeReady => modeWindow # <<>>

(* ... and what was passed on is in order and before the rest.             *)
PassedInv ==
  /\ modePassed \in Seq(Seq(SpeechPieces))
  /\ \A k \in 1..Len(modePassed) :
       /\ AllSaid(modePassed[k]) /\ Sorted(modePassed[k]) /\ modePassed[k] # <<>>
       /\ AllBefore(modePassed[k], modeWindow) /\ AllBefore(modePassed[k], modeQueue)
       /\ AllBefore(modePassed[k], modePutting) /\ AllBefore(modePassed[k], modeFrames)
  /\ \A k, l \in 1..Len(modePassed) : k < l => AllBefore(modePassed[k], modePassed[l])

(* All of it may be forgotten.                                             *)
LEMMA NothingBelow == \A s : AllBefore(s, <<>>) /\ AllBefore(<<>>, s) /\ Sorted(<<>>) /\ AllSaid(<<>>)
BY DEF AllBefore, Sorted, AllSaid

SpeechState == <<modeSpoken, modePart, modeFrames, modePutting, modeQueue, modeWindow, modeReady,
                 modePassed>>

(* Two sequences in order, one below the other, are in order together.     *)
LEMMA JoinedInOrder ==
  ASSUME NEW s \in Seq(SpeechPieces), NEW u \in Seq(SpeechPieces)
  PROVE  /\ s \o u \in Seq(SpeechPieces)
         /\ \A i \in 1..Len(s \o u) :
              (\E j \in 1..Len(s) : (s \o u)[i] = s[j]) \/ (\E j \in 1..Len(u) : (s \o u)[i] = u[j])
         /\ AllSaid(s) /\ AllSaid(u) => AllSaid(s \o u)
         /\ Sorted(s) /\ Sorted(u) /\ AllBefore(s, u) => Sorted(s \o u)
         /\ \A v : AllBefore(v, s) /\ AllBefore(v, u) => AllBefore(v, s \o u)
         /\ \A v : AllBefore(s, v) /\ AllBefore(u, v) => AllBefore(s \o u, v)
<1>1. /\ s \o u \in Seq(SpeechPieces) /\ Len(s \o u) = Len(s) + Len(u) /\ Len(s) \in Nat /\ Len(u) \in Nat
      /\ \A i \in 1..Len(s \o u) :
           IF i <= Len(s) THEN (s \o u)[i] = s[i] /\ i \in 1..Len(s)
           ELSE (s \o u)[i] = u[i - Len(s)] /\ i - Len(s) \in 1..Len(u)
  OBVIOUS
<1>. DEFINE w == s \o u
<1>. HIDE DEF w
<1>2. AllSaid(s) /\ AllSaid(u) => AllSaid(w)
  BY <1>1 DEF AllSaid, w
<1>6. \A i \in 1..Len(w) : (\E j \in 1..Len(s) : w[i] = s[j]) \/ (\E j \in 1..Len(u) : w[i] = u[j])
  BY <1>1 DEF w
<1>3. Sorted(s) /\ Sorted(u) /\ AllBefore(s, u) => Sorted(w)
  <2> SUFFICES ASSUME Sorted(s), Sorted(u), AllBefore(s, u), NEW i \in 1..Len(w), NEW j \in 1..Len(w), i < j
               PROVE  SaidBefore(w[i], w[j])
    BY DEF Sorted
  <2>1. CASE j <= Len(s)
    BY <1>1, <2>1 DEF Sorted, w
  <2>2. CASE i <= Len(s) /\ ~(j <= Len(s))
    BY <1>1, <2>2 DEF AllBefore, w
  <2>3. CASE ~(i <= Len(s))
    <3>1. i - Len(s) < j - Len(s) /\ i - Len(s) \in 1..Len(u) /\ j - Len(s) \in 1..Len(u)
      BY <1>1, <2>3 DEF w
    <3>2. w[i] = u[i - Len(s)] /\ w[j] = u[j - Len(s)]
      BY <1>1, <2>3 DEF w
    <3>. QED  BY <3>1, <3>2 DEF Sorted
  <2>. QED  BY <1>1, <2>1, <2>2, <2>3 DEF w
<1>4. \A v : AllBefore(v, s) /\ AllBefore(v, u) => AllBefore(v, w)
  BY <1>1 DEF AllBefore, w
<1>5. \A v : AllBefore(s, v) /\ AllBefore(u, v) => AllBefore(w, v)
  BY <1>1 DEF AllBefore, w
<1>. QED  BY <1>1, <1>2, <1>3, <1>4, <1>5, <1>6 DEF w

(* The first of a sequence in order is below the rest.                     *)
LEMMA SplitInOrder ==
  ASSUME NEW s, AllSaid(s), s # <<>>
  PROVE  /\ AllSaid(Tail(s)) /\ AllSaid(<<s[1]>>) /\ Sorted(<<s[1]>>)
         /\ Sorted(s) => Sorted(Tail(s)) /\ AllBefore(<<s[1]>>, Tail(s))
         /\ \A v : AllBefore(v, s) => AllBefore(v, Tail(s)) /\ AllBefore(v, <<s[1]>>)
         /\ \A v : AllBefore(s, v) => AllBefore(Tail(s), v) /\ AllBefore(<<s[1]>>, v)
<1>. DEFINE u == Tail(s)
           f == <<s[1]>>
<1>1. /\ u \in Seq(SpeechPieces) /\ Len(u) = Len(s) - 1 /\ Len(s) \in Nat /\ Len(s) > 0
      /\ \A i \in 1..Len(u) : u[i] = s[i + 1] /\ i + 1 \in 1..Len(s)
      /\ f \in Seq(SpeechPieces) /\ Len(f) = 1 /\ f[1] = s[1]
  BY DEF AllSaid
<1>. HIDE DEF u, f
<1>2. AllSaid(u) /\ AllSaid(f) /\ Sorted(f)
  <2>1. \A i \in 1..Len(s) : Said(s[i])
    BY DEF AllSaid
  <2>2. AllSaid(u)
    BY <1>1, <2>1 DEF AllSaid
  <2>3. AllSaid(f)
    BY <1>1, <2>1 DEF AllSaid
  <2>. QED  BY <1>1, <2>2, <2>3 DEF Sorted
<1>3. ASSUME Sorted(s) PROVE Sorted(u) /\ AllBefore(f, u)
  <2>1. ASSUME NEW i \in 1..Len(u), NEW j \in 1..Len(u), i < j PROVE SaidBefore(u[i], u[j])
    <3>1. i + 1 \in 1..Len(s) /\ j + 1 \in 1..Len(s) /\ i + 1 < j + 1 /\ u[i] = s[i + 1] /\ u[j] = s[j + 1]
      BY <1>1, <2>1
    <3>. QED  BY <1>3, <3>1 DEF Sorted
  <2>2. ASSUME NEW j \in 1..Len(u) PROVE SaidBefore(f[1], u[j])
    <3>1. 1 \in 1..Len(s) /\ j + 1 \in 1..Len(s) /\ 1 < j + 1 /\ f[1] = s[1] /\ u[j] = s[j + 1]
      BY <1>1, <2>2
    <3>. QED  BY <1>3, <3>1 DEF Sorted
  <2>. QED  BY <1>1, <2>1, <2>2 DEF Sorted, AllBefore
<1>4. ASSUME NEW v, AllBefore(v, s) PROVE AllBefore(v, u) /\ AllBefore(v, f)
  <2>1. \A i \in 1..Len(v) : \A j \in 1..Len(s) : SaidBefore(v[i], s[j])
    BY <1>4 DEF AllBefore
  <2>2. AllBefore(v, u)
    BY <1>1, <2>1 DEF AllBefore
  <2>3. 1 \in 1..Len(s)
    BY <1>1
  <2>. QED  BY <1>1, <2>1, <2>2, <2>3 DEF AllBefore
<1>5. ASSUME NEW v, AllBefore(s, v) PROVE AllBefore(u, v) /\ AllBefore(f, v)
  <2>1. \A i \in 1..Len(s) : \A j \in 1..Len(v) : SaidBefore(s[i], v[j])
    BY <1>5 DEF AllBefore
  <2>2. AllBefore(u, v)
    BY <1>1, <2>1 DEF AllBefore
  <2>3. 1 \in 1..Len(s)
    BY <1>1
  <2>. QED  BY <1>1, <2>1, <2>2, <2>3 DEF AllBefore
<1>. QED  BY <1>2, <1>3, <1>4, <1>5 DEF u, f

(* The device delivers a frame, and the oldest one may give way.           *)
LEMMA SayOrder == OrderInv /\ PassedInv /\ V!Say => OrderInv' /\ PassedInv'
<1> SUFFICES ASSUME OrderInv, PassedInv, V!Say PROVE OrderInv' /\ PassedInv'
  OBVIOUS
<1>. DEFINE base == IF Len(modeFrames) = FrameSize THEN Tail(modeFrames) ELSE modeFrames
<1>0. /\ AllSaid(base) /\ Sorted(base)
      /\ \A v : AllBefore(v, modeFrames) => AllBefore(v, base)
  <2>1. CASE Len(modeFrames) = FrameSize
    <3>1. modeFrames # <<>>
      BY <2>1, VoiceAssumption DEF V!BoundsAssumption, OrderInv, AllSaid
    <3>2. /\ AllSaid(Tail(modeFrames)) /\ Sorted(Tail(modeFrames))
          /\ \A v : AllBefore(v, modeFrames) => AllBefore(v, Tail(modeFrames))
      BY <3>1, SplitInOrder DEF OrderInv
    <3>. QED  BY <2>1, <3>2
  <2>. QED  BY <2>1 DEF OrderInv
<1>1. PICK p \in SpeechPieces : p.of = modeSpoken' /\ p.part = modePart + 1 /\ modeFrames' = base \o <<p>>
  <2>. DEFINE new == [of |-> modeSpoken', part |-> modePart + 1, mark |-> "none"]
  <2>1. new \in SpeechPieces /\ new.of = modeSpoken' /\ new.part = modePart + 1
    BY DEF V!Say, OrderInv, SpeechPieces
  <2>2. modeFrames' = Append(base, new)
    BY DEF V!Say
  <2>3. base \in Seq(SpeechPieces)
    BY <1>0 DEF AllSaid
  <2>4. Append(base, new) = base \o <<new>>
    BY <2>1, <2>3
  <2>. QED  BY <2>1, <2>2, <2>4
<1>2. /\ modeSpoken \in Nat /\ modePart \in Nat
      /\ modeSpoken' = (IF modePart = 0 THEN modeSpoken + 1 ELSE modeSpoken)
      /\ modePart' = (IF modePart + 1 = Parts THEN 0 ELSE modePart + 1)
  BY DEF V!Say, OrderInv
<1>3. UNCHANGED <<modePutting, modeQueue, modeWindow, modeReady, modePassed>>
  BY DEF V!Say, V!capturing, V!listen, V!turns
<1>4. ASSUME NEW q \in SpeechPieces, Said(q) PROVE Said(q)' /\ SaidBefore(q, p)
  BY <1>1, <1>2, <1>4 DEF Said, SaidBefore, SpeechPieces
<1>5. Said(p)'
  BY <1>1, <1>2 DEF Said
<1>. HIDE DEF base
<1>7. \A s : AllSaid(s) => AllBefore(s, <<p>>) /\ AllSaid(s)'
  BY <1>4 DEF AllSaid, AllBefore
<1>8. AllSaid(<<p>>)' /\ Sorted(<<p>>)
  BY <1>5 DEF AllSaid, Sorted
<1>9. /\ AllSaid(modeFrames)' /\ Sorted(modeFrames')
      /\ \A v : AllSaid(v) /\ AllBefore(v, modeFrames) => AllBefore(v, modeFrames')
  <2>1. base \in Seq(SpeechPieces) /\ <<p>> \in Seq(SpeechPieces)
    BY <1>0 DEF AllSaid
  <2>2. /\ modeFrames' \in Seq(SpeechPieces)
        /\ \A i \in 1..Len(modeFrames') :
             (\E j \in 1..Len(base) : modeFrames'[i] = base[j])
               \/ (\E j \in 1..Len(<<p>>) : modeFrames'[i] = <<p>>[j])
    BY <1>1, <2>1, JoinedInOrder
  <2>3. ASSUME NEW i \in 1..Len(base), NEW b, b = base[i] PROVE Said(b)'
    <3>1. b \in SpeechPieces /\ Said(b)
      BY <1>0, <2>1, <2>3 DEF AllSaid
    <3>. QED  BY <1>4, <3>1
  <2>4. ASSUME NEW i \in 1..Len(modeFrames') PROVE Said(modeFrames[i])'
    <3>0. PICK b : b = modeFrames'[i]
      OBVIOUS
    <3>1. Said(b)'
      BY <1>5, <2>2, <2>3, <3>0
    <3>. QED  BY <3>0, <3>1 DEF Said
  <2>5. AllSaid(modeFrames)'
    BY <2>2, <2>4 DEF AllSaid
  <2>6. /\ Sorted(base \o <<p>>)
        /\ \A v : AllBefore(v, base) /\ AllBefore(v, <<p>>) => AllBefore(v, base \o <<p>>)
    BY <1>0, <1>7, <1>8, <2>1, JoinedInOrder
  <2>. QED  BY <1>1, <1>0, <1>7, <2>5, <2>6
<1>10. OrderInv'
  BY <1>2, <1>3, <1>7, <1>9 DEF OrderInv
<1>. QED  BY <1>3, <1>7, <1>9, <1>10 DEF PassedInv

(* The capture task takes a frame and makes at most one piece of it.       *)
LEMMA TakeOrder == OrderInv /\ PassedInv /\ V!Take => OrderInv' /\ PassedInv'
<1> SUFFICES ASSUME OrderInv, PassedInv, V!Take PROVE OrderInv' /\ PassedInv'
  OBVIOUS
<1>1. modeFrames # <<>> /\ modeFrames' = Tail(modeFrames) /\ modePutting = <<>> /\
      UNCHANGED <<modeSpoken, modePart, modeQueue, modeWindow, modeReady, modePassed>>
  BY DEF V!Take, V!listen, V!turns
<1>. DEFINE f == modeFrames[1]
<1>2. /\ AllSaid(modeFrames') /\ Sorted(modeFrames') /\ AllSaid(<<f>>) /\ AllBefore(<<f>>, modeFrames')
      /\ \A v : AllBefore(v, modeFrames) => AllBefore(v, modeFrames') /\ AllBefore(v, <<f>>)
  BY <1>1, SplitInOrder DEF OrderInv
<1>3. \A s : AllSaid(s) => AllSaid(s)'
  BY <1>1 DEF AllSaid, Said
<1>4. f \in SpeechPieces /\ f = Head(modeFrames)
  BY <1>1 DEF OrderInv, AllSaid
<1>5. CASE modePutting' = <<>>
  BY <1>1, <1>2, <1>3, <1>5, NothingBelow DEF OrderInv, PassedInv
<1>6. ASSUME NEW h \in SpeechPieces, h.of = f.of, h.part = f.part, modePutting' = <<h>>
      PROVE  OrderInv' /\ PassedInv'
  <2>1. \A q : (SaidBefore(q, f) <=> SaidBefore(q, h)) /\ (SaidBefore(f, q) <=> SaidBefore(h, q))
    BY <1>6 DEF SaidBefore
  <2>2. Said(f) => Said(h)
    BY <1>6 DEF Said
  <2>. HIDE DEF f
  <2>3. AllSaid(<<h>>) /\ Sorted(<<h>>)
    BY <1>2, <2>2 DEF AllSaid, Sorted
  <2>4. AllBefore(<<h>>, modeFrames')
    BY <1>2, <2>1 DEF AllBefore
  <2>5. \A v : AllBefore(v, modeFrames) => AllBefore(v, <<h>>)
    BY <1>2, <2>1 DEF AllBefore
  <2>. QED  BY <1>1, <1>2, <1>3, <1>6, <2>3, <2>4, <2>5 DEF OrderInv, PassedInv
<1>7. modePutting' = <<>> \/ \E h \in SpeechPieces : h.of = f.of /\ h.part = f.part /\ modePutting' = <<h>>
  <2>. DEFINE s == [f EXCEPT !.mark = "start"]
              e == [f EXCEPT !.mark = "end"]
  <2>. HIDE DEF f
  <2>1. s \in SpeechPieces /\ s.of = f.of /\ s.part = f.part /\ e \in SpeechPieces /\ e.of = f.of /\
        e.part = f.part
    BY <1>4 DEF SpeechPieces
  <2>2. modePutting' \in {<<>>, <<f>>, <<s>>, <<e>>}
    BY <1>1, <1>4 DEF V!Take, V!SpeechStarts, V!SpeechGoesOn, V!SpeechEnds, V!NothingNoticed, V!Heard
  <2>. QED  BY <1>4, <2>1, <2>2
<1>. QED  BY <1>5, <1>6, <1>7

LEMMA PutOrder == OrderInv /\ PassedInv /\ V!Put => OrderInv' /\ PassedInv'
<1> SUFFICES ASSUME OrderInv, PassedInv, V!Put PROVE OrderInv' /\ PassedInv'
  OBVIOUS
<1>. DEFINE first == <<modePutting[1]>>
<1>1. /\ modePutting # <<>> /\ modePutting' = Tail(modePutting) /\ modeQueue' = modeQueue \o first
      /\ UNCHANGED <<modeSpoken, modePart, modeFrames, modeWindow, modeReady, modePassed>>
  BY DEF V!Put, V!listen, V!turns, OrderInv, AllSaid
<1>2. /\ AllSaid(first) /\ Sorted(first) /\ AllBefore(first, modePutting')
      /\ AllSaid(modePutting') /\ Sorted(modePutting')
      /\ \A v : AllBefore(v, modePutting) => AllBefore(v, first) /\ AllBefore(v, modePutting')
      /\ \A v : AllBefore(modePutting, v) => AllBefore(first, v) /\ AllBefore(modePutting', v)
  BY <1>1, SplitInOrder DEF OrderInv
<1>. HIDE DEF first
<1>3. /\ AllSaid(modeQueue') /\ Sorted(modeQueue')
      /\ AllBefore(modeQueue', modePutting') /\ AllBefore(modeQueue', modeFrames)
      /\ \A v : AllBefore(v, modeQueue) /\ AllBefore(v, modePutting) => AllBefore(v, modeQueue')
  BY <1>1, <1>2, JoinedInOrder DEF OrderInv, AllSaid
<1>4. \A s : AllSaid(s) => AllSaid(s)'
  BY <1>1 DEF AllSaid, Said
<1>. QED  BY <1>1, <1>2, <1>3, <1>4 DEF OrderInv, PassedInv

LEMMA CollectOrder == OrderInv /\ PassedInv /\ V!Collect => OrderInv' /\ PassedInv'
<1> SUFFICES ASSUME OrderInv, PassedInv, V!Collect PROVE OrderInv' /\ PassedInv'
  OBVIOUS
<1>1. /\ modeQueue # <<>> /\ modeQueue' = Tail(modeQueue)
      /\ UNCHANGED <<modeSpoken, modePart, modeFrames, modePutting, modePassed>>
      /\ \A s : AllSaid(s) => AllSaid(s)'
  BY DEF V!Collect, V!capturing, V!turns, AllSaid, Said
<1>2. /\ AllSaid(modeQueue') /\ Sorted(modeQueue') /\ AllBefore(modeQueue', modePutting)
      /\ AllBefore(modeQueue', modeFrames)
      /\ \A v : AllBefore(v, modeQueue) => AllBefore(v, modeQueue')
  BY <1>1, SplitInOrder DEF OrderInv
<1>3. CASE modeQueue[1].mark = "end"
  <2>1. modeWindow' = modeWindow /\ (modeReady' => modeWindow' # <<>>)
    BY <1>3 DEF V!Collect
  <2>. QED  BY <1>1, <1>2, <2>1 DEF OrderInv, PassedInv
<1>4. CASE modeQueue[1].mark # "end"
  <2>. DEFINE first == <<modeQueue[1]>>
  <2>1. /\ modeWindow \in Seq(SpeechPieces) /\ modeQueue[1] \in SpeechPieces
        /\ modeWindow' = Append(modeWindow, modeQueue[1]) /\ modeReady' = modeReady
    BY <1>1, <1>4 DEF V!Collect, OrderInv, AllSaid
  <2>2. modeWindow' = modeWindow \o first /\ modeWindow' # <<>>
    BY <2>1
  <2>3. /\ AllSaid(first) /\ Sorted(first) /\ AllBefore(first, modeQueue') /\ AllBefore(first, modePutting)
        /\ AllBefore(first, modeFrames)
        /\ \A v : AllBefore(v, modeQueue) => AllBefore(v, first)
    BY <1>1, SplitInOrder DEF OrderInv
  <2>. HIDE DEF first
  <2>5. /\ AllSaid(modeWindow') /\ Sorted(modeWindow') /\ AllBefore(modeWindow', modeFrames)
        /\ AllBefore(modeWindow', modeQueue') /\ AllBefore(modeWindow', modePutting)
        /\ \A v : AllBefore(v, modeWindow) /\ AllBefore(v, modeQueue) => AllBefore(v, modeWindow')
    BY <1>2, <2>2, <2>3, JoinedInOrder DEF OrderInv, AllSaid
  <2>. QED  BY <1>1, <1>2, <2>2, <2>5 DEF OrderInv, PassedInv
<1>. QED  BY <1>3, <1>4

LEMMA HearOrder == OrderInv /\ PassedInv /\ V!Hear => OrderInv' /\ PassedInv'
<1> SUFFICES ASSUME OrderInv, PassedInv, V!Hear PROVE OrderInv' /\ PassedInv'
  OBVIOUS
<1>1. /\ modeReady /\ modePassed' = Append(modePassed, modeWindow) /\ modeWindow' = <<>>
      /\ modeReady' = FALSE
      /\ UNCHANGED <<modeSpoken, modePart, modeFrames, modePutting, modeQueue>>
      /\ \A s : AllSaid(s) => AllSaid(s)'
  BY DEF V!Hear, V!speech, V!capturing, AllSaid, Said
<1>2. OrderInv'
  BY <1>1, NothingBelow DEF OrderInv
<1>3. /\ modePassed' \in Seq(Seq(SpeechPieces)) /\ Len(modePassed') = Len(modePassed) + 1
      /\ Len(modePassed) \in Nat
      /\ modePassed'[Len(modePassed) + 1] = modeWindow
      /\ \A k \in 1..Len(modePassed) : modePassed'[k] = modePassed[k]
  BY <1>1 DEF PassedInv, OrderInv, AllSaid
<1>4. modeWindow # <<>> /\ AllSaid(modeWindow) /\ Sorted(modeWindow) /\
      AllBefore(modeWindow, modeFrames) /\ AllBefore(modeWindow, modeQueue) /\
      AllBefore(modeWindow, modePutting)
  BY <1>1 DEF OrderInv
<1>5. ASSUME NEW k \in 1..Len(modePassed')
      PROVE  (/\ AllSaid(modePassed[k]) /\ Sorted(modePassed[k])
              /\ modePassed[k] # <<>>
              /\ AllBefore(modePassed[k], modeWindow) /\ AllBefore(modePassed[k], modeQueue)
              /\ AllBefore(modePassed[k], modePutting) /\ AllBefore(modePassed[k], modeFrames))'
  <2>1. CASE k = Len(modePassed) + 1
    BY <1>1, <1>3, <1>4, <2>1, NothingBelow
  <2>2. CASE k \in 1..Len(modePassed)
    BY <1>1, <1>3, <2>2, NothingBelow DEF PassedInv
  <2>. QED  BY <1>3, <2>1, <2>2
<1>6. ASSUME NEW k \in 1..Len(modePassed'), NEW l \in 1..Len(modePassed'), k < l
      PROVE AllBefore(modePassed'[k], modePassed'[l])
  <2>0. k \in 1..Len(modePassed) /\ modePassed'[k] = modePassed[k]
    <3>1. k \in 1..(Len(modePassed) + 1) /\ l \in 1..(Len(modePassed) + 1) /\ k < l /\
          Len(modePassed) \in Nat
      BY <1>3, <1>6
    <3>2. k \in 1..Len(modePassed)
      BY <3>1
    <3>. QED  BY <1>3, <3>2
  <2>1. CASE l = Len(modePassed) + 1
    <3>1. AllBefore(modePassed[k], modeWindow)
      BY <2>0 DEF PassedInv
    <3>. QED  BY <1>3, <2>0, <2>1, <3>1
  <2>2. CASE l \in 1..Len(modePassed)
    <3>1. AllBefore(modePassed[k], modePassed[l])
      BY <1>6, <2>0, <2>2 DEF PassedInv
    <3>. QED  BY <1>3, <2>0, <2>2, <3>1
  <2>. QED  BY <1>3, <2>1, <2>2
<1>. QED  BY <1>1, <1>2, <1>3, <1>5, <1>6 DEF PassedInv

LEMMA ForgetWindow ==
  ASSUME OrderInv, PassedInv, modeWindow' = <<>>, modeReady' = FALSE,
         UNCHANGED <<modeSpoken, modePart, modeFrames, modePutting, modeQueue, modePassed>>
  PROVE  OrderInv' /\ PassedInv'
<1>1. \A s : AllSaid(s) => AllSaid(s)'
  BY DEF AllSaid, Said
<1>2. OrderInv'
  BY <1>1, NothingBelow DEF OrderInv
<1>. QED  BY <1>1, <1>2, NothingBelow DEF PassedInv

LEMMA OrderNext == OrderInv /\ PassedInv /\ [V!Next]_V!vars => OrderInv' /\ PassedInv'
<1> SUFFICES ASSUME OrderInv, PassedInv, [V!Next]_V!vars PROVE OrderInv' /\ PassedInv'
  OBVIOUS
<1>1. CASE V!Say \/ V!Take \/ V!Put \/ V!Collect \/ V!Hear
  BY <1>1, SayOrder, TakeOrder, PutOrder, CollectOrder, HearOrder
<1>2. CASE V!Expire
  BY <1>2 DEF V!Expire, V!speech, V!capturing, V!turns, OrderInv, PassedInv, AllSaid, Said
<1>3. ASSUME NEW c \in V!Calls, V!Adopt(c) PROVE OrderInv' /\ PassedInv'
  <2>1. /\ modePart' = 0 /\ modeFrames' = <<>> /\ modePutting' = <<>> /\ modeQueue' = <<>>
        /\ modeWindow' = <<>> /\ modeReady' = FALSE
        /\ UNCHANGED <<modeSpoken, modePassed>>
    BY <1>3 DEF V!Adopt, V!turns
  <2>2. \A s : AllSaid(s) => AllSaid(s)'
    BY <2>1 DEF AllSaid, Said
  <2>3. OrderInv'
    BY <2>1, NothingBelow DEF OrderInv, AllSaid
  <2>. QED  BY <2>1, <2>2, <2>3, NothingBelow DEF PassedInv
<1>4. CASE V!LoopEnds \/ V!Discard
  <2>1. modeWindow' = <<>> /\ modeReady' = FALSE /\
        UNCHANGED <<modeSpoken, modePart, modeFrames, modePutting, modeQueue, modePassed>>
    BY <1>4 DEF V!LoopEnds, V!Discard, V!speech, V!capturing, V!turns
  <2>. QED  BY <2>1, ForgetWindow
<1>5. CASE UNCHANGED SpeechState
  BY <1>5 DEF SpeechState, OrderInv, PassedInv, AllSaid, Said
<1>6. CASE \E c \in V!Calls : V!CallIt(c) \/ V!Cancel(c) \/ V!Open(c) \/ V!OpenFails(c) \/ V!Close(c) \/
              V!CancelResponse(c) \/ V!Closed(c)
  <2>1. UNCHANGED SpeechState
    BY <1>6 DEF V!CallIt, V!Cancel, V!Open, V!OpenFails, V!Close, V!CancelResponse, V!Closed, V!speech,
       V!capturing, V!listen, V!turns, SpeechState
  <2>. QED  BY <1>5, <2>1
<1>7. CASE \/ V!Quiet \/ V!Respond \/ V!Responded \/ V!BargeIn \/ V!Interrupted \/ V!TextMoves \/
                   (\E i \in V!Replies : V!ReplyMoves(i))
           \/ (\E m \in Starts : V!Device(m)) \/ V!SendText \/ UNCHANGED V!vars
  <2>1. UNCHANGED SpeechState
    BY <1>7 DEF V!Quiet, V!Respond, V!Responded, V!BargeIn, V!Interrupted, V!TextMoves, V!ReplyMoves,
       V!Device, V!SendText, V!vars,
       V!speech, V!capturing, V!listen, V!turns, SpeechState
  <2>. QED  BY <1>5, <2>1
<1>. QED  BY <1>1, <1>2, <1>3, <1>4, <1>6, <1>7 DEF V!Next, V!SystemStep, V!World, V!CallStep, V!LoopStep

LEMMA ModeInit == V!Init => OrderInv /\ PassedInv /\ MicInv
<1> SUFFICES ASSUME V!Init PROVE OrderInv /\ PassedInv /\ MicInv
  OBVIOUS
<1>1. OrderInv
  BY NothingBelow DEF V!Init, OrderInv
<1>2. PassedInv
  BY DEF V!Init, PassedInv
<1>3. MicInv
  BY DEF V!Init, MicInv
<1>. QED  BY <1>1, <1>2, <1>3

(* What is in order place by place is in order.                            *)
LEMMA OrderIsKept == PassedInv => PassedInOrder
<1> SUFFICES ASSUME PassedInv PROVE PassedInOrder
  OBVIOUS
<1>1. ASSUME NEW p \in SpeechPieces, NEW q \in SpeechPieces, SaidBefore(q, p)
      PROVE V!After(p, q)
  BY <1>1 DEF SaidBefore, V!After, SpeechPieces
<1>2. ASSUME NEW i \in 1..Len(modePassed), NEW j \in 2..Len(modePassed[i])
      PROVE V!After(modePassed[i][j], modePassed[i][j - 1])
  <2>1. modePassed[i] \in Seq(SpeechPieces) /\ Sorted(modePassed[i])
    BY DEF PassedInv, AllSaid
  <2>2. j - 1 \in 1..Len(modePassed[i]) /\ j \in 1..Len(modePassed[i]) /\ j - 1 < j
    BY <2>1
  <2>. QED  BY <1>1, <2>1, <2>2 DEF Sorted
<1>3. ASSUME NEW i \in 2..Len(modePassed)
      PROVE V!After(modePassed[i][1], modePassed[i - 1][Len(modePassed[i - 1])])
  <2>1. i \in 1..Len(modePassed) /\ i - 1 \in 1..Len(modePassed) /\ i - 1 < i
    BY DEF PassedInv
  <2>2. \A k \in {i - 1, i} : modePassed[k] \in Seq(SpeechPieces) /\ modePassed[k] # <<>>
    BY <2>1 DEF PassedInv, AllSaid
  <2>3. AllBefore(modePassed[i - 1], modePassed[i])
    BY <2>1 DEF PassedInv
  <2>4. 1 \in 1..Len(modePassed[i]) /\ Len(modePassed[i - 1]) \in 1..Len(modePassed[i - 1])
    BY <2>2
  <2>. QED  BY <1>1, <2>2, <2>3, <2>4 DEF AllBefore
<1>. QED  BY <1>2, <1>3 DEF PassedInOrder, V!PassedInOrder

(* The pipeline gets every piece of speech at most once and in the order   *)
(* in which it was said, although the loop collects the next utterance     *)
(* while it answers (desktop/voice.py, _run; audio/microphone.py).         *)
THEOREM SpeechInOrder == V!Spec => []PassedInOrder
BY ModeInit, OrderNext, OrderIsKept, PTL DEF V!Spec

(* Of the microphones that a start() returned with, only the one in use is *)
(* captured, and none is when the voice mode is off: stop() and the error  *)
(* paths released the others (desktop/voice.py, start, stop).              *)
THEOREM MicrophonesAreReleased == V!Spec => []AdoptedAreReleased
<1>1. MicInv /\ [V!Next]_V!vars => MicInv'
  BY MicNext, VoiceAssumption
<1>2. MicInv => AdoptedAreReleased
  BY VoiceAssumption DEF MicInv, AdoptedAreReleased, V!AdoptedAreReleased, V!CallsAssumption, V!Calls
<1>. QED  BY ModeInit, <1>1, <1>2, PTL DEF V!Spec
=============================================================================
