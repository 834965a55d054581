------------------------------ MODULE VoiceTurn ------------------------------
(***************************************************************************)
(* The real-time voice pipeline (services/voice_pipeline.py): the task     *)
(* that runs one admitted turn, the detached task that finishes an         *)
(* interruption, the callers that cancel or stop, the event bus they       *)
(* publish on and the audio device they share.                             *)
(*                                                                         *)
(* Everything runs on one asyncio loop, so code between two awaits is one  *)
(* action. `pc' names the await at which the turn task is suspended and    *)
(* `ipc[t]' the one at which the interruption task of turn t is. The turn  *)
(* lock admits one turn task at a time, so one `pc' is enough; an          *)
(* interruption task outlives its turn task, so there is one for each      *)
(* turn. Turns are numbered in the order _begin_turn creates them.         *)
(***************************************************************************)
EXTENDS Naturals, Sequences

CONSTANTS
  MaxTurns,     \* turns a behaviour may begin
  MaxItems,     \* phrases and TTS chunks a turn handles before its deadline
  MaxFaults     \* publishes the persistence handler may refuse

ASSUME BoundsAssumption == /\ MaxTurns \in Nat
                           /\ MaxItems \in Nat
                           /\ MaxFaults \in Nat

Turns == 1..MaxTurns
Items == 1..MaxItems

(* Publishers on the event bus: 0 is the turn task, t the interruption     *)
(* task of turn t.                                                         *)
Publishers == 0..MaxTurns

(* What a turn communicates is a set of pieces: audio pieces are numbered  *)
(* by Items, piece 0 is a text answer shown on the screen.                 *)
Pieces == 0..MaxItems

VARIABLES
  cur,          \* TurnManager._current_turn_id, 0 before the first turn
  state,        \* state[t]: TurnRecord.state, "none" before create_turn
  pc,           \* where the turn task of `cur' is suspended, "idle" without a task
  mode,         \* "voice": ASR, streaming and playback; "text": text in, text out
  items,        \* phrases and chunks handled in this turn
  cancels,      \* task.cancel() calls the turn task has yet to observe, at most 2
  ipc,          \* ipc[t]: where _finish_interruption(t) is suspended
  ahead,        \* ahead[p]: publishers queued before p on the bus's publish lock
  log,          \* log[t]: durable lifecycle events of turn t
  lost,         \* lost[t]: a terminal publish of t ended without becoming durable
  heard,        \* heard[t]: audio pieces written to the device to the end
  confirmed,    \* confirmed[t]: pieces AudioConfirmationProtocol counts as played
  said,         \* said[t]: companion_text of the completed event built for t
  history,      \* history[t]: companion_text committed for t, {} without an entry
  stream,       \* the output stream of SoundDeviceAudioOutput
  aborted,      \* its _interrupted flag
  closed,       \* VoicePipeline._closed
  spc,          \* where the caller of stop_session or shutdown is suspended
  victim,       \* the turn whose task that caller stops
  faults        \* publishes refused so far

audio   == <<heard, confirmed, stream, aborted>>
record  == <<said, history>>
stopper == <<closed, spc, victim>>
vars == <<cur, state, pc, mode, items, cancels, ipc, ahead, log, lost, audio,
          record, stopper, faults>>

-----------------------------------------------------------------------------
(* TurnManager                                                             *)

ActiveStates == {"started", "asr_processing", "llm_thinking",
                 "tts_synthesizing", "playing"}
TurnState == ActiveStates \cup {"completed", "interrupted", "error", "cancelled"}

Allowed(s) ==
  CASE s = "started"          -> {"asr_processing", "llm_thinking", "cancelled", "error"}
    [] s = "asr_processing"   -> {"llm_thinking", "cancelled", "error"}
    [] s = "llm_thinking"     -> {"tts_synthesizing", "interrupted", "cancelled", "error"}
    [] s = "tts_synthesizing" -> {"playing", "completed", "interrupted", "cancelled", "error"}
    [] s = "playing"          -> {"completed", "interrupted", "cancelled", "error"}
    [] s = "interrupted"      -> {"completed"}
    [] OTHER                  -> {}

Active(t) == state[t] \in ActiveStates

(* is_active of the current turn, FALSE when there is none *)
Current == cur \in Turns /\ Active(cur)

SetState(t, s) == state' = [state EXCEPT ![t] = s]

(* transition() whose result the caller ignores *)
TryMove(t, s) == IF s \in Allowed(state[t]) THEN SetState(t, s) ELSE UNCHANGED state

-----------------------------------------------------------------------------
(* EventBus.publish: an asyncio.Lock admits publishers in FIFO order; the  *)
(* one at the front either makes its event durable or is refused by the    *)
(* persistence handler. One cancellation waits for the publish and is      *)
(* raised after it; a second one cancels the publish itself.               *)

StagePublishes == {"pubStarted", "pubAsr", "pubLlm", "pubTts", "pubPlayed"}
TurnPublishes == StagePublishes \cup {"pubCompleted", "pubFailed"}
InterruptPublishes == {"pubInterrupted", "pubCompleted", "pubFailed"}

Publishing == {p \in Publishers : IF p = 0 THEN pc \in TurnPublishes
                                           ELSE ipc[p] \in InterruptPublishes}

(* Mutant: a publisher does not release the lock when it is done.          *)
LockKept(p, publishes) ==
  ahead' = [ahead EXCEPT ![p] = IF publishes THEN Publishing \ {p} ELSE {}]

(* After a step of p: its previous publish, if any, has left the queue, and *)
(* it waits behind every other publisher if it starts another one.          *)
Requeue(p, publishes) ==
  ahead' = [q \in Publishers |->
              IF q = p THEN IF publishes THEN Publishing \ {p} ELSE {}
                       ELSE ahead[q] \ {p}]

Record(t, e) == log' = [log EXCEPT ![t] = Append(@, e)]

(* The lifecycle event a stage publish of the turn task makes durable; the *)
(* ASR, LLM, TTS and playback events are not part of the lifecycle log.    *)
Commit(p) == IF p = "pubStarted" THEN Record(cur, "Started") ELSE UNCHANGED log

Committed == pc \in StagePublishes /\ ahead[0] = {} /\ Commit(pc)
Refused(p) == ahead[p] = {} /\ faults < MaxFaults /\ faults' = faults + 1
Dropped == cancels = 2

-----------------------------------------------------------------------------
Init ==
  /\ cur = 0
  /\ state = [t \in Turns |-> "none"]
  /\ pc = "idle"
  /\ mode = "voice"
  /\ items = 0
  /\ cancels = 0
  /\ ipc = [t \in Turns |-> "idle"]
  /\ ahead = [p \in Publishers |-> {}]
  /\ log = [t \in Turns |-> <<>>]
  /\ lost = [t \in Turns |-> FALSE]
  /\ heard = [t \in Turns |-> {}]
  /\ confirmed = [t \in Turns |-> {}]
  /\ said = [t \in Turns |-> {}]
  /\ history = [t \in Turns |-> {}]
  /\ stream = "closed"
  /\ aborted = FALSE
  /\ closed = FALSE
  /\ spc = "idle"
  /\ victim = 0
  /\ faults = 0

-----------------------------------------------------------------------------
(* The turn task. A step that observes no cancellation needs cancels = 0.  *)

Goto(p) == pc' = p
Calm == cancels = 0 /\ UNCHANGED cancels
At(p) == pc = p /\ Calm

idleTask == <<cur, mode>>
notes    == <<log, lost, faults>>

(* create_turn() silently interrupts a current turn that is still active.  *)
CreateTurn ==
  state' = [t \in Turns |-> IF t = cur + 1 THEN "started"
                            ELSE IF t = cur /\ Active(t) THEN "interrupted"
                            ELSE state[t]]

(* process_audio_input or process_text_input with the turn lock            *)
Admit(m) ==
  /\ pc = "idle" /\ cur < MaxTurns /\ ~closed
  /\ cur' = cur + 1
  /\ CreateTurn
  /\ mode' = m
  /\ items' = 0
  /\ cancels' = 0
  /\ Goto("pubStarted")
  /\ UNCHANGED <<notes, audio, record>>

(* _fail_turn up to its publish: an inactive turn is left alone and the    *)
(* handler that called it returns, which ends the task.                    *)
FailTurn ==
  IF Active(cur) THEN SetState(cur, "error") /\ Goto("pubFailed")
                 ELSE UNCHANGED state /\ Goto("idle")

StartPublished ==
  /\ At("pubStarted") /\ Committed
  /\ IF mode = "voice" THEN TryMove(cur, "asr_processing") /\ Goto("asr")
                       ELSE TryMove(cur, "llm_thinking") /\ Goto("llm")
  /\ UNCHANGED <<idleTask, items, lost, faults, audio, record>>

(* Nothing handles the exception of a refused start: the task ends and the *)
(* turn stays active.                                                      *)
StartRefused ==
  /\ pc = "pubStarted" /\ Refused(0)
  /\ Goto("idle") /\ cancels' = 0
  /\ UNCHANGED <<idleTask, state, items, log, lost, audio, record>>

(* An exception of a later publish replaces a pending cancellation.        *)
StageRefused ==
  /\ pc \in StagePublishes \ {"pubStarted"} /\ Refused(0)
  /\ FailTurn /\ cancels' = 0
  /\ UNCHANGED <<idleTask, items, log, lost, audio, record>>

StageCancelled ==
  /\ pc \in StagePublishes /\ cancels > 0
  /\ Committed \/ (Dropped /\ UNCHANGED log)
  /\ Goto("unwind") /\ cancels' = 0
  /\ UNCHANGED <<idleTask, state, items, lost, faults, audio, record>>

(* Recognition returns a transcript; the turn may have ended meanwhile.    *)
Transcribed ==
  /\ At("asr")
  /\ Goto(IF Current THEN "pubAsr" ELSE "idle")
  /\ UNCHANGED <<idleTask, state, items, notes, audio, record>>

TranscriptPublished ==
  /\ At("pubAsr") /\ Committed
  /\ TryMove(cur, "llm_thinking") /\ Goto("llm")
  /\ UNCHANGED <<idleTask, items, lost, faults, audio, record>>

(* The voice path has its stream and claims TTS_SYNTHESIZING; the text     *)
(* path has the whole response.                                            *)
Generated ==
  /\ At("llm")
  /\ TryMove(cur, "tts_synthesizing")
  /\ Goto(IF ~Current THEN "idle" ELSE IF mode = "voice" THEN "phrase" ELSE "pubLlm")
  /\ UNCHANGED <<idleTask, items, notes, audio, record>>

(* _stream_speech: the next stable phrase, or the end of the stream. Only  *)
(* an active turn drains the device, which gives up its stream first.      *)
NextPhrase ==
  /\ At("phrase") /\ items < MaxItems
  /\ items' = items + 1 /\ Goto("tts")
  /\ UNCHANGED <<idleTask, state, notes, audio, record>>

StreamEnds ==
  /\ At("phrase")
  /\ IF Current THEN stream' = "closed" /\ Goto("finish")
                ELSE UNCHANGED stream /\ Goto("idle")
  /\ UNCHANGED <<idleTask, state, items, notes, heard, confirmed, aborted, record>>

(* _speak_response: the next chunk of the phrase, or its end. Once the     *)
(* turn is inactive any chunk ends the phrase.                             *)
NextChunk ==
  /\ At("tts") /\ Current /\ items < MaxItems
  /\ items' = items + 1 /\ Goto("pubTts")
  /\ UNCHANGED <<idleTask, state, notes, audio, record>>

PhraseEnds ==
  /\ At("tts") /\ Goto("phrase")
  /\ UNCHANGED <<idleTask, state, items, notes, audio, record>>

ChunkPublished ==
  /\ At("pubTts") /\ Committed
  /\ IF Current THEN TryMove(cur, "playing") /\ Goto("avatar")
                ELSE UNCHANGED state /\ Goto("phrase")
  /\ UNCHANGED <<idleTask, items, lost, faults, audio, record>>

(* _update_avatar_speech returned: play() is called without another look   *)
(* at the turn. An open stream is reused, a new one has to be started.     *)
StartPlay ==
  /\ At("avatar")
  /\ IF stream = "open" THEN aborted' = FALSE /\ Goto("play") /\ UNCHANGED stream
                        ELSE stream' = "open" /\ Goto("opening") /\ UNCHANGED aborted
  /\ UNCHANGED <<idleTask, state, items, notes, heard, confirmed, record>>

(* _ensure_stream returned: stop() may have taken the stream away.         *)
StreamStarted ==
  /\ At("opening")
  /\ aborted' = FALSE
  /\ IF stream = "open" THEN Goto("play") /\ UNCHANGED state ELSE FailTurn
  /\ UNCHANGED <<idleTask, items, notes, heard, confirmed, stream, record>>

(* confirm_played() of the audio confirmation protocol                     *)
Confirm == confirmed' = [confirmed EXCEPT ![cur] = @ \cup {items}]

(* The device write of the current piece returned and is confirmed.        *)
Written ==
  /\ At("play")
  /\ heard' = [heard EXCEPT ![cur] = @ \cup {items}]
  /\ Confirm
  /\ Goto("pubPlayed")
  /\ UNCHANGED <<idleTask, state, items, notes, stream, aborted, record>>

(* Mutant: the aborted piece is confirmed at its full length.              *)
AbortedWriteConfirmed ==
  /\ At("play") /\ aborted
  /\ Confirm
  /\ Goto("pubPlayed")
  /\ UNCHANGED <<idleTask, state, items, notes, heard, stream, aborted, record>>

(* stop() aborted the write: it raised, and counts as zero milliseconds.   *)
WriteAborted ==
  /\ At("play") /\ aborted
  /\ Goto("pubPlayed")
  /\ UNCHANGED <<idleTask, state, items, notes, audio, record>>

PlaybackPublished ==
  /\ At("pubPlayed") /\ Committed
  /\ Goto(IF aborted THEN "phrase" ELSE "tts")
  /\ UNCHANGED <<idleTask, state, items, lost, faults, audio, record>>

(* _finish_audio_output drained the device.                                *)
OutputFinished ==
  /\ At("finish")
  /\ Goto(IF Current THEN "pubLlm" ELSE "idle")
  /\ UNCHANGED <<idleTask, state, items, notes, audio, record>>

(* The write thread is not stopped when its task is given up: the piece it *)
(* was writing may still be heard.                                         *)
WriteGivenUp ==
  /\ IF pc = "play" THEN \/ heard' = [heard EXCEPT ![cur] = @ \cup {items}]
                         \/ UNCHANGED heard
                    ELSE UNCHANGED heard
  /\ UNCHANGED <<confirmed, stream, aborted>>

(* A provider error or a timeout of the current stage.                     *)
StageFails ==
  /\ pc \in {"asr", "llm", "phrase", "tts", "opening", "play", "finish"} /\ Calm
  /\ FailTurn
  /\ WriteGivenUp
  /\ UNCHANGED <<idleTask, items, notes, record>>

(* get_played_text(): what turn t has been heard to say                    *)
Played(t) == confirmed[t]

(* What the turn communicates: what was played, or the text that is shown. *)
Communicated == IF mode = "voice" THEN Played(cur) ELSE {0}

(* COMPLETED is claimed and fixed before the completed event is published. *)
ClaimCompletion ==
  /\ SetState(cur, "completed") /\ said' = [said EXCEPT ![cur] = Communicated]
  /\ Goto("pubCompleted")

(* Mutant: the transition table alone guards the claim; it lets an         *)
(* interrupted turn complete.                                              *)
ResponseOfInterruptedTurn ==
  /\ At("pubLlm") /\ Committed
  /\ IF "completed" \in Allowed(state[cur]) /\ Communicated # {}
     THEN ClaimCompletion ELSE FailTurn /\ UNCHANGED said
  /\ UNCHANGED <<idleTask, items, lost, faults, audio, history>>

(* The response event is durable; a turn that said nothing fails.          *)
ResponsePublished ==
  /\ At("pubLlm") /\ Committed
  /\ IF Current /\ Communicated # {} THEN ClaimCompletion ELSE FailTurn /\ UNCHANGED said
  /\ UNCHANGED <<idleTask, items, lost, faults, audio, history>>

(* The completed event is durable, or its publish was cancelled twice; the *)
(* history is committed in either case.                                    *)
CompletionPublished ==
  /\ pc = "pubCompleted"
  /\ \/ ahead[0] = {} /\ Record(cur, "Completed") /\ UNCHANGED lost
     \/ Dropped /\ UNCHANGED log /\ lost' = [lost EXCEPT ![cur] = TRUE]
  /\ Goto("commit")
  /\ UNCHANGED <<idleTask, state, items, cancels, faults, audio, record>>

(* Mutant: the refused completion is logged and the history committed.     *)
CompletionRefusedCommits ==
  /\ pc = "pubCompleted" /\ Refused(0)
  /\ Goto("commit") /\ cancels' = 0
  /\ UNCHANGED <<idleTask, state, items, log, lost, audio, record>>

(* Mutant: the failure is published and the completion claim stays.        *)
CompletionClaimStays ==
  /\ pc = "pubCompleted" /\ Refused(0)
  /\ Goto("pubFailed") /\ cancels' = 0
  /\ UNCHANGED <<idleTask, state, items, log, lost, audio, record>>

(* allow_completed: the unpersisted completion claim is rolled back.       *)
CompletionRefused ==
  /\ pc = "pubCompleted" /\ Refused(0)
  /\ SetState(cur, "error") /\ Goto("pubFailed") /\ cancels' = 0
  /\ UNCHANGED <<idleTask, items, log, lost, audio, record>>

(* Only what was communicated becomes part of the history.                 *)
CommitHistory(t) == history' = [history EXCEPT ![t] = said[t]]

(* _commit_completed_turn, shielded from cancellation                      *)
HistoryCommitted ==
  /\ pc = "commit"
  /\ CommitHistory(cur)
  /\ Goto("idle") /\ cancels' = 0
  /\ UNCHANGED <<idleTask, state, items, notes, audio, said>>

(* The failed event: durable, refused, or cancelled twice.                 *)
FailurePublished ==
  /\ pc = "pubFailed"
  /\ \/ ahead[0] = {} /\ Record(cur, "Failed") /\ UNCHANGED <<lost, faults>>
     \/ Refused(0) /\ UNCHANGED log /\ lost' = [lost EXCEPT ![cur] = TRUE]
     \/ Dropped /\ UNCHANGED <<log, faults>> /\ lost' = [lost EXCEPT ![cur] = TRUE]
  /\ Goto("idle") /\ cancels' = 0
  /\ UNCHANGED <<idleTask, state, items, audio, record>>

(* CancelledError raised at an await outside publish; the finally blocks   *)
(* of the stage run next.                                                  *)
CancelDelivered ==
  /\ pc \notin TurnPublishes \cup {"idle", "commit", "unwind"} /\ cancels > 0
  /\ Goto("unwind") /\ cancels' = 0
  /\ WriteGivenUp
  /\ UNCHANGED <<idleTask, state, items, notes, record>>

(* Mutant: the cancellation is recorded for a turn that is not active.     *)
CancelAnyTurn ==
  /\ pc = "unwind" /\ cancels' = 0
  /\ SetState(cur, "cancelled") /\ Goto("pubFailed")
  /\ UNCHANGED <<idleTask, items, notes, audio, record>>

(* _cancel_started_turn up to its publish                                  *)
CancelStartedTurn ==
  /\ pc = "unwind" /\ cancels' = 0
  /\ IF Current THEN SetState(cur, "cancelled") /\ Goto("pubFailed")
                ELSE UNCHANGED state /\ Goto("idle")
  /\ UNCHANGED <<idleTask, items, notes, audio, record>>

TurnStep ==
  \/ StartPublished \/ StartRefused \/ StageRefused \/ StageCancelled
  \/ Transcribed \/ TranscriptPublished \/ Generated
  \/ NextPhrase \/ StreamEnds \/ NextChunk \/ PhraseEnds \/ ChunkPublished
  \/ StartPlay \/ StreamStarted \/ Written \/ WriteAborted
  \/ PlaybackPublished \/ OutputFinished \/ StageFails
  \/ ResponsePublished \/ CompletionPublished \/ CompletionRefused
  \/ HistoryCommitted \/ FailurePublished
  \/ CancelDelivered \/ CancelStartedTurn

TurnTask ==
  /\ TurnStep \/ (\E m \in {"voice", "text"} : Admit(m))
  /\ Requeue(0, pc' \in TurnPublishes)
  /\ UNCHANGED <<ipc, stopper>>

-----------------------------------------------------------------------------
(* interrupt() and the task it starts. The caller's await is shielded, so  *)
(* a cancelled caller does not stop the task.                              *)

SetIpc(t, p) == ipc' = [ipc EXCEPT ![t] = p]

Accept(t) == SetState(t, "interrupted") /\ SetIpc(t, "stopping")

Interrupt ==
  /\ Current /\ Accept(cur)
  /\ UNCHANGED <<cur, pc, mode, items, cancels, ahead, log, lost, audio, record,
                 stopper, faults>>

(* AudioOutput.stop(): nothing to do without a stream.                     *)
StopAudio(t) ==
  /\ ipc[t] = "stopping" /\ SetIpc(t, "silencing")
  /\ IF stream = "open" THEN stream' = "closed" /\ aborted' = TRUE
                        ELSE UNCHANGED <<stream, aborted>>
  /\ UNCHANGED <<state, notes, heard, confirmed, record>>

(* The provider cancellations finished, or exceeded the interrupt timeout. *)
ProvidersStopped(t) ==
  /\ ipc[t] = "silencing" /\ SetIpc(t, "pubInterrupted")
  /\ UNCHANGED <<state, notes, audio, record>>

(* _fail_turn with allow_interrupted or allow_completed                    *)
FailInterrupted(t) ==
  IF Active(t) \/ state[t] \in {"interrupted", "completed"}
  THEN SetState(t, "error") /\ SetIpc(t, "pubFailed")
  ELSE UNCHANGED state /\ SetIpc(t, "done")

(* Mutant: a refused interruption event is logged and forgotten.           *)
InterruptionForgotten(t) ==
  /\ ipc[t] = "pubInterrupted"
  /\ \/ ahead[t] = {} /\ Record(t, "Interrupted") /\ SetIpc(t, "yield") /\ UNCHANGED faults
     \/ Refused(t) /\ UNCHANGED log /\ SetIpc(t, "done")
  /\ UNCHANGED <<state, lost, audio, record>>

InterruptionPublished(t) ==
  /\ ipc[t] = "pubInterrupted"
  /\ \/ /\ ahead[t] = {} /\ Record(t, "Interrupted")
        /\ SetIpc(t, "yield") /\ UNCHANGED <<state, faults>>
     \/ Refused(t) /\ UNCHANGED log /\ FailInterrupted(t)
  /\ UNCHANGED <<lost, audio, record>>

(* After one scheduling turn: what is confirmed now is what the turn said. *)
Yielded(t) ==
  /\ ipc[t] = "yield"
  /\ IF Played(t) # {} /\ "completed" \in Allowed(state[t])
     THEN /\ SetState(t, "completed") /\ SetIpc(t, "pubCompleted")
          /\ said' = [said EXCEPT ![t] = Played(t)]
     ELSE FailInterrupted(t) /\ UNCHANGED said
  /\ UNCHANGED <<notes, audio, history>>

(* commit_interrupted_response follows the publish without an await.       *)
InterruptedCompletion(t) ==
  /\ ipc[t] = "pubCompleted"
  /\ \/ /\ ahead[t] = {} /\ Record(t, "Completed")
        /\ SetIpc(t, "done") /\ UNCHANGED <<state, faults>>
        /\ CommitHistory(t)
     \/ Refused(t) /\ UNCHANGED <<log, history>> /\ FailInterrupted(t)
  /\ UNCHANGED <<lost, audio, said>>

InterruptedFailure(t) ==
  /\ ipc[t] = "pubFailed" /\ SetIpc(t, "done")
  /\ \/ ahead[t] = {} /\ Record(t, "Failed") /\ UNCHANGED <<lost, faults>>
     \/ Refused(t) /\ UNCHANGED log /\ lost' = [lost EXCEPT ![t] = TRUE]
  /\ UNCHANGED <<state, audio, record>>

InterruptTask(t) ==
  /\ \/ StopAudio(t) \/ ProvidersStopped(t) \/ InterruptionPublished(t)
     \/ Yielded(t) \/ InterruptedCompletion(t) \/ InterruptedFailure(t)
  /\ Requeue(t, ipc'[t] \in InterruptPublishes)
  /\ UNCHANGED <<cur, pc, mode, items, cancels, stopper>>

-----------------------------------------------------------------------------
(* Cancelling and stopping                                                 *)

AddCancel == cancels' = IF cancels < 2 THEN cancels + 1 ELSE cancels

TaskLive(t) == pc # "idle" /\ cur = t

(* cancel(turn_id): only an active turn with a running task                *)
Cancel ==
  /\ pc # "idle" /\ Current /\ AddCancel
  /\ UNCHANGED <<cur, state, pc, mode, items, ipc, ahead, log, lost, audio,
                 record, stopper, faults>>

(* The owner of the turn task cancels it whatever the turn's state: the    *)
(* desktop host on its way out, the microphone loop when it is switched    *)
(* off while the turn has not left ASR.                                    *)
OwnerCancel ==
  /\ pc # "idle" /\ AddCancel
  /\ UNCHANGED <<cur, state, pc, mode, items, ipc, ahead, log, lost, audio,
                 record, stopper, faults>>

(* stop_session and shutdown: _stop_active_turn interrupts an active turn  *)
(* and waits for the interruption before it cancels the task.              *)
Stop(shutdown) ==
  /\ spc = "idle"
  /\ closed' = shutdown
  /\ victim' = cur
  /\ IF pc = "idle" THEN spc' = "done" /\ UNCHANGED <<state, ipc, cancels>>
     ELSE IF Current THEN spc' = "interrupting" /\ Accept(cur) /\ UNCHANGED cancels
     ELSE spc' = "waiting" /\ AddCancel /\ UNCHANGED <<state, ipc>>
  /\ UNCHANGED <<cur, pc, mode, items, ahead, log, lost, audio, record, faults>>

StopInterrupted ==
  /\ spc = "interrupting" /\ ipc[victim] = "done"
  /\ IF TaskLive(victim) THEN spc' = "waiting" /\ AddCancel
                         ELSE spc' = "done" /\ UNCHANGED cancels
  /\ UNCHANGED <<cur, state, pc, mode, items, ipc, ahead, log, lost, audio,
                 record, closed, victim, faults>>

(* wait_with_timeout: the task ended, or the cleanup timeout cancels it    *)
(* once more and gives up on it.                                           *)
StopWaited ==
  /\ spc = "waiting" /\ spc' = "done"
  /\ \/ TaskLive(victim) /\ AddCancel
     \/ ~TaskLive(victim) /\ UNCHANGED cancels
  /\ UNCHANGED <<cur, state, pc, mode, items, ipc, ahead, log, lost, audio,
                 record, closed, victim, faults>>

Next ==
  \/ TurnTask
  \/ \E t \in Turns : InterruptTask(t)
  \/ Interrupt \/ Cancel \/ OwnerCancel
  \/ \E shutdown \in BOOLEAN : Stop(shutdown)
  \/ StopInterrupted \/ StopWaited

(* Each await of the two tasks is bounded by a timeout or waits for a      *)
(* publish of the other, so both keep moving, and a stopping caller is     *)
(* resumed when what it awaits is over. Interruptions, cancellations and   *)
(* new turns may never come.                                               *)
RunningTurn == TurnStep /\ Requeue(0, pc' \in TurnPublishes) /\ UNCHANGED <<ipc, stopper>>
Fairness == /\ WF_vars(RunningTurn)
            /\ \A t \in Turns : WF_vars(InterruptTask(t))
            /\ WF_vars(StopInterrupted) /\ WF_vars(StopWaited)

Spec == Init /\ [][Next]_vars /\ Fairness
-----------------------------------------------------------------------------
(* Properties                                                              *)

TurnPc == TurnPublishes \cup {"idle", "asr", "llm", "phrase", "tts", "avatar", "opening",
                              "play", "finish", "commit", "unwind"}
InterruptPc == InterruptPublishes \cup {"idle", "stopping", "silencing", "yield", "done"}

(* Every variable has the values its comment says.                         *)
TypeOK ==
  /\ cur \in 0..MaxTurns
  /\ state \in [Turns -> TurnState \cup {"none"}]
  /\ pc \in TurnPc
  /\ mode \in {"voice", "text"}
  /\ items \in 0..MaxItems
  /\ cancels \in 0..2
  /\ ipc \in [Turns -> InterruptPc]
  /\ ahead \in [Publishers -> SUBSET Publishers]
  /\ log \in [Turns -> Seq({"Started", "Interrupted", "Completed", "Failed"})]
  /\ lost \in [Turns -> BOOLEAN]
  /\ heard \in [Turns -> SUBSET Pieces]
  /\ confirmed \in [Turns -> SUBSET Pieces]
  /\ said \in [Turns -> SUBSET Pieces]
  /\ history \in [Turns -> SUBSET Pieces]
  /\ stream \in {"open", "closed"}
  /\ aborted \in BOOLEAN
  /\ closed \in BOOLEAN
  /\ spc \in {"idle", "interrupting", "waiting", "done"}
  /\ victim \in 0..MaxTurns
  /\ faults \in 0..MaxFaults

Lifecycle == INSTANCE TurnLifecycle WITH Turns <- Turns, log <- log

Has(t, e) == Lifecycle!Occurs(log[t], e)
Ended(t)  == Has(t, "Completed") \/ Has(t, "Failed")

(* The pipeline implements the lifecycle of the event ledger: whatever the *)
(* interleaving of the turn task, its interruption, cancellations, stops   *)
(* and refused publishes, a turn records one start first and at most one   *)
(* terminal last.                                                          *)
ImplementsLifecycle == Lifecycle!Spec

(* A durable terminal and the in-memory state of its turn never disagree:  *)
(* the rollbacks of a refused completion leave no completed turn with a    *)
(* failed event, and nothing changes a settled turn.                       *)
TerminalMatchesState ==
  \A t \in Turns : /\ Has(t, "Completed") => state[t] = "completed"
                   /\ Has(t, "Failed") => state[t] \in {"error", "cancelled"}

(* The conversation history holds only audio that was written to the       *)
(* device to the end (or text that was shown), also for interrupted turns. *)
HistoryWasHeard == \A t \in Turns : history[t] \subseteq heard[t] \cup {0}

(* A history entry has its durable completed event, unless that publish    *)
(* was cancelled twice; a failed turn has none.                            *)
HistoryIsDurable ==
  \A t \in Turns : history[t] # {} => \/ Has(t, "Completed")
                                      \/ lost[t] /\ ~Has(t, "Failed")

(* Once an interruption is accepted the turn task cannot settle the turn:  *)
(* only the interruption task takes the turn out of that state.            *)
InterruptionOwnsTurn ==
  [][\A t \in Turns : state[t] = "interrupted" /\ state'[t] # "interrupted"
                        => ipc'[t] # ipc[t]]_vars

(* Every started turn ends with a durable terminal event, unless the       *)
(* publish of the terminal itself was refused or cancelled twice.          *)
StartedTurnsEnd ==
  \A t \in Turns : Has(t, "Started") ~> Ended(t) \/ lost[t]

(* A shut-down pipeline comes to rest: its caller gets an answer, the turn *)
(* task ends and no other starts, also when the task does not stop within  *)
(* the cleanup timeout or ends at a publish behind the interruption's.     *)
ShutdownComesToRest == closed ~> [](pc = "idle" /\ spc = "done")

-----------------------------------------------------------------------------
(* The inductive strengthening behind the safety properties.               *)

(* Turns not begun yet are untouched, and no turn but the current one is   *)
(* active.                                                                 *)
TurnOrder ==
  /\ pc # "idle" => cur \in Turns
  /\ \A t \in Turns : /\ Active(t) => t = cur
                      /\ t > cur => state[t] = "none" /\ ipc[t] = "idle" /\ log[t] = <<>>

(* The start is the first event: an interruption that arrives while it is  *)
(* being published queues behind it. Past that point it is durable.        *)
StartFirst ==
  /\ pc = "pubStarted" =>
       /\ log[cur] = <<>>
       /\ ipc[cur] \in {"idle", "stopping", "silencing", "pubInterrupted"}
       /\ ipc[cur] = "pubInterrupted" => 0 \in ahead[cur]
  /\ pc \notin {"idle", "pubStarted", "unwind", "pubFailed"} => Has(cur, "Started")
  /\ \A t \in Turns : confirmed[t] # {} => Has(t, "Started")

(* The turn task publishes a terminal only under a claim of its own, and   *)
(* never for a turn that was interrupted.                                  *)
TaskClaim ==
  pc \in {"pubCompleted", "pubFailed", "commit"} =>
    /\ ipc[cur] = "idle"
    /\ pc # "pubFailed" => state[cur] = "completed"
    /\ pc = "pubCompleted" => ~Ended(cur)
    /\ pc = "pubFailed" => state[cur] \in {"error", "cancelled"} /\ ~Ended(cur)

(* The same for the interruption task.                                     *)
InterruptClaim ==
  \A t \in Turns :
    /\ Active(t) => ipc[t] = "idle"
    /\ ipc[t] \in {"idle", "stopping", "silencing", "pubInterrupted"} => ~Has(t, "Interrupted")
    /\ ipc[t] \in {"stopping", "silencing", "pubInterrupted", "yield"} => state[t] = "interrupted"
    /\ ipc[t] = "pubCompleted" => state[t] = "completed" /\ ~Ended(t) /\ Has(t, "Started")
    /\ ipc[t] = "pubFailed" => state[t] = "error" /\ ~Ended(t)

(* What is claimed as said was confirmed, and what is confirmed was heard. *)
HeardFirst ==
  \A t \in Turns : /\ confirmed[t] \subseteq heard[t]
                   /\ said[t] \subseteq heard[t] \cup {0}
                   /\ history[t] \subseteq heard[t] \cup {0}

(* An entry whose completed event was lost belongs to a turn that nobody   *)
(* settles again, and only the task of the current turn still writes one.  *)
Kept(t) == Has(t, "Completed") \/ (lost[t] /\ state[t] = "completed" /\ ipc[t] = "idle")

DurableInv ==
  /\ pc # "idle" => history[cur] = {} \/ Has(cur, "Completed")
  /\ pc = "commit" => Has(cur, "Completed") \/ lost[cur]
  /\ \A t \in Turns : /\ t > cur => history[t] = {}
                      /\ history[t] # {} => Kept(t)

LifecycleInv == /\ TurnOrder /\ StartFirst /\ TaskClaim /\ InterruptClaim
                /\ TerminalMatchesState
=============================================================================
