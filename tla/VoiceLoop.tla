------------------------------ MODULE VoiceLoop ------------------------------
(***************************************************************************)
(* The continuous voice mode of the desktop client: the controller that    *)
(* opens and closes the microphone and runs the voice loop                 *)
(* (desktop/voice.py), the device's frames, the capture task with its      *)
(* detector, speech queue and speech-start edges (audio/microphone.py,     *)
(* audio/vad.py), and of the voice pipeline which turn is active.          *)
(*                                                                         *)
(* Calls of start() are also the names of the microphones they make. An    *)
(* utterance is its number; its audio comes in Parts frames, of which the  *)
(* last one is the silence after it.                                       *)
(***************************************************************************)
EXTENDS Naturals, Sequences

CONSTANTS
  Starts, Stops,  \* calls of start() and stop()
  None,
  MaxSpoken,      \* bound on utterances
  Parts,          \* frames of an utterance
  FrameSize,      \* size of the queue of frames
  QueueSize       \* size of the speech queue

Calls == Starts \cup Stops

CallsAssumption == Starts \cap Stops = {} /\ None \notin Calls
BoundsAssumption ==
  MaxSpoken \in Nat /\ Parts \in Nat \ {0} /\ FrameSize \in Nat \ {0} /\ QueueSize \in Nat \ {0}

VARIABLES
  pc,         \* pc[c]: where call c is
  lock,       \* _lock
  capture,    \* capture[m]: the capture task of microphone m
  enabled,    \* _enabled
  mic,        \* _microphone
  adopted,    \* microphones that start() returned with
  told,       \* the last state told: on, off, or error
  loop,       \* where _run is
  cancelled,  \* _run was cancelled
  spoken,     \* utterances begun
  part,       \* the last frame of the last one, 0: it is over
  frames,     \* _audio_queue
  vad,        \* _state of the detector
  putting,    \* what the capture task waits to put
  queue,      \* _speech_queue
  edges,      \* _speech_start_sequence
  seen,       \* speech_sequence
  window,     \* what get_speech_audio has collected
  ready,      \* ... and whether it has returned
  passed,     \* what _run took for the pipeline
  response,   \* _response_task: the index in passed, or 0
  reply,      \* reply[i]: the turn of passed[i]
  text        \* the text turn of another owner

calls    == <<pc, lock>>
control  == <<capture, enabled, mic, adopted, told>>
capturing == <<vad, putting, edges>>
speech   == <<spoken, part, frames, capturing, queue>>
listen   == <<seen, window, ready>>
turns    == <<passed, response, reply, text>>
vars == <<calls, control, loop, cancelled, speech, listen, turns>>

Replies == 1..(Parts * MaxSpoken)
Idle == {"none", "queued", "done"}

-----------------------------------------------------------------------------
Init ==
  /\ pc = [c \in Calls |-> "idle"] /\ lock = None
  /\ capture = [m \in Starts |-> "none"]
  /\ enabled = FALSE /\ mic = None /\ adopted = {} /\ told = "off"
  /\ loop = "none" /\ cancelled = FALSE
  /\ spoken = 0 /\ part = 0 /\ frames = <<>> /\ queue = <<>>
  /\ vad = "silence" /\ putting = <<>> /\ edges = 0
  /\ seen = 0 /\ window = <<>> /\ ready = FALSE
  /\ passed = <<>> /\ response = 0 /\ reply = [i \in Replies |-> "none"] /\ text = "none"

Goto(c, where) == pc' = [pc EXCEPT ![c] = where]
Return(c) == Goto(c, "done") /\ lock' = None

(* start() and stop() are called; the lock is fair.                        *)
CallIt(c) ==
  /\ pc[c] = "idle" /\ Goto(c, "lock")
  /\ UNCHANGED <<lock, control, loop, cancelled, speech, listen, turns>>

(* start(): a second one returns; the microphone is opened by its capture  *)
(* task while start() waits.                                               *)
Open(c) ==
  /\ c \in Starts /\ pc[c] = "lock" /\ lock = None
  /\ IF enabled THEN Goto(c, "done") /\ UNCHANGED <<lock, capture>>
     ELSE Goto(c, "opening") /\ lock' = c /\ capture' = [capture EXCEPT ![c] = "opening"]
  /\ UNCHANGED <<enabled, mic, adopted, told, loop, cancelled, speech, listen, turns>>

(* The device opens, or raises; a running capture may end by an error.     *)
Device(m) ==
  /\ capture[m] \in {"opening", "running"}
  /\ \E how \in {"running", "ended"} \ {capture[m]} :
       capture' = [capture EXCEPT ![m] = how]
  /\ UNCHANGED <<calls, enabled, mic, adopted, told, loop, cancelled, speech, listen, turns>>

(* The microphone is adopted with fresh queues, and the loop started.      *)
Adopt(c) ==
  /\ pc[c] = "opening" /\ capture[c] = "running"
  /\ mic' = c /\ enabled' = TRUE /\ adopted' = adopted \cup {c} /\ told' = "on"
  /\ loop' = "listen" /\ cancelled' = FALSE
  /\ part' = 0 /\ frames' = <<>> /\ queue' = <<>>
  /\ vad' = "silence" /\ putting' = <<>> /\ edges' = 0
  /\ seen' = 0 /\ window' = <<>> /\ ready' = FALSE
  /\ Return(c)
  /\ UNCHANGED <<capture, spoken, turns>>

(* The device raised, or did not open in time and is closed.               *)
OpenFails(c) ==
  /\ pc[c] = "opening" /\ capture[c] # "running"
  /\ capture' = [capture EXCEPT ![c] = "ended"] /\ told' = "error"
  /\ Return(c)
  /\ UNCHANGED <<enabled, mic, adopted, loop, cancelled, speech, listen, turns>>

(* The request of start() is cancelled, by its own deadline or because the *)
(* client is gone. MicrophoneCapture.start() undoes nothing: its handlers  *)
(* are for TimeoutError and Exception.                                     *)
Cancel(c) ==
  /\ c \in Starts /\ pc[c] \in {"lock", "opening"}
  /\ Goto(c, "done") /\ lock' = IF lock = c THEN None ELSE lock
  /\ UNCHANGED <<control, loop, cancelled, speech, listen, turns>>

-----------------------------------------------------------------------------
(* Mutant: the microphone is forgotten without being stopped.              *)
CloseForgets(c) ==
  /\ c \in Stops /\ pc[c] = "lock" /\ lock = None /\ lock' = c
  /\ enabled' = FALSE /\ mic' = None
  /\ cancelled' = TRUE
  /\ Goto(c, "closing")
  /\ UNCHANGED <<capture, adopted, told, loop, speech, listen, turns>>

(* stop(): the loop is cancelled, the microphone stopped; ...              *)
Close(c) ==
  /\ c \in Stops /\ pc[c] = "lock" /\ lock = None /\ lock' = c
  /\ enabled' = FALSE /\ mic' = None
  /\ cancelled' = TRUE
  /\ capture' = [m \in Starts |-> IF m = mic THEN "ended" ELSE capture[m]]
  /\ Goto(c, "closing")
  /\ UNCHANGED <<adopted, told, loop, speech, listen, turns>>

(* ... a response is cancelled while the pipeline's active turn, whoever's *)
(* it is, has not got to its answer; ...                                   *)
Early == text = "early" \/ \E i \in Replies : reply[i] = "early"

CancelResponse(c) ==
  /\ pc[c] = "closing" /\ Goto(c, "joining")
  /\ reply' = IF Early /\ response # 0 /\ reply[response] \in {"queued", "early"}
              THEN [reply EXCEPT ![response] = "done"] ELSE reply
  /\ UNCHANGED <<lock, control, loop, cancelled, speech, listen, passed, response, text>>

(* ... and the loop has ended before the state is told.                    *)
Closed(c) ==
  /\ pc[c] = "joining" /\ loop = "none"
  /\ told' = "off"
  /\ Return(c)
  /\ UNCHANGED <<capture, enabled, mic, adopted, loop, cancelled, speech, listen, turns>>

-----------------------------------------------------------------------------
(* The device delivers what is said, whatever the capture task does: when  *)
(* the queue of frames is full the oldest one gives way.                   *)
Capturing == mic # None /\ capture[mic] = "running"

Say ==
  /\ Capturing /\ (part # 0 \/ spoken < MaxSpoken)
  /\ part' = IF part + 1 = Parts THEN 0 ELSE part + 1
  /\ spoken' = IF part = 0 THEN spoken + 1 ELSE spoken
  /\ frames' = Append(IF Len(frames) = FrameSize THEN Tail(frames) ELSE frames,
                      [of |-> spoken', part |-> part + 1, mark |-> "none"])
  /\ UNCHANGED <<calls, control, loop, cancelled, capturing, queue, listen, turns>>

(* The capture task takes a frame unless it waits to put a piece. In       *)
(* silence speech is noticed, or is too short; its piece is the pre-roll,  *)
(* which ends with this frame. Speech is put as it is until it ends, by    *)
(* silence or by its maximal length; then a time passes in which nothing   *)
(* is noticed.                                                             *)
Heard(f, mark) == [f EXCEPT !.mark = mark]

SpeechStarts(f) ==
  /\ vad = "silence" /\ f.part # Parts
  /\ vad' = "speech" /\ edges' = edges + 1 /\ putting' = <<Heard(f, "start")>>

SpeechGoesOn(f) ==
  /\ vad = "speech"
  /\ putting' = <<f>>
  /\ UNCHANGED <<vad, edges>>

SpeechEnds(f) ==
  /\ vad = "speech"
  /\ vad' = "cooldown" /\ putting' = <<Heard(f, "end")>>
  /\ UNCHANGED edges

NothingNoticed ==
  /\ vad # "speech"
  /\ vad' \in {vad, "silence"}
  /\ UNCHANGED <<putting, edges>>

Take ==
  /\ Capturing /\ putting = <<>> /\ frames # <<>>
  /\ frames' = Tail(frames)
  /\ LET f == Head(frames)
     IN SpeechStarts(f) \/ SpeechGoesOn(f) \/ SpeechEnds(f) \/ NothingNoticed
  /\ UNCHANGED <<calls, control, loop, cancelled, spoken, part, queue, listen, turns>>

(* A frame of the silence between utterances, in which nothing is said.    *)
Quiet ==
  /\ Capturing /\ putting = <<>> /\ frames = <<>>
  /\ vad = "cooldown" /\ vad' = "silence"
  /\ UNCHANGED <<calls, control, loop, cancelled, spoken, part, frames, putting, queue, edges,
                 listen, turns>>


(* It waits for room in the speech queue.                                  *)
Put ==
  /\ Capturing /\ putting # <<>> /\ Len(queue) < QueueSize
  /\ queue' = Append(queue, Head(putting)) /\ putting' = Tail(putting)
  /\ UNCHANGED <<calls, control, loop, cancelled, spoken, part, frames, vad, edges, listen, turns>>

(* get_speech_audio: the end marker, after speech, ends the wait; ...      *)
Collect ==
  /\ loop # "none" /\ ~cancelled /\ ~ready /\ queue # <<>>
  /\ queue' = Tail(queue)
  /\ IF queue[1].mark = "end" THEN ready' = (window # <<>>) /\ UNCHANGED window
     ELSE window' = Append(window, queue[1]) /\ UNCHANGED ready
  /\ UNCHANGED <<calls, control, loop, cancelled, spoken, part, frames, capturing, seen, turns>>

(* ... so does the end of its 30 s, in the middle of an utterance, or half *)
(* a second in which nothing was put.                                      *)
Expire ==
  /\ loop # "none" /\ ~cancelled /\ ~ready /\ window # <<>>
  /\ ready' = TRUE
  /\ UNCHANGED <<calls, control, loop, cancelled, speech, seen, window, turns>>

-----------------------------------------------------------------------------
(* Mutant: the next wait goes on with the same pieces.                     *)
HearAgain ==
  /\ loop = "listen" /\ ~cancelled /\ ready
  /\ ready' = FALSE
  /\ passed' = Append(passed, window)
  /\ loop' = "processing" /\ told' = "on"
  /\ UNCHANGED <<calls, capture, enabled, mic, adopted, cancelled, speech, seen, window,
                 response, reply, text>>

(* _run. It waits for an utterance while it has no response, and goes on   *)
(* to listen for the next one at once.                                     *)
Hear ==
  /\ loop = "listen" /\ ~cancelled /\ ready
  /\ ready' = FALSE /\ window' = <<>>
  /\ passed' = Append(passed, window)
  /\ loop' = "processing" /\ told' = "on"
  /\ UNCHANGED <<calls, capture, enabled, mic, adopted, cancelled, speech, seen, response,
                 reply, text>>

(* Less than 100 ms are thrown away. A start piece is longer.              *)
Discard ==
  /\ loop = "listen" /\ ~cancelled /\ ready
  /\ \A i \in 1..Len(window) : window[i].mark # "start"
  /\ ready' = FALSE /\ window' = <<>>
  /\ UNCHANGED <<calls, control, loop, cancelled, speech, seen, turns>>

(* Edges up to here, also those while the state was told, do not interrupt *)
(* the response.                                                           *)
Respond ==
  /\ loop = "processing" /\ ~cancelled
  /\ response' = Len(passed)
  /\ reply' = [reply EXCEPT ![Len(passed)] = "queued"]
  /\ seen' = edges /\ loop' = "respond"
  /\ UNCHANGED <<calls, control, cancelled, speech, window, ready, passed, text>>

Responded ==
  /\ loop = "respond" /\ ~cancelled /\ reply[response] = "done"
  /\ response' = 0 /\ loop' = "listen" /\ told' = "on"
  /\ UNCHANGED <<calls, capture, enabled, mic, adopted, cancelled, speech, listen, passed,
                 reply, text>>

(* Speech during the response: interrupt() ends the pipeline's active      *)
(* turn, whoever's it is, and the loop waits for that.                     *)
BargeIn ==
  /\ loop = "respond" /\ ~cancelled /\ edges > seen
  /\ seen' = edges
  /\ text' = IF text \in Idle THEN text ELSE "stopping"
  /\ reply' = [i \in Replies |-> IF reply[i] \in Idle THEN reply[i] ELSE "stopping"]
  /\ loop' = "interrupting"
  /\ UNCHANGED <<calls, control, cancelled, speech, window, ready, passed, response>>

Interrupted ==
  /\ loop = "interrupting" /\ text # "stopping"
  /\ \A i \in Replies : reply[i] # "stopping"
  /\ loop' = "respond"
  /\ UNCHANGED <<calls, control, cancelled, speech, listen, turns>>

(* An interruption that is under way is awaited; the response goes on.     *)
LoopEnds ==
  /\ loop # "none" /\ cancelled
  /\ loop = "interrupting" =>
       text # "stopping" /\ \A i \in Replies : reply[i] # "stopping"
  /\ loop' = "none" /\ window' = <<>> /\ ready' = FALSE
  /\ UNCHANGED <<calls, control, cancelled, speech, seen, turns>>

-----------------------------------------------------------------------------
(* The pipeline: one turn at a time, and each one ends.                    *)
TurnLockFree == text \in Idle /\ \A i \in Replies : reply[i] \in Idle

Next1(s) == CASE s = "queued" -> {"early"} [] s = "early" -> {"late", "done"}
              [] s \in {"late", "stopping"} -> {"done"} [] OTHER -> {}

ReplyMoves(i) ==
  /\ reply[i] = "queued" => TurnLockFree
  /\ \E s \in Next1(reply[i]) : reply' = [reply EXCEPT ![i] = s]
  /\ UNCHANGED <<calls, control, loop, cancelled, speech, listen, passed, response, text>>

TextMoves ==
  /\ text = "queued" => TurnLockFree
  /\ \E s \in Next1(text) : text' = s
  /\ UNCHANGED <<calls, control, loop, cancelled, speech, listen, passed, response, reply>>

SendText ==
  /\ text = "none" /\ text' = "queued"
  /\ UNCHANGED <<calls, control, loop, cancelled, speech, listen, passed, response, reply>>

-----------------------------------------------------------------------------
LoopStep == Hear \/ Discard \/ Respond \/ Responded \/ BargeIn \/ Interrupted \/ LoopEnds

CallStep(c) == Open(c) \/ Adopt(c) \/ OpenFails(c) \/ Close(c) \/ CancelResponse(c) \/ Closed(c)

SystemStep ==
  \/ \E c \in Calls : CallStep(c)
  \/ Take \/ Put \/ Collect \/ Expire \/ LoopStep
  \/ TextMoves \/ \E i \in Replies : ReplyMoves(i)

World ==
  \/ \E c \in Calls : CallIt(c) \/ Cancel(c)
  \/ \E m \in Starts : Device(m)
  \/ Say \/ Quiet \/ SendText

Next == SystemStep \/ World

(* The event loop runs while a task is ready and its timers fire, opening  *)
(* has a deadline and a turn ends. No step leads back to an earlier state. *)
(* Nothing makes the user speak on, or stop.                               *)
Fairness == WF_vars(SystemStep)

Spec == Init /\ [][Next]_vars /\ Fairness

-----------------------------------------------------------------------------
(* The pipeline gets every piece at most once and in the order in which it *)
(* was said, although the loop collects the next utterance while it        *)
(* answers and a wait may expire within one.                               *)
After(p, q) == p.of > q.of \/ (p.of = q.of /\ p.part > q.part)

PassedInOrder ==
  /\ \A i \in 1..Len(passed) : \A j \in 2..Len(passed[i]) : After(passed[i][j], passed[i][j - 1])
  /\ \A i \in 2..Len(passed) : After(passed[i][1], passed[i - 1][Len(passed[i - 1])])

(* docs/desktop_client.md, voice.stop: capture stops at once and the device*)
(* is released. Of the microphones that a start() returned with, only the  *)
(* one in use captures; none does when the voice mode is off.              *)
AdoptedAreReleased ==
  \A m \in adopted : capture[m] = "running" => mic = m /\ enabled

(* Speech whose start was noticed, and which may have interrupted a reply  *)
(* by that, is passed on with its beginning, however the capture waits for *)
(* room and frames are lost behind it, unless the voice mode was stopped   *)
(* or its microphone failed.                                               *)
Listening == enabled /\ capture[mic] = "running"

Start(u, k) == [of |-> u, part |-> k, mark |-> "start"]
In(p, s) == \E i \in 1..Len(s) : s[i] = p

=============================================================================
