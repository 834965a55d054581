------------------------------ MODULE Readiness -------------------------------
(***************************************************************************)
(* What the desktop host believes of its providers (desktop/host.py): the  *)
(* readiness check with retry_desktop_readiness() of __main__.py, the      *)
(* credential that the client stores, and voice.start with                 *)
(* prepare_desktop_voice(), which changes the same status. Requests are    *)
(* handled concurrently, so a check, a turn, a stored credential and a     *)
(* voice.start meet at every await. The turn itself is in DesktopHost.     *)
(*                                                                         *)
(* The server stays open while the host stops, and the runtime is shut     *)
(* down after the host.                                                    *)
(***************************************************************************)
EXTENDS Naturals

CONSTANT MaxWrites   \* bound on credentials that are stored

WritesAssumption == MaxWrites \in Nat

VARIABLES
  version,   \* which credential is stored
  valid,     \* the language model's server accepts it
  loaded,    \* the speech recognizer has its model
  running,   \* the orchestrator has started
  check,     \* where _run_readiness is
  seen,      \* the credential that the last check used, and what it found
  status,    \* _provider_status: what is healthy
  phase,     \* _phase
  turn,      \* a turn is active
  start,     \* where voice.start is
  mic,       \* the voice controller is enabled
  stage      \* of run(): "serve", "cleanup", "left"; "down" after the runtime's stop

credential == <<version, valid>>
provider == <<loaded, running>>
belief == <<status, phase>>
voice == <<start, mic>>
vars == <<credential, provider, check, seen, belief, turn, voice, stage>>

Results == [llm : BOOLEAN, speech : BOOLEAN]

(* _update_phase_from_provider_status()                                    *)
PhaseOf(s) == CASE ~s.llm     -> "setup_required"
                [] ~s.runtime -> "error"
                [] ~s.speech  -> "degraded"
                [] OTHER      -> "ready"

Believe(s) == status' = s /\ phase' = PhaseOf(s)

Init ==
  /\ version = 0 /\ valid \in BOOLEAN /\ loaded = FALSE /\ running = FALSE
  /\ check = "new" /\ seen = [version |-> 0, llm |-> FALSE, speech |-> FALSE]
  /\ status = [llm |-> FALSE, speech |-> FALSE, runtime |-> FALSE] /\ phase = "starting"
  /\ turn = FALSE /\ start = "none" /\ mic = FALSE /\ stage = "serve"

Serving == stage \in {"serve", "cleanup"}

-----------------------------------------------------------------------------
(* The check.                                                              *)

(* A check that is under way is the answer to every request for one.       *)
CheckAgain == check' = IF check = "none" THEN "new" ELSE check

(* runtime.retry                                                           *)
RetryReadiness ==
  /\ Serving /\ ~turn /\ CheckAgain
  /\ UNCHANGED <<credential, provider, seen, belief, turn, voice, stage>>

Announce ==
  /\ check = "new" /\ check' = "probe" /\ phase' = "checking"
  /\ UNCHANGED <<credential, provider, seen, status, turn, voice, stage>>

(* The model's health: the server may be overloaded, out of reach or late, *)
(* but a rejected credential is never healthy.                             *)
LlmHealth == IF valid THEN BOOLEAN ELSE {FALSE}

(* Synthesis has its own server and voice, recognition needs its model.    *)
SpeechHealth == IF loaded THEN BOOLEAN ELSE {FALSE}

(* The providers are asked all at once; the answers take their time.       *)
Probe ==
  /\ check = "probe" /\ check' = "gather"
  /\ \E llm \in LlmHealth, speech \in SpeechHealth :
       seen' = [version |-> version, llm |-> llm, speech |-> speech]
  /\ UNCHANGED <<credential, provider, belief, turn, voice, stage>>

Conclude(runtime) ==
  /\ Believe([llm |-> seen.llm, speech |-> seen.speech, runtime |-> runtime])
  /\ check' = "none"

(* Mutant: an orchestrator that runs is started again; startup() begins    *)
(* with the claim that it does not run.                                    *)
StartedAgain(local) ==
  IF seen.llm /\ local THEN check' = "startup" /\ running' = FALSE /\ UNCHANGED belief
                       ELSE Conclude(FALSE) /\ UNCHANGED running

(* Memory, avatar and action provider are ready, or not; an orchestrator   *)
(* that does not run yet is started.                                       *)
Gathered(local) ==
  IF seen.llm /\ local /\ ~running
  THEN check' = "startup" /\ UNCHANGED <<running, belief>>
  ELSE Conclude(seen.llm /\ local) /\ UNCHANGED running

Gather ==
  /\ check = "gather" /\ \E local \in BOOLEAN : Gathered(local)
  /\ UNCHANGED <<credential, loaded, seen, turn, voice, stage>>

(* startup() loads what it can, asks every provider again and sets up the  *)
(* avatar.                                                                 *)
Startup ==
  /\ check = "startup"
  /\ loaded' \in {TRUE, loaded}
  /\ \/ valid /\ running' = TRUE /\ Conclude(TRUE)
     \/ UNCHANGED running /\ Conclude(FALSE)
  /\ UNCHANGED <<credential, seen, turn, voice, stage>>

-----------------------------------------------------------------------------
(* The requests of the client.                                             *)

(* credential.set: stored, then checked, unless a turn is active.          *)
SetCredential ==
  /\ Serving /\ version < MaxWrites
  /\ version' = version + 1 /\ valid' \in BOOLEAN
  /\ IF turn THEN UNCHANGED check ELSE CheckAgain
  /\ UNCHANGED <<provider, seen, belief, turn, voice, stage>>

(* conversation.send, or an utterance that the voice loop has heard.       *)
TurnBegins ==
  /\ Serving /\ ~turn /\ turn' = TRUE
  /\ status.runtime \/ mic
  /\ UNCHANGED <<credential, provider, check, seen, belief, voice, stage>>

TurnEnds ==
  /\ turn /\ turn' = FALSE
  /\ UNCHANGED <<credential, provider, check, seen, belief, voice, stage>>

StartVoice ==
  /\ Serving /\ start = "none" /\ ~turn /\ status.runtime
  /\ start' = "prepare"
  /\ UNCHANGED <<credential, provider, check, seen, belief, turn, mic, stage>>

(* The recognizer is loaded; both speech providers must be healthy then.   *)
PrepareVoice ==
  /\ start = "prepare"
  /\ \/ /\ loaded' = TRUE /\ start' = "open" /\ Believe([status EXCEPT !.speech = TRUE])
     \/ loaded' \in {TRUE, loaded} /\ start' = "none" /\ UNCHANGED belief
  /\ UNCHANGED <<credential, running, check, seen, turn, mic, stage>>

(* The microphone opens, or not.                                           *)
OpenMicrophone ==
  /\ start = "open" /\ start' = "none" /\ mic' \in {TRUE, mic}
  /\ UNCHANGED <<credential, provider, check, seen, belief, turn, stage>>

(* The deadline of the request passes, or the client is lost.              *)
StartTimesOut ==
  /\ start # "none" /\ start' = "none"
  /\ UNCHANGED <<credential, provider, check, seen, belief, turn, mic, stage>>

StopVoice ==
  /\ Serving /\ mic /\ mic' = FALSE
  /\ UNCHANGED <<credential, provider, check, seen, belief, turn, start, stage>>

-----------------------------------------------------------------------------
(* run() is told to quit, or is cancelled at its first check. A check that *)
(* runs is cancelled, and a turn. The server is stopped last; a request    *)
(* may come before.                                                        *)
Quit ==
  /\ stage = "serve" /\ stage' = "cleanup" /\ phase' = "stopping" /\ check' = "none"
  /\ UNCHANGED <<credential, provider, seen, status, turn, voice>>

ServerStops ==
  /\ stage = "cleanup" /\ ~turn /\ stage' = "left" /\ mic' = FALSE /\ start' = "none"
  /\ UNCHANGED <<credential, provider, check, seen, belief, turn>>

(* The runtime is stopped; whatever still runs ends with the event loop.   *)
RuntimeStops ==
  /\ stage = "left" /\ stage' = "down" /\ running' = FALSE
  /\ UNCHANGED <<credential, loaded, check, seen, belief, turn, voice>>

Next ==
  \/ RetryReadiness \/ Announce \/ Probe \/ Gather \/ Startup
  \/ SetCredential \/ TurnBegins \/ TurnEnds
  \/ StartVoice \/ PrepareVoice \/ OpenMicrophone \/ StartTimesOut \/ StopVoice
  \/ Quit \/ ServerStops \/ RuntimeStops

Spec == Init /\ [][Next]_vars

-----------------------------------------------------------------------------
(* While the host takes requests, the runtime that it reports as healthy,  *)
(* and on which it accepts turns, has been started: also during another    *)
(* check, and after a credential has been replaced by a bad one.           *)
RuntimeIsThere == Serving /\ (status.runtime \/ mic) => running

AtRest == stage = "serve" /\ check = "none" /\ start = "none" /\ ~turn

(* The inductive invariant: from the first healthy report on, the runtime  *)
(* runs until its own stop, and a voice.start was let in by such a report. *)
StatusOK == status \in [llm : BOOLEAN, speech : BOOLEAN, runtime : BOOLEAN]
SeenOK == seen.llm \in BOOLEAN /\ seen.speech \in BOOLEAN
ReadyInv == /\ StatusOK /\ SeenOK
            /\ stage # "down" /\ (status.runtime \/ mic \/ start # "none") => running

(* (Refuted.) A credential that has been stored is checked: when nothing   *)
(* is under way, the last check has used the last credential.              *)
CredentialIsChecked == AtRest => seen.version = version

(* (Refuted.) A recognizer that was loaded for voice.start is reported as  *)
(* healthy: a check that asked before may report later.                    *)
LoadedIsReported == AtRest /\ mic => status.speech

(* (Refuted.) No check runs on when the runtime is down: a request may     *)
(* come between the end of the last check and that of the server.          *)
NoCheckWhenDown == stage = "down" => check = "none"
===============================================================================
