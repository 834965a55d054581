------------------------------- MODULE MCVoice -------------------------------
(***************************************************************************)
(* Small instances of the voice pipeline and of the voice mode of the      *)
(* desktop client, each in behaviours of its own: the other one rests.     *)
(***************************************************************************)
EXTENDS MCVoiceTurn

CONSTANTS Starts, Stops, None, MaxSpoken, Parts, FrameSize, QueueSize   \* of VoiceLoop

VARIABLES
  which,   \* the component that runs
  modePc, modeLock, modeCapture, modeEnabled, modeMic, modeAdopted, modeTold,
  modeLoop, modeCancelled, modeSpoken, modePart, modeFrames, modeVad, modePutting,
  modeQueue, modeEdges, modeSeen, modeWindow, modeReady, modePassed, modeResponse,
  modeReply, modeText

V == INSTANCE VoiceLoop WITH
  pc <- modePc, lock <- modeLock, capture <- modeCapture,
  enabled <- modeEnabled, mic <- modeMic, adopted <- modeAdopted,
  told <- modeTold, loop <- modeLoop, cancelled <- modeCancelled,
  spoken <- modeSpoken, part <- modePart, frames <- modeFrames,
  vad <- modeVad, putting <- modePutting,
  queue <- modeQueue, edges <- modeEdges, seen <- modeSeen,
  window <- modeWindow, ready <- modeReady, passed <- modePassed,
  response <- modeResponse, reply <- modeReply, text <- modeText

ASSUME VoiceAssumption == V!CallsAssumption /\ V!BoundsAssumption

modeVars == <<modePc, modeLock, modeCapture, modeEnabled, modeMic,
  modeAdopted, modeTold, modeLoop, modeCancelled, modeSpoken, modePart,
  modeFrames, modeVad, modePutting, modeQueue, modeEdges, modeSeen, modeWindow, modeReady,
  modePassed, modeResponse, modeReply, modeText>>
all == <<which, vars, modeVars>>

SInit == which \in {"turn", "mode"} /\ Init /\ V!Init

Turn == which = "turn" /\ Next /\ UNCHANGED <<which, modeVars>>
Mode == which = "mode" /\ V!Next /\ UNCHANGED <<which, vars>>

SNext == Turn \/ Mode

SSpec == SInit /\ [][SNext]_all /\ Fairness /\ V!Fairness

-----------------------------------------------------------------------------
(* The pipeline gets the pieces of speech once and in order (VoiceLoop).   *)
PassedInOrder == V!PassedInOrder

(* No released microphone captures (VoiceLoop).                            *)
AdoptedAreReleased == V!AdoptedAreReleased

=============================================================================
