----------------------------- MODULE MCVoiceTurn -----------------------------
(***************************************************************************)
(* Small instances of VoiceTurn, and two claims of the documentation   *)
(* that the pipeline does not keep.                                        *)
(***************************************************************************)
EXTENDS VoiceTurn

(* docs/fish_audio_s21_streaming_design.md: "Barge-in ... aborts the audio *)
(* output, and prevents later persistence or playback from resuming". No   *)
(* piece of a turn starts to play once its interruption has stopped the    *)
(* audio output.                                                           *)
NoPlaybackAfterInterruption ==
  [][pc' = "play" /\ pc # "play" => ipc[cur] \in {"idle", "stopping"}]_vars

(* docs/production_readiness.md: "concurrent callers queue instead of      *)
(* silently replacing the active turn".                                    *)
AdmittedTurnIsNeverReplaced == [][cur' # cur => ~Current]_vars
=============================================================================
