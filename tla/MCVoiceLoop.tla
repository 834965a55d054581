----------------------------- MODULE MCVoiceLoop -----------------------------
(***************************************************************************)
(* A small instance of the voice mode, and a claim of the documentation    *)
(* that it does not keep.                                                  *)
(***************************************************************************)
EXTENDS VoiceLoop

(* docs/desktop_client.md:112: when the connection is lost capture stops   *)
(* at once; :126: voice.stop stops capture and releases the device. No     *)
(* microphone captures that neither a call is opening nor the voice mode   *)
(* uses.                                                                   *)
NoStrayCapture ==
  \A m \in Starts : capture[m] \in {"opening", "running"} => mic = m \/ pc[m] = "opening"
=============================================================================
