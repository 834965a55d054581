---------------------------- MODULE MCDesktopHost ----------------------------
(***************************************************************************)
(* A small instance of the desktop host, and a claim of its documentation  *)
(* that it does not keep.                                                  *)
(***************************************************************************)
EXTENDS DesktopHost

TerminalsShown(t) == SelectSeq(shown[t], LAMBDA e : e \in Terminals)

(* docs/desktop_client.md:147: every started turn produces exactly one     *)
(* completed or failed terminal (an interruption is not one).              *)
OneTerminalShown == \A t \in Turns : Len(TerminalsShown(t)) <= 1
=============================================================================
