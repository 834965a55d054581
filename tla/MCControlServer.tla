--------------------------- MODULE MCControlServer ---------------------------
(***************************************************************************)
(* Small instance of the control server.                                   *)
(***************************************************************************)
EXTENDS ControlServer
=============================================================================
