--------------------------- MODULE MCActionService ---------------------------
(***************************************************************************)
(* Small instances of ActionService, and two claims of                     *)
(* docs/production_readiness.md that the service does not keep.            *)
(***************************************************************************)
EXTENDS ActionService, TLC

Symmetry == Permutations(Actions) \cup Permutations(Confirms)

(* "Irreversible actions always require a fresh explicit confirmation and  *)
(* preview": what needed a confirmation was previewed before the provider  *)
(* executes it.                                                            *)
PreviewShownFirst == \A a \in Actions : entered[a] > 0 /\ needs[a] => a \in previewed

(* "a timed-out provider or audit store is quarantined and later actions   *)
(* fail closed": no undo crosses the provider boundary once the provider   *)
(* is quarantined.                                                         *)
QuarantineStopsUndo ==
  [][\A u \in Undos : pc[u] = "slot" /\ pc'[u] = "sandbox" => ~quarantined]_vars
=============================================================================
