------------------------------ MODULE MCEventBus ------------------------------
(***************************************************************************)
(* Small instances of the event bus and its store, and three claims of the *)
(* code and the documentation that they do not keep.                       *)
(***************************************************************************)
EXTENDS EventBus, TLC

CONSTANTS e1, e2, u1, u2, f1

(* Every upsert cites the first event, and it is the one to be forgotten.  *)
MCSource == [t \in Upserts \cup Forgets |-> e1]

(* "Keep each public memory operation atomic on the shared connection"     *)
(* (memory_service.py): a key that has a fact keeps one, unless the user   *)
(* has it forgotten or the facts are rebuilt.                              *)
FactIsReplaced ==
  [][disk.current # {} /\ disk'.current = {} => owner \in Forgets \cup Rebuilds]_vars

(* "The event bus ... drains any accepted event before the SQLite memory   *)
(* provider closes" (docs/deployment_preflight.md).                        *)
DrainedBeforeClose ==
  [][\A x \in Closes : pc[x] # "done" /\ pc'[x] = "done" => due = {}]_vars

(* "Completed conversation turns are persisted and extracted facts         *)
(* reference real event IDs" (docs/production_readiness.md): no exception  *)
(* for a publish that was cancelled twice while it waited for the lock.    *)
FactsCiteTheLedger == \A row \in disk.facts : Durable(row.src)
=============================================================================
