------------------------------ MODULE EventStore ------------------------------
(***************************************************************************)
(* The SQLite memory service (memory/memory_service.py): asyncio tasks     *)
(* take turns on one shared connection. An operation is a sequence of      *)
(* statements and a commit; each is an await, where the operation may fail *)
(* or be cancelled while what it has written so far stays in the open      *)
(* transaction of the connection.                                          *)
(*                                                                         *)
(* aiosqlite runs statements in one worker thread, in the order they were  *)
(* asked for: a statement whose awaiting task is cancelled still runs, and *)
(* runs before any later one. All facts are about one key, and all events  *)
(* yield a fact about it.                                                  *)
(***************************************************************************)
EXTENDS FiniteSets

CONSTANTS
  Appends,   \* calls of append_event(), and the events they append
  Upserts,   \* calls of upsert_fact()
  Forgets,   \* calls of forget()
  Rebuilds,  \* calls of rebuild_from_log()
  Closes,    \* calls of shutdown()
  Source,    \* Source[t]: the event an upsert cites or a forget removes
  NoTask     \* nobody

Tasks == Appends \cup Upserts \cup Forgets \cup Rebuilds \cup Closes

ASSUME TasksAssumption ==
  /\ Appends \cap (Upserts \cup Forgets \cup Rebuilds \cup Closes) = {}
  /\ Upserts \cap (Forgets \cup Rebuilds \cup Closes) = {}
  /\ Forgets \cap (Rebuilds \cup Closes) = {}
  /\ Rebuilds \cap Closes = {}
  /\ NoTask \notin Tasks
  /\ Source \in [Upserts \cup Forgets -> Appends]

VARIABLES
  disk,    \* what is committed
  work,    \* what the connection sees: disk and its open transaction
  trans,   \* the connection is in a transaction
  opened,  \* _conn is set
  owner,   \* holder of _operation_lock
  pc,      \* pc[t]: the statement that task t awaits
  res      \* res[t]: how the operation of t ended

storeVars == <<disk, work, trans, opened, owner, pc, res>>

(* A row of the facts table: the event it cites and the task that wrote it *)
Facts == [src : Appends, by : Tasks]

(* The rows of the two tables; `current' are the facts without a valid_to. *)
Databases == [events : SUBSET Appends, facts : SUBSET Facts, current : SUBSET Facts]

Results == {"none", "ok", "failed", "cancelled", "crashed"}
Stages == {"insert", "retire", "record", "purge", "delete", "begin", "replay",
           "commit", "rollback", "close"}

First(t) == CASE t \in Appends  -> "insert"
              [] t \in Upserts  -> "retire"
              [] t \in Forgets  -> "purge"
              [] t \in Rebuilds -> "begin"
              [] t \in Closes   -> "close"

Following == [insert |-> "commit", retire |-> "record", record |-> "commit",
              purge |-> "delete", delete |-> "commit", begin |-> "replay",
              replay |-> "commit"]

Running(t) == pc[t] \in Stages
-----------------------------------------------------------------------------
Init ==
  /\ disk = [events |-> {}, facts |-> {}, current |-> {}]
  /\ work = disk
  /\ trans = FALSE
  /\ opened = FALSE
  /\ owner = NoTask
  /\ pc = [t \in Tasks |-> "idle"]
  /\ res = [t \in Tasks |-> "none"]

(* The operation returns, and the lock is released.                        *)
End(t, r) ==
  /\ pc' = [pc EXCEPT ![t] = "done"]
  /\ res' = [res EXCEPT ![t] = r]
  /\ owner' = IF owner = t THEN NoTask ELSE owner

Call(t) ==
  /\ pc[t] = "idle"
  /\ pc' = [pc EXCEPT ![t] = "lock"]
  /\ UNCHANGED <<disk, work, trans, opened, owner, res>>

(* shutdown() of a service without a connection does nothing; every other  *)
(* operation opens one.                                                    *)
Acquire(t) ==
  /\ pc[t] = "lock"
  /\ owner = NoTask
  /\ IF t \in Closes /\ ~opened
     THEN /\ End(t, "ok")
          /\ UNCHANGED opened
     ELSE /\ owner' = t
          /\ pc' = [pc EXCEPT ![t] = First(t)]
          /\ opened' = TRUE
          /\ UNCHANGED res
  /\ UNCHANGED <<disk, work, trans>>

(* The last fact that a rebuild stores is the current one.                 *)
Rebuilt(t, w) ==
  LET rows == [src : w.events, by : {t}]
  IN {[w EXCEPT !.facts = rows, !.current = c] :
        c \in IF rows = {} THEN {{}} ELSE {{row} : row \in rows}}

Retired(w) == [w EXCEPT !.current = {}]

Recorded(t, w) ==
  LET row == [src |-> Source[t], by |-> t]
  IN [w EXCEPT !.facts = @ \cup {row}, !.current = @ \cup {row}]

Purged(t, w) == [w EXCEPT !.facts = {row \in @ : row.src # Source[t]},
                          !.current = {row \in @ : row.src # Source[t]}]

(* What the statement that t awaits can turn a database into.              *)
Effects(t, w) ==
  CASE pc[t] = "insert" -> {[w EXCEPT !.events = @ \cup {t}]}
    [] pc[t] = "retire" -> {Retired(w)}
    [] pc[t] = "record" -> {Recorded(t, w)}
    [] pc[t] = "purge"  -> {Purged(t, w)}
    [] pc[t] = "delete" -> {[w EXCEPT !.events = @ \ {Source[t]}]}
    [] pc[t] = "begin"  -> {w}
    [] pc[t] = "replay" -> Rebuilt(t, w)

(* The worker runs the statement: BEGIN IMMEDIATE is refused inside a      *)
(* transaction, and every other statement opens one.                       *)
Execute(t) ==
  /\ pc[t] \in DOMAIN Following
  /\ pc[t] = "begin" => ~trans
  /\ work' \in Effects(t, work)
  /\ trans' = TRUE
  /\ UNCHANGED <<disk, opened>>

Commits ==
  /\ disk' = work
  /\ trans' = FALSE
  /\ UNCHANGED <<work, opened>>

RollsBack ==
  /\ work' = disk
  /\ trans' = FALSE
  /\ UNCHANGED disk

Statement(t) ==
  /\ Execute(t)
  /\ pc' = [pc EXCEPT ![t] = Following[@]]
  /\ UNCHANGED <<owner, res>>

Commit(t) ==
  /\ pc[t] = "commit"
  /\ Commits
  /\ End(t, "ok")

(* Mutant: rebuild_from_log() does not roll back.                          *)
NeverGuarded(t) == FALSE

(* rebuild_from_log() rolls back what failed or was cancelled after BEGIN. *)
Guarded(t) == t \in Rebuilds /\ pc[t] \in {"replay", "commit"}

GiveUp(t, r) ==
  IF Guarded(t)
  THEN /\ pc' = [pc EXCEPT ![t] = "rollback"]
       /\ res' = [res EXCEPT ![t] = r]
       /\ UNCHANGED owner
  ELSE End(t, r)

Rollback(t) ==
  /\ pc[t] = "rollback"
  /\ RollsBack
  /\ End(t, res[t])
  /\ UNCHANGED opened

(* Closing the connection discards its open transaction.                   *)
Close(t) ==
  /\ pc[t] = "close"
  /\ RollsBack
  /\ opened' = FALSE
  /\ End(t, "ok")

BeginRefused(t) ==
  /\ pc[t] = "begin"
  /\ trans
  /\ GiveUp(t, "failed")
  /\ UNCHANGED <<disk, work, trans, opened>>

Step(t) == \/ Acquire(t) \/ Statement(t) \/ Commit(t) \/ Rollback(t) \/ Close(t)
           \/ BeginRefused(t)

(* A statement raises. sqlite3 has begun a transaction for it, which stays *)
(* open; a commit that fails leaves its transaction open as well.          *)
StatementFails(t) ==
  /\ pc[t] \in DOMAIN Following \cup {"commit"}
  /\ trans' = (trans \/ pc[t] # "begin")
  /\ GiveUp(t, "failed")
  /\ UNCHANGED <<disk, work, opened>>

(* A cancellation reaches the operation: what it awaits runs all the same. *)
CancelWait(t) ==
  /\ pc[t] = "lock"
  /\ End(t, "cancelled")
  /\ UNCHANGED <<disk, work, trans, opened>>

CancelStatement(t) ==
  /\ Execute(t)
  /\ GiveUp(t, "cancelled")

CancelCommit(t) ==
  /\ pc[t] = "commit"
  /\ Commits
  /\ GiveUp(t, "cancelled")

CancelOperation(t) == CancelWait(t) \/ CancelStatement(t) \/ CancelCommit(t)

Dead == {t \in Tasks : pc[t] # "idle" /\ pc[t] # "done"}

(* The process ends and the database is opened again: SQLite keeps what    *)
(* was committed.                                                          *)
Crash ==
  /\ RollsBack
  /\ opened' = FALSE
  /\ owner' = NoTask
  /\ pc' = [t \in Tasks |-> IF t \in Dead THEN "done" ELSE pc[t]]
  /\ res' = [t \in Tasks |-> IF t \in Dead THEN "crashed" ELSE res[t]]

StoreNext == \/ \E t \in Tasks : Call(t) \/ Step(t) \/ StatementFails(t) \/ CancelOperation(t)
             \/ Crash
-----------------------------------------------------------------------------
(* Type correctness; a current fact is a row of the table.                 *)
TypeOK ==
  /\ \A db \in {disk, work} : db \in Databases /\ db.current \subseteq db.facts
  /\ trans \in BOOLEAN
  /\ opened \in BOOLEAN
  /\ owner \in Tasks \cup {NoTask}
  /\ pc \in [Tasks -> Stages \cup {"idle", "lock", "done"}]
  /\ res \in [Tasks -> Results]

(* upsert_fact() closes the validity of the old fact: a key never has two  *)
(* current facts, in whatever transaction a half-done update ends up.      *)
OneCurrentFact ==
  \A db \in {disk, work} : \A row, other \in db.current : row = other

(* "Memory rebuild failed; previous derived memory was restored": nothing  *)
(* of a rebuild that failed is committed, by itself or by a later          *)
(* operation on the same connection.                                       *)
RebuildIsAtomic ==
  \A r \in Rebuilds : res[r] = "failed" => \A row \in disk.facts : row.by # r

Forgotten(e) == \E f \in Forgets : Source[f] = e /\ pc[f] # "idle"

(* The inductive invariant of the store, in parts.                         *)
OwnStages ==
  \A t \in Tasks : Running(t) =>
    \/ t \in Appends /\ pc[t] \in {"insert", "commit"}
    \/ t \in Upserts /\ pc[t] \in {"retire", "record", "commit"}
    \/ t \in Forgets /\ pc[t] \in {"purge", "delete", "commit"}
    \/ t \in Rebuilds /\ pc[t] \in {"begin", "replay", "commit", "rollback"}
    \/ t \in Closes /\ pc[t] = "close"

Exclusive == \A t \in Tasks : Running(t) => owner = t

ResultIsFinal == \A t \in Tasks : res[t] = "ok" => pc[t] = "done"

Clean == ~trans => work = disk

(* Only forget() takes an event away, and an append has its event in the   *)
(* transaction when it commits.                                            *)
KeepsEvents ==
  /\ \A e \in disk.events : e \in work.events \/ Forgotten(e)
  /\ \A e \in Appends : pc[e] = "commit" => e \in work.events \/ Forgotten(e)
  /\ \A e \in Appends : res[e] = "ok" => e \in disk.events \/ Forgotten(e)

RetiresFirst == \A t \in Tasks : pc[t] = "record" => work.current = {}

(* The rows a rebuild has written, as long as it can still roll back.      *)
RebuildTraces ==
  /\ \A row \in work.facts : row.by \in Rebuilds =>
       \/ pc[row.by] \in {"commit", "rollback"}
       \/ pc[row.by] = "done" /\ res[row.by] # "failed"
  /\ \A row \in disk.facts : row.by \in Rebuilds =>
       \/ pc[row.by] = "rollback" /\ res[row.by] = "cancelled"
       \/ pc[row.by] = "done" /\ res[row.by] # "failed"

(* Every fact cites an event, but for the events in `lost'.                *)
CitesEvents(lost) ==
  /\ \A row \in work.facts : row.src \in work.events \cup lost \/ Forgotten(row.src)
  /\ \A row \in disk.facts : row.src \in disk.events \cup lost \/ Forgotten(row.src)

StoreInv == /\ TypeOK /\ OwnStages /\ Exclusive /\ ResultIsFinal /\ Clean /\ KeepsEvents
            /\ OneCurrentFact /\ RetiresFirst /\ RebuildTraces

StoreSpec == /\ Init /\ [][StoreNext]_storeVars
             /\ \A t \in Tasks : WF_storeVars(Step(t))
=============================================================================
