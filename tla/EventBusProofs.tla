---------------------------- MODULE EventBusProofs ----------------------------
(***************************************************************************)
(* What the event bus and the store under it guarantee for every number of *)
(* events, handlers, operations and faults. BusInv is inductive; the store *)
(* part is proved action by action, grouped by what an action does to the  *)
(* database: nothing, a statement, a commit or a rollback.                 *)
(***************************************************************************)
EXTENDS EventBus, TLAPS

LEMMA Apart ==
  /\ NoTask \notin Tasks
  /\ Appends \cap Upserts = {} /\ Appends \cap Forgets = {}
  /\ Appends \cap Rebuilds = {} /\ Appends \cap Closes = {}
  /\ Upserts \cap Rebuilds = {} /\ Forgets \cap Rebuilds = {}
  /\ Closes \cap Rebuilds = {}
BY TasksAssumption

(* The database a statement leaves, by the stage of its operation.         *)
LEMMA EffectShape ==
  ASSUME TypeOK, OwnStages, NEW t \in Tasks, pc[t] \in DOMAIN Following,
         NEW v \in Effects(t, work)
  PROVE  /\ v \in Databases
         /\ v.current \subseteq v.facts
         /\ \/ /\ pc[t] = "insert" /\ t \in Appends
               /\ v.events = work.events \cup {t}
               /\ v.facts = work.facts /\ v.current = work.current
            \/ /\ pc[t] = "retire"
               /\ v.events = work.events /\ v.facts = work.facts /\ v.current = {}
            \/ /\ pc[t] = "record" /\ t \in Upserts
               /\ v.events = work.events
               /\ v.facts = work.facts \cup {[src |-> Source[t], by |-> t]}
               /\ v.current = work.current \cup {[src |-> Source[t], by |-> t]}
            \/ /\ pc[t] = "purge"
               /\ v.events = work.events
               /\ v.facts \subseteq work.facts /\ v.current \subseteq work.current
            \/ /\ pc[t] = "delete" /\ t \in Forgets
               /\ v.events = work.events \ {Source[t]}
               /\ v.facts = work.facts /\ v.current = work.current
            \/ /\ pc[t] = "begin" /\ v = work
            \/ /\ pc[t] = "replay" /\ t \in Rebuilds
               /\ v.events = work.events
               /\ \A row \in v.facts : row.src \in work.events /\ row.by = t
               /\ \A row, other \in v.current : row = other
<1>1. /\ work \in Databases /\ work.current \subseteq work.facts
  BY DEF TypeOK
<1>2. /\ work = [events |-> work.events, facts |-> work.facts, current |-> work.current]
      /\ work.events \subseteq Appends
      /\ work.facts \subseteq Facts
      /\ work.current \subseteq Facts
  BY <1>1 DEF Databases
<1>3. CASE pc[t] = "insert"
  <2>1. t \in Appends
    BY <1>3 DEF OwnStages, Running, Stages
  <2>2. v = [work EXCEPT !.events = @ \cup {t}]
    BY <1>3 DEF Effects
  <2> QED BY <1>1, <1>2, <1>3, <2>1, <2>2 DEF Databases
<1>4. CASE pc[t] = "retire"
  <2>1. v = [work EXCEPT !.current = {}]
    BY <1>4 DEF Effects, Retired
  <2> QED BY <1>1, <1>2, <1>4, <2>1 DEF Databases
<1>5. CASE pc[t] = "record"
  <2>1. t \in Upserts
    BY <1>5 DEF OwnStages, Running, Stages
  <2>2. [src |-> Source[t], by |-> t] \in Facts
    BY <2>1, TasksAssumption DEF Facts
  <2>3. v = [work EXCEPT !.facts = @ \cup {[src |-> Source[t], by |-> t]},
                         !.current = @ \cup {[src |-> Source[t], by |-> t]}]
    BY <1>5 DEF Effects, Recorded
  <2> HIDE <2>2
  <2> QED BY <1>1, <1>2, <1>5, <2>1, <2>2, <2>3 DEF Databases
<1>6. CASE pc[t] = "purge"
  <2>1. v = [work EXCEPT !.facts = {row \in @ : row.src # Source[t]},
                         !.current = {row \in @ : row.src # Source[t]}]
    BY <1>6 DEF Effects, Purged
  <2> QED BY <1>1, <1>2, <1>6, <2>1 DEF Databases
<1>7. CASE pc[t] = "delete"
  <2>1. t \in Forgets
    BY <1>7 DEF OwnStages, Running, Stages
  <2>2. v = [work EXCEPT !.events = @ \ {Source[t]}]
    BY <1>7 DEF Effects
  <2> QED BY <1>1, <1>2, <1>7, <2>1, <2>2 DEF Databases
<1>8. CASE pc[t] = "begin"
  BY <1>1, <1>8 DEF Effects
<1>9. CASE pc[t] = "replay"
  <2>1. t \in Rebuilds
    BY <1>9 DEF OwnStages, Running, Stages
  <2>2. v \in Rebuilt(t, work)
    BY <1>9 DEF Effects
  <2> DEFINE rows == [src : work.events, by : {t}]
  <2>3. PICK c \in IF rows = {} THEN {{}} ELSE {{row} : row \in rows} :
           v = [work EXCEPT !.facts = rows, !.current = c]
    BY <2>2 DEF Rebuilt
  <2>4. rows \subseteq Facts
    BY <1>2, <2>1 DEF Facts, Tasks
  <2>5. c \subseteq rows /\ \A row, other \in c : row = other
    OBVIOUS
  <2>6. \A row \in rows : row.src \in work.events /\ row.by = t
    OBVIOUS
  <2> HIDE DEF rows
  <2> QED BY <1>1, <1>2, <1>9, <2>1, <2>3, <2>4, <2>5, <2>6 DEF Databases
<1> QED BY <1>3, <1>4, <1>5, <1>6, <1>7, <1>8, <1>9 DEF Following

-----------------------------------------------------------------------------
(* An operation never becomes idle again, so what is forgotten stays so.   *)
LEMMA ForgottenStays ==
  ASSUME \A t \in Tasks : pc[t] # "idle" => pc'[t] # "idle",
         NEW e, Forgotten(e)
  PROVE  Forgotten(e)'
BY DEF Forgotten, Tasks

Quiet(t) == Call(t) \/ Acquire(t) \/ BeginRefused(t) \/ StatementFails(t) \/ CancelWait(t)

(* Actions that leave the database alone.                                  *)
LEMMA QuietStep ==
  ASSUME StoreInv, NEW lost, CitesEvents(lost), NEW t \in Tasks, Quiet(t)
  PROVE  /\ StoreInv' /\ CitesEvents(lost)'
         /\ \A s \in Tasks : pc[s] # "idle" => pc'[s] # "idle"
<1>t. /\ TypeOK /\ OwnStages /\ Exclusive /\ ResultIsFinal /\ Clean /\ KeepsEvents
      /\ OneCurrentFact /\ RetiresFirst /\ RebuildTraces
  BY DEF StoreInv
<1>1. disk' = disk /\ work' = work
  BY DEF Quiet, Call, Acquire, BeginRefused, StatementFails, CancelWait
<1>2. \A s \in Tasks : s # t => pc'[s] = pc[s] /\ res'[s] = res[s]
  BY <1>t DEF TypeOK, Quiet, Call, Acquire, BeginRefused, StatementFails, CancelWait, GiveUp, End
<1>d. NoTask \notin Tasks /\ Appends \cap Closes = {} /\ Appends \cap Rebuilds = {}
  BY Apart
<1> DEFINE
      Waits  == pc'[t] = "lock" /\ pc[t] = "idle" /\ res'[t] = res[t] /\ owner' = owner
      Begins == /\ pc'[t] = First(t) /\ pc[t] = "lock" /\ owner = NoTask /\ owner' = t
                /\ res'[t] = res[t]
      Ends   == /\ pc'[t] = "done" /\ pc[t] # "idle"
                /\ res'[t] \in {"ok", "failed", "cancelled"}
                /\ res'[t] = "ok" => t \in Closes
                /\ t \in Rebuilds => pc[t] \notin {"commit", "rollback", "done"}
                /\ owner # t => owner' = owner
                /\ owner' \in {owner, NoTask}
      Undoes == /\ pc'[t] = "rollback" /\ t \in Rebuilds /\ pc[t] \in {"replay", "commit"}
                /\ res'[t] = "failed" /\ owner' = owner
<1>3. Waits \/ Begins \/ Ends \/ Undoes
  <2> USE <1>t DEF TypeOK
  <2>1. CASE Call(t)
    BY <2>1 DEF Call
  <2>2. CASE Acquire(t)
    BY <2>2 DEF Acquire, End
  <2>3. CASE BeginRefused(t)
    <3>1. pc[t] = "begin" /\ ~Guarded(t)
      BY <2>3 DEF BeginRefused, Guarded
    <3> QED BY <2>3, <3>1 DEF BeginRefused, GiveUp, End
  <2>4. CASE StatementFails(t)
    <3>1. pc[t] \in DOMAIN Following \cup {"commit"}
      BY <2>4 DEF StatementFails
    <3>2. pc[t] \notin {"idle", "rollback", "done"}
      BY <3>1 DEF Following
    <3>3. CASE Guarded(t)
      BY <2>4, <3>2, <3>3 DEF StatementFails, GiveUp, Guarded
    <3>4. CASE ~Guarded(t)
      <4>1. t \in Rebuilds => pc[t] # "commit"
        BY <3>4 DEF Guarded
      <4>2. End(t, "failed")
        BY <2>4, <3>4 DEF StatementFails, GiveUp
      <4> QED BY <3>2, <4>1, <4>2 DEF End
    <3> QED BY <3>3, <3>4
  <2>5. CASE CancelWait(t)
    BY <2>5 DEF CancelWait, End
  <2> QED BY <2>1, <2>2, <2>3, <2>4, <2>5 DEF Quiet
<1>4. /\ trans' \in BOOLEAN /\ (trans' = FALSE => trans = FALSE)
      /\ opened' \in BOOLEAN
      /\ pc' = [pc EXCEPT ![t] = pc'[t]] /\ res' = [res EXCEPT ![t] = res'[t]]
  BY <1>t DEF TypeOK, Quiet, Call, Acquire, BeginRefused, StatementFails, CancelWait, GiveUp, End
<1>5. First(t) \in Stages \ {"commit", "rollback", "record"}
  BY DEF First, Stages, Tasks
<1>6. \A s \in Tasks : pc[s] # "idle" => pc'[s] # "idle"
  BY <1>2, <1>3, <1>5 DEF Stages
<1>7. TypeOK'
  <2>1. /\ pc'[t] \in Stages \cup {"idle", "lock", "done"}
        /\ owner' \in Tasks \cup {NoTask}
        /\ res'[t] \in Results
    BY <1>t, <1>3, <1>5 DEF TypeOK, Stages, Results
  <2> QED BY <1>t, <1>1, <1>4, <2>1 DEF TypeOK
<1>8. OwnStages'
  <2>1. ASSUME pc'[t] = First(t)
        PROVE  \/ t \in Appends /\ pc'[t] \in {"insert", "commit"}
               \/ t \in Upserts /\ pc'[t] \in {"retire", "record", "commit"}
               \/ t \in Forgets /\ pc'[t] \in {"purge", "delete", "commit"}
               \/ t \in Rebuilds /\ pc'[t] \in {"begin", "replay", "commit", "rollback"}
               \/ t \in Closes /\ pc'[t] = "close"
    BY <2>1, TasksAssumption DEF First, Tasks
  <2> QED BY <1>t, <1>2, <1>3, <2>1 DEF OwnStages, Running, Stages
<1>9. Exclusive'
  BY <1>t, <1>d, <1>2, <1>3 DEF Exclusive, Running, Stages
<1>10. ResultIsFinal'
  BY <1>t, <1>2, <1>3 DEF ResultIsFinal
<1>11. Clean'
  <2>1. (trans' = FALSE) => work' = disk'
    BY <1>t, <1>1, <1>4 DEF Clean
  <2> QED BY <1>4, <2>1 DEF Clean
<1>12. KeepsEvents'
  BY <1>t, <1>1, <1>2, <1>3, <1>5, <1>6, <1>d, ForgottenStays DEF KeepsEvents, Tasks, Stages
<1>13. OneCurrentFact'
  BY <1>t, <1>1 DEF OneCurrentFact
<1>14. RetiresFirst'
  BY <1>t, <1>1, <1>2, <1>3, <1>5 DEF RetiresFirst
<1>15. RebuildTraces'
  BY <1>t, <1>1, <1>2, <1>3, <1>5 DEF RebuildTraces, Tasks, Stages
<1>16. CitesEvents(lost)'
  BY <1>t, <1>1, <1>6, ForgottenStays DEF CitesEvents
<1> QED BY <1>6, <1>7, <1>8, <1>9, <1>10, <1>11, <1>12, <1>13, <1>14, <1>15, <1>16 DEF StoreInv

(* Actions that run a statement.                                           *)
LEMMA WriteStep ==
  ASSUME StoreInv, NEW lost, CitesEvents(lost),
         NEW t \in Tasks, Statement(t) \/ CancelStatement(t),
         t \in Upserts => Source[t] \in disk.events \cup lost \/ Forgotten(Source[t])
  PROVE  /\ StoreInv' /\ CitesEvents(lost)'
         /\ \A s \in Tasks : pc[s] # "idle" => pc'[s] # "idle"
<1>t. /\ TypeOK /\ OwnStages /\ Exclusive /\ ResultIsFinal /\ Clean /\ KeepsEvents
      /\ OneCurrentFact /\ RetiresFirst /\ RebuildTraces
  BY DEF StoreInv
<1>d. /\ NoTask \notin Tasks /\ Appends \cap Rebuilds = {} /\ Upserts \cap Rebuilds = {}
      /\ Forgets \cap Rebuilds = {}
  BY Apart
<1>1. /\ pc[t] \in DOMAIN Following /\ work' \in Effects(t, work)
      /\ trans' = TRUE /\ disk' = disk /\ opened' = opened
  BY DEF Statement, CancelStatement, Execute
<1>2. /\ work' \in Databases /\ work'.current \subseteq work'.facts
      /\ \/ /\ pc[t] = "insert" /\ t \in Appends
            /\ work'.events = work.events \cup {t}
            /\ work'.facts = work.facts /\ work'.current = work.current
         \/ /\ pc[t] = "retire"
            /\ work'.events = work.events /\ work'.facts = work.facts /\ work'.current = {}
         \/ /\ pc[t] = "record" /\ t \in Upserts
            /\ work'.events = work.events
            /\ work'.facts = work.facts \cup {[src |-> Source[t], by |-> t]}
            /\ work'.current = work.current \cup {[src |-> Source[t], by |-> t]}
         \/ /\ pc[t] = "purge"
            /\ work'.events = work.events
            /\ work'.facts \subseteq work.facts /\ work'.current \subseteq work.current
         \/ /\ pc[t] = "delete" /\ t \in Forgets
            /\ work'.events = work.events \ {Source[t]}
            /\ work'.facts = work.facts /\ work'.current = work.current
         \/ /\ pc[t] = "begin" /\ work' = work
         \/ /\ pc[t] = "replay" /\ t \in Rebuilds
            /\ work'.events = work.events
            /\ \A row \in work'.facts : row.src \in work.events /\ row.by = t
            /\ \A row, other \in work'.current : row = other
  BY <1>t, <1>1, EffectShape
<1>3. /\ pc[t] \in {"insert", "retire", "record", "purge", "delete", "begin", "replay"}
      /\ Running(t) /\ owner = t /\ res[t] # "ok"
  BY <1>t, <1>1 DEF Following, Running, Stages, Exclusive, ResultIsFinal
<1>4. \A s \in Tasks : s # t => pc'[s] = pc[s] /\ res'[s] = res[s] /\ ~Running(s)
  BY <1>t, <1>3 DEF TypeOK, Statement, CancelStatement, GiveUp, End, Exclusive
<1> DEFINE
      Advances == pc'[t] = Following[pc[t]] /\ res'[t] = res[t] /\ owner' = owner
      Undoes   == /\ pc'[t] = "rollback" /\ t \in Rebuilds /\ pc[t] = "replay"
                  /\ res'[t] = "cancelled" /\ owner' = owner
      Ends     == /\ pc'[t] = "done" /\ (t \in Rebuilds => pc[t] # "replay")
                  /\ res'[t] = "cancelled" /\ owner' = NoTask
<1>5. Advances \/ Undoes \/ Ends
  <2> USE <1>t DEF TypeOK
  <2>1. CASE Statement(t)
    BY <2>1 DEF Statement
  <2>2. CASE CancelStatement(t)
    <3>1. CASE Guarded(t)
      BY <1>3, <2>2, <3>1 DEF CancelStatement, GiveUp, Guarded
    <3>2. CASE ~Guarded(t)
      <4>1. t \in Rebuilds => pc[t] # "replay"
        BY <3>2 DEF Guarded
      <4>2. End(t, "cancelled")
        BY <2>2, <3>2 DEF CancelStatement, GiveUp
      <4> QED BY <1>3, <4>1, <4>2 DEF End
    <3> QED BY <3>1, <3>2
  <2> QED BY <2>1, <2>2
<1>6. /\ pc' = [pc EXCEPT ![t] = pc'[t]] /\ res' = [res EXCEPT ![t] = res'[t]]
  BY <1>t DEF TypeOK, Statement, CancelStatement, GiveUp, End
<1>f. /\ pc[t] = "insert" => Following[pc[t]] = "commit"
      /\ pc[t] = "retire" => Following[pc[t]] = "record"
      /\ pc[t] = "record" => Following[pc[t]] = "commit"
      /\ pc[t] = "purge" => Following[pc[t]] = "delete"
      /\ pc[t] = "delete" => Following[pc[t]] = "commit"
      /\ pc[t] = "begin" => Following[pc[t]] = "replay"
      /\ pc[t] = "replay" => Following[pc[t]] = "commit"
  BY DEF Following
<1>7. \A s \in Tasks : pc[s] # "idle" => pc'[s] # "idle"
  BY <1>3, <1>4, <1>5, <1>f
<1>8. \A e : Forgotten(e) => Forgotten(e)'
  BY <1>7, ForgottenStays
<1>9. TypeOK'
  <2>1. /\ pc'[t] \in Stages \cup {"idle", "lock", "done"}
        /\ owner' \in Tasks \cup {NoTask}
        /\ res'[t] \in Results
    BY <1>t, <1>3, <1>5, <1>f DEF TypeOK, Stages, Results
  <2> QED BY <1>t, <1>1, <1>2, <1>6, <2>1 DEF TypeOK
<1>10. OwnStages'
  BY <1>t, <1>3, <1>4, <1>5, <1>f DEF OwnStages, Running, Stages
<1>11. Exclusive'
  BY <1>3, <1>4, <1>5 DEF Exclusive, Running, Stages
<1>12. ResultIsFinal'
  BY <1>t, <1>3, <1>4, <1>5 DEF ResultIsFinal
<1>13. Clean'
  BY <1>1 DEF Clean
<1>14. \A e \in work.events : e \in work'.events \/ Forgotten(e)'
  <2>1. pc'[t] # "idle"
    BY <1>3, <1>7
  <2>2. t \in Forgets => Forgotten(Source[t])'
    BY <2>1 DEF Forgotten
  <2>3. \A e \in work.events : e \in work'.events \/ (t \in Forgets /\ e = Source[t])
    BY <1>2
  <2> QED BY <2>2, <2>3
<1>15. KeepsEvents'
  <2>1. \A e \in Appends : pc'[e] = "commit" => e = t /\ pc[t] = "insert"
    <3>1. t \in Appends => pc[t] = "insert"
      BY Apart, <1>t, <1>3 DEF OwnStages
    <3> QED BY <1>4, <3>1 DEF Running, Stages, Tasks
  <2>2. \A e \in Appends : res'[e] = "ok" => res[e] = "ok"
    BY <1>3, <1>4, <1>5 DEF Tasks
  <2> QED BY <1>t, <1>1, <1>2, <1>8, <1>14, <2>1, <2>2 DEF KeepsEvents
<1>16. OneCurrentFact'
  BY <1>t, <1>1, <1>2 DEF OneCurrentFact, RetiresFirst
<1>17. RetiresFirst'
  BY <1>2, <1>3, <1>4, <1>5, <1>f DEF RetiresFirst, Running, Stages
<1>18. RebuildTraces'
  <2>1. \A row \in work'.facts : row.by \in Rebuilds =>
           row \in work.facts \/ (row.by = t /\ pc[t] = "replay")
    BY <1>2, <1>d
  <2>2. pc[t] = "replay" => pc'[t] \in {"commit", "rollback"}
    BY <1>2, <1>5, <1>f
  <2>3. \A row \in work.facts : row.by \in Rebuilds => row.by # t
    BY <1>t, <1>3 DEF RebuildTraces
  <2>4. \A row \in disk.facts : row.by \in Rebuilds => row.by # t
    BY <1>t, <1>3 DEF RebuildTraces
  <2> QED BY <1>t, <1>1, <1>4, <2>1, <2>2, <2>3, <2>4 DEF RebuildTraces, Tasks
<1>19. CitesEvents(lost)'
  <2>1. \A row \in work'.facts : row.src \in work.events \cup lost \/ Forgotten(row.src)
    BY <1>t, <1>2 DEF CitesEvents, KeepsEvents
  <2>2. \A row \in work'.facts : row.src \in work'.events \cup lost \/ Forgotten(row.src)'
    BY <1>8, <1>14, <2>1
  <2> QED BY <1>t, <1>1, <1>8, <2>2 DEF CitesEvents
<1> QED BY <1>7, <1>9, <1>10, <1>11, <1>12, <1>13, <1>15, <1>16, <1>17, <1>18, <1>19
        DEF StoreInv

(* Actions that commit what the connection has written, its own or not.    *)
LEMMA CommitStep ==
  ASSUME StoreInv, NEW lost, CitesEvents(lost),
         NEW t \in Tasks, Commit(t) \/ CancelCommit(t)
  PROVE  /\ StoreInv' /\ CitesEvents(lost)'
         /\ \A s \in Tasks : pc[s] # "idle" => pc'[s] # "idle"
<1>t. /\ TypeOK /\ OwnStages /\ Exclusive /\ ResultIsFinal /\ Clean /\ KeepsEvents
      /\ OneCurrentFact /\ RetiresFirst /\ RebuildTraces
  BY DEF StoreInv
<1>d. NoTask \notin Tasks
  BY Apart
<1>1. /\ pc[t] = "commit" /\ disk' = work /\ work' = work /\ trans' = FALSE /\ opened' = opened
  BY DEF Commit, CancelCommit, Commits
<1>2. Running(t) /\ owner = t
  BY <1>t, <1>1 DEF Running, Stages, Exclusive
<1>3. \A s \in Tasks : s # t => pc'[s] = pc[s] /\ res'[s] = res[s] /\ ~Running(s)
  BY <1>t, <1>2 DEF TypeOK, Commit, CancelCommit, GiveUp, End, Exclusive
<1> DEFINE
      Undoes == /\ pc'[t] = "rollback" /\ t \in Rebuilds
                /\ res'[t] = "cancelled" /\ owner' = owner
      Ends   == pc'[t] = "done" /\ res'[t] \in {"ok", "cancelled"} /\ owner' = NoTask
<1>4. Undoes \/ Ends
  <2> USE <1>t DEF TypeOK
  <2>1. CASE Commit(t)
    BY <1>2, <2>1 DEF Commit, End
  <2>2. CASE CancelCommit(t)
    BY <1>2, <2>2 DEF CancelCommit, GiveUp, Guarded, End
  <2> QED BY <2>1, <2>2
<1>5. /\ pc' = [pc EXCEPT ![t] = pc'[t]] /\ res' = [res EXCEPT ![t] = res'[t]]
  BY <1>t DEF TypeOK, Commit, CancelCommit, GiveUp, End
<1>6. \A s \in Tasks : pc[s] # "idle" => pc'[s] # "idle"
  BY <1>3, <1>4
<1>7. TypeOK'
  <2>1. /\ pc'[t] \in Stages \cup {"idle", "lock", "done"}
        /\ owner' \in Tasks \cup {NoTask}
        /\ res'[t] \in Results
    BY <1>t, <1>4 DEF TypeOK, Stages, Results
  <2> QED BY <1>t, <1>1, <1>5, <2>1 DEF TypeOK
<1>8. OwnStages'
  BY <1>t, <1>3, <1>4 DEF OwnStages, Running, Stages
<1>9. Exclusive'
  BY <1>2, <1>3, <1>4 DEF Exclusive, Running, Stages
<1>10. ResultIsFinal'
  BY <1>t, <1>3, <1>4 DEF ResultIsFinal
<1>11. Clean'
  BY <1>1 DEF Clean
<1>12. KeepsEvents'
  <2>1. \A e : Forgotten(e) => Forgotten(e)'
    BY <1>6, ForgottenStays
  <2>2. \A e \in Appends : pc'[e] = "commit" => pc[e] = "commit"
    BY <1>3, <1>4 DEF Tasks
  <2>3. \A e \in Appends : res'[e] = "ok" => res[e] = "ok" \/ pc[e] = "commit"
    BY <1>1, <1>3, <1>4 DEF Tasks
  <2> QED BY <1>t, <1>1, <2>1, <2>2, <2>3 DEF KeepsEvents
<1>13. OneCurrentFact'
  BY <1>t, <1>1 DEF OneCurrentFact
<1>14. RetiresFirst'
  BY <1>t, <1>1, <1>3, <1>4 DEF RetiresFirst
<1>15. RebuildTraces'
  <2>1. \A row \in work.facts : row.by \in Rebuilds =>
           \/ row.by = t
           \/ pc[row.by] = "done" /\ res[row.by] # "failed"
    BY <1>t, <1>3 DEF RebuildTraces, Running, Stages, Tasks
  <2> QED BY <1>1, <1>3, <1>4, <2>1 DEF RebuildTraces, Tasks
<1>16. CitesEvents(lost)'
  BY <1>t, <1>1, <1>6, ForgottenStays DEF CitesEvents
<1> QED BY <1>6, <1>7, <1>8, <1>9, <1>10, <1>11, <1>12, <1>13, <1>14, <1>15, <1>16
        DEF StoreInv

(* Actions that return to what is committed.                               *)
LEMMA RollbackStep ==
  ASSUME StoreInv, NEW lost, CitesEvents(lost),
         NEW t \in Tasks, Rollback(t) \/ Close(t)
  PROVE  /\ StoreInv' /\ CitesEvents(lost)'
         /\ \A s \in Tasks : pc[s] # "idle" => pc'[s] # "idle"
<1>t. /\ TypeOK /\ OwnStages /\ Exclusive /\ ResultIsFinal /\ Clean /\ KeepsEvents
      /\ OneCurrentFact /\ RetiresFirst /\ RebuildTraces
  BY DEF StoreInv
<1>d. /\ NoTask \notin Tasks /\ Appends \cap Rebuilds = {} /\ Appends \cap Closes = {}
      /\ Closes \cap Rebuilds = {}
  BY Apart
<1>1. /\ disk' = disk /\ work' = disk /\ trans' = FALSE /\ opened' \in BOOLEAN
  BY <1>t DEF Rollback, Close, RollsBack, TypeOK
<1>2. /\ pc[t] \in {"rollback", "close"}
      /\ pc[t] = "rollback" => t \in Rebuilds /\ res'[t] = res[t]
      /\ pc[t] = "close" => t \in Closes /\ res'[t] = "ok"
      /\ Running(t) /\ owner = t /\ res[t] # "ok"
  BY <1>t DEF Rollback, Close, End, TypeOK, Running, Stages, Exclusive, OwnStages, ResultIsFinal
<1>3. \A s \in Tasks : s # t => pc'[s] = pc[s] /\ res'[s] = res[s] /\ ~Running(s)
  BY <1>t, <1>2 DEF TypeOK, Rollback, Close, End, Exclusive
<1>4. pc'[t] = "done" /\ owner' = NoTask
  BY <1>t, <1>2 DEF TypeOK, Rollback, Close, End
<1>5. /\ pc' = [pc EXCEPT ![t] = pc'[t]] /\ res' = [res EXCEPT ![t] = res'[t]]
  BY <1>t DEF TypeOK, Rollback, Close, End
<1>6. \A s \in Tasks : pc[s] # "idle" => pc'[s] # "idle"
  BY <1>3, <1>4
<1>7. TypeOK'
  <2>1. res'[t] \in Results
    BY <1>t, <1>2 DEF TypeOK, Results
  <2> QED BY <1>t, <1>1, <1>4, <1>5, <2>1 DEF TypeOK
<1>8. OwnStages'
  BY <1>t, <1>3, <1>4 DEF OwnStages, Running, Stages
<1>9. Exclusive'
  BY <1>3, <1>4 DEF Exclusive, Running, Stages
<1>10. ResultIsFinal'
  BY <1>t, <1>3, <1>4 DEF ResultIsFinal
<1>11. Clean'
  BY <1>1 DEF Clean
<1>12. KeepsEvents'
  <2>1. \A e : Forgotten(e) => Forgotten(e)'
    BY <1>6, ForgottenStays
  <2>2. \A e \in Appends : pc'[e] # "commit"
    BY <1>3, <1>4 DEF Running, Stages, Tasks
  <2>3. \A e \in Appends : res'[e] = "ok" => res[e] = "ok"
    BY <1>d, <1>2, <1>3 DEF Tasks
  <2> QED BY <1>t, <1>1, <2>1, <2>2, <2>3 DEF KeepsEvents
<1>13. OneCurrentFact'
  BY <1>t, <1>1 DEF OneCurrentFact
<1>14. RetiresFirst'
  BY <1>3, <1>4 DEF RetiresFirst, Running, Stages
<1>15. RebuildTraces'
  BY <1>t, <1>d, <1>1, <1>2, <1>3, <1>4 DEF RebuildTraces, Tasks
<1>16. CitesEvents(lost)'
  BY <1>t, <1>1, <1>6, ForgottenStays DEF CitesEvents
<1> QED BY <1>6, <1>7, <1>8, <1>9, <1>10, <1>11, <1>12, <1>13, <1>14, <1>15, <1>16
        DEF StoreInv

LEMMA CrashStep ==
  ASSUME StoreInv, NEW lost, CitesEvents(lost), Crash
  PROVE  /\ StoreInv' /\ CitesEvents(lost)'
         /\ \A s \in Tasks : pc[s] # "idle" => pc'[s] # "idle"
<1>t. /\ TypeOK /\ OwnStages /\ Exclusive /\ ResultIsFinal /\ Clean /\ KeepsEvents
      /\ OneCurrentFact /\ RetiresFirst /\ RebuildTraces
  BY DEF StoreInv
<1>1. /\ disk' = disk /\ work' = disk /\ trans' = FALSE /\ opened' = FALSE /\ owner' = NoTask
  BY DEF Crash, RollsBack
<1>2. \A s \in Tasks : \/ pc'[s] = "done" /\ res'[s] = "crashed" /\ pc[s] # "done" /\ pc[s] # "idle"
                       \/ pc'[s] = pc[s] /\ res'[s] = res[s] /\ pc[s] \in {"idle", "done"}
  BY <1>t DEF Crash, Dead, TypeOK
<1>3. \A s \in Tasks : pc[s] # "idle" => pc'[s] # "idle"
  BY <1>2
<1>4. TypeOK'
  <2>1. pc' \in [Tasks -> {"idle", "done"}] /\ res' \in [Tasks -> Results]
    BY <1>t DEF Crash, Dead, TypeOK, Results
  <2> QED BY <1>t, <1>1, <2>1 DEF TypeOK
<1>5. OwnStages' /\ Exclusive' /\ RetiresFirst'
  BY <1>2 DEF OwnStages, Exclusive, RetiresFirst, Running, Stages
<1>6. ResultIsFinal'
  BY <1>t, <1>2 DEF ResultIsFinal
<1>7. Clean'
  BY <1>1 DEF Clean
<1>8. KeepsEvents'
  <2>1. \A e : Forgotten(e) => Forgotten(e)'
    BY <1>3, ForgottenStays
  <2>2. \A e \in Appends : pc'[e] # "commit" /\ (res'[e] = "ok" => res[e] = "ok")
    BY <1>2 DEF Tasks
  <2> QED BY <1>t, <1>1, <2>1, <2>2 DEF KeepsEvents
<1>9. OneCurrentFact'
  BY <1>t, <1>1 DEF OneCurrentFact
<1>10. RebuildTraces'
  BY <1>t, <1>1, <1>2 DEF RebuildTraces, Tasks
<1>11. CitesEvents(lost)'
  BY <1>t, <1>1, <1>3, ForgottenStays DEF CitesEvents
<1> QED BY <1>3, <1>4, <1>5, <1>6, <1>7, <1>8, <1>9, <1>10, <1>11 DEF StoreInv

(* What every action of one operation keeps.                               *)
LEMMA Operation ==
  ASSUME StoreInv, NEW lost, CitesEvents(lost), FactsFollowEvents(lost), NEW t \in Tasks,
         Call(t) \/ Step(t) \/ StatementFails(t) \/ CancelOperation(t)
  PROVE  /\ StoreInv' /\ CitesEvents(lost)'
         /\ \A s \in Tasks : pc[s] # "idle" => pc'[s] # "idle"
         /\ \A s \in Tasks : s # t => pc'[s] = pc[s] /\ res'[s] = res[s]
         /\ pc[t] # "done"
         /\ Call(t) \/ pc[t] # "idle"
         /\ disk' \in {disk, work}
<1>1. TypeOK
  BY DEF StoreInv
<1>2. CASE Quiet(t)
  <2>1. StoreInv' /\ CitesEvents(lost)' /\ \A s \in Tasks : pc[s] # "idle" => pc'[s] # "idle"
    BY <1>2, QuietStep
  <2>2. /\ \A s \in Tasks : s # t => pc'[s] = pc[s] /\ res'[s] = res[s]
        /\ disk' = disk /\ pc[t] # "done" /\ (Call(t) \/ pc[t] # "idle")
    BY <1>1, <1>2 DEF Quiet, Call, Acquire, BeginRefused, StatementFails, CancelWait, GiveUp,
                      End, TypeOK, Following
  <2> QED BY <2>1, <2>2
<1>3. CASE Statement(t) \/ CancelStatement(t)
  <2>1. pc[t] \notin {"idle", "done"}
    BY <1>3 DEF Statement, CancelStatement, Execute, Following
  <2>2. t \in Upserts => Source[t] \in disk.events \cup lost \/ Forgotten(Source[t])
    BY <2>1 DEF FactsFollowEvents, Durable
  <2>3. StoreInv' /\ CitesEvents(lost)' /\ \A s \in Tasks : pc[s] # "idle" => pc'[s] # "idle"
    BY <1>3, <2>2, WriteStep
  <2>4. /\ \A s \in Tasks : s # t => pc'[s] = pc[s] /\ res'[s] = res[s]
        /\ disk' = disk
    BY <1>1, <1>3 DEF Statement, CancelStatement, Execute, GiveUp, End, TypeOK
  <2> QED BY <2>1, <2>3, <2>4
<1>4. CASE Commit(t) \/ CancelCommit(t)
  <2>1. StoreInv' /\ CitesEvents(lost)' /\ \A s \in Tasks : pc[s] # "idle" => pc'[s] # "idle"
    BY <1>4, CommitStep
  <2>2. /\ \A s \in Tasks : s # t => pc'[s] = pc[s] /\ res'[s] = res[s]
        /\ disk' = work /\ pc[t] = "commit"
    BY <1>1, <1>4 DEF Commit, CancelCommit, Commits, GiveUp, End, TypeOK
  <2> QED BY <2>1, <2>2
<1>5. CASE Rollback(t) \/ Close(t)
  <2>1. StoreInv' /\ CitesEvents(lost)' /\ \A s \in Tasks : pc[s] # "idle" => pc'[s] # "idle"
    BY <1>5, RollbackStep
  <2>2. /\ \A s \in Tasks : s # t => pc'[s] = pc[s] /\ res'[s] = res[s]
        /\ disk' = disk /\ pc[t] \in {"rollback", "close"}
    BY <1>1, <1>5 DEF Rollback, Close, RollsBack, End, TypeOK
  <2> QED BY <2>1, <2>2
<1> QED BY <1>2, <1>3, <1>4, <1>5 DEF Step, CancelOperation, Quiet

(* What is durable stays so as long as the committed database is the old   *)
(* one or what the connection saw.                                         *)
LEMMA DurableStays ==
  ASSUME StoreInv, disk' \in {disk, work},
         \A s \in Tasks : pc[s] # "idle" => pc'[s] # "idle",
         NEW e, Durable(e)
  PROVE  Durable(e)'
<1>1. Forgotten(e) => Forgotten(e)'
  BY ForgottenStays
<1>2. e \in disk.events => e \in disk'.events \/ Forgotten(e)
  BY DEF StoreInv, KeepsEvents
<1> QED BY <1>1, <1>2 DEF Durable

LEMMA StoreUnchanged ==
  ASSUME StoreInv, UNCHANGED storeVars
  PROVE  /\ StoreInv'
         /\ \A e : Durable(e)' <=> Durable(e)
         /\ \A lost : CitesEvents(lost) => CitesEvents(lost)'
         /\ \A lost : FactsFollowEvents(lost) => FactsFollowEvents(lost)'
<1>1. /\ disk' = disk /\ work' = work /\ trans' = trans /\ opened' = opened
      /\ owner' = owner /\ pc' = pc /\ res' = res
  BY DEF storeVars
<1>2. \A e : Forgotten(e)' <=> Forgotten(e)
  BY <1>1 DEF Forgotten
<1>3. \A e : Durable(e)' <=> Durable(e)
  BY <1>1, <1>2 DEF Durable
<1>4. TypeOK' /\ OwnStages' /\ Exclusive' /\ ResultIsFinal' /\ Clean'
  BY <1>1 DEF StoreInv, TypeOK, OwnStages, Exclusive, Running, ResultIsFinal, Clean
<1>5. OneCurrentFact' /\ RetiresFirst' /\ RebuildTraces'
  BY <1>1 DEF StoreInv, OneCurrentFact, RetiresFirst, RebuildTraces
<1>6. KeepsEvents'
  BY <1>1, <1>2 DEF StoreInv, KeepsEvents
<1>7. ASSUME NEW lost
      PROVE  /\ CitesEvents(lost) => CitesEvents(lost)'
             /\ FactsFollowEvents(lost) => FactsFollowEvents(lost)'
  BY <1>1, <1>2, <1>3 DEF CitesEvents, FactsFollowEvents
<1> QED BY <1>3, <1>4, <1>5, <1>6, <1>7 DEF StoreInv

-----------------------------------------------------------------------------
LEMMA BusInitially == BusInit => BusInv
<1> SUFFICES ASSUME BusInit PROVE BusInv
  OBVIOUS
<1>1. TypeOK
  <2>1. /\ disk = [events |-> {}, facts |-> {}, current |-> {}] /\ work = disk
        /\ trans = FALSE /\ opened = FALSE /\ owner = NoTask
        /\ pc = [t \in Tasks |-> "idle"] /\ res = [t \in Tasks |-> "none"]
    BY DEF BusInit, Init
  <2>2. disk \in Databases /\ disk.current \subseteq disk.facts
    BY <2>1 DEF Databases
  <2> QED BY <2>1, <2>2 DEF TypeOK, Results
<1>2. OwnStages /\ Exclusive /\ ResultIsFinal /\ Clean /\ OneCurrentFact /\ RetiresFirst
  BY DEF BusInit, Init, OwnStages, Exclusive, Running, Stages, ResultIsFinal, Clean,
         OneCurrentFact, RetiresFirst
<1>3. KeepsEvents /\ RebuildTraces
  BY DEF BusInit, Init, KeepsEvents, RebuildTraces, Tasks
<1>4. BusTypeOK
  <2>1. /\ stage \in [Appends -> Stage] /\ holder \in Appends \cup {NoHolder}
        /\ sub \in [Handlers -> {"new", "on", "off", "quarantined"}]
        /\ nested \in [Handlers -> Appends \cup {NoEvent}]
    BY DEF BusInit, Stage
  <2>2. /\ notify \subseteq Handlers /\ due \subseteq Handlers \X Appends
        /\ handed \subseteq Handlers \X Appends
    BY DEF BusInit
  <2>3. log \in Seq(Appends)
    BY DEF BusInit
  <2>4. stopping \in BOOLEAN /\ closed \in BOOLEAN
    BY DEF BusInit
  <2>5. faults \in 0..MaxFaults
    BY BusAssumption DEF BusInit
  <2> QED BY <1>1, <2>1, <2>2, <2>3, <2>4, <2>5 DEF BusTypeOK
<1>5. /\ PublishMatchesAppend /\ DueInDelivery /\ NotifiedAreLive /\ DeliveredIsDurable
      /\ ClosedBusIsIdle /\ FactsAreBacked
  BY BusAssumption DEF BusInit, Init, PublishMatchesAppend, DueInDelivery, NotifiedAreLive,
        DeliveredIsDurable, ClosedBusIsIdle, FactsAreBacked, FactsFollowEvents, CitesEvents, Tasks
<1> QED BY <1>1, <1>2, <1>3, <1>4, <1>5 DEF BusInv, StoreInv

(* Actions of the bus alone.                                               *)
BusOnly ==
  \/ \E e \in Appends : \/ Publish(e) \/ Appended(e) \/ AppendRefused(e) \/ Delivered(e)
                        \/ Begin(e) /\ UNCHANGED storeVars
                        \/ Abandon(e) /\ UNCHANGED storeVars
  \/ \E h \in Handlers : Subscribe(h) \/ Unsubscribe(h)
  \/ \E h \in Handlers, e \in Appends : PublishFrom(h, e) \/ Handled(h, e) \/ TimeOut(h, e)
  \/ Stop \/ Shutdown

BusAndStore ==
  \/ \E e \in Appends : (Begin(e) /\ Call(e)) \/ (Abandon(e) /\ AbandonAppend(e))
  \/ \E t \in Tasks : Client(t) \/ StoreStep(t) \/ StoreFault(t)
  \/ Restart

(* A publish that was cancelled for good stays so.                         *)
LEMMA AbandonedStays ==
  ASSUME BusTypeOK, BusOnly \/ BusAndStore, NEW e \in Appends, stage[e] = "abandoned"
  PROVE  stage'[e] = "abandoned"
<1>1. stage \in [Appends -> Stage]
  BY DEF BusTypeOK
<1>2. ASSUME NEW d \in Appends, Publish(d) \/ Appended(d) \/ AppendRefused(d) \/ Delivered(d)
      PROVE  stage'[e] = "abandoned"
  BY <1>1, <1>2 DEF Publish, Appended, AppendRefused, Delivered, Move
<1>3. ASSUME NEW d \in Appends, Begin(d) \/ Abandon(d)
      PROVE  stage'[e] = "abandoned"
  BY <1>1, <1>3 DEF Begin, Abandon, Move
<1>4. ASSUME NEW h \in Handlers, NEW d \in Appends,
             PublishFrom(h, d) \/ Handled(h, d) \/ TimeOut(h, d)
      PROVE  stage'[e] = "abandoned"
  BY <1>1, <1>4 DEF PublishFrom, Handled, TimeOut, Move
<1>5. ASSUME Restart PROVE stage'[e] = "abandoned"
  BY <1>1, <1>5 DEF Restart, Settled
<1>6. ASSUME \/ \E h \in Handlers : Subscribe(h) \/ Unsubscribe(h)
             \/ \E t \in Tasks : Client(t) \/ StoreStep(t) \/ StoreFault(t)
             \/ Stop \/ Shutdown
      PROVE  stage'[e] = "abandoned"
  BY <1>6 DEF Subscribe, Unsubscribe, Client, StoreStep, StoreFault, Stop, Shutdown, busVars
<1> QED BY <1>2, <1>3, <1>4, <1>5, <1>6 DEF BusOnly, BusAndStore

(* Facts that were backed but for the abandoned publishes of before still  *)
(* are but for those of now.                                               *)
LEMMA BackedStays ==
  ASSUME BusTypeOK, BusOnly \/ BusAndStore, NEW lost, lost = Abandoned,
         CitesEvents(lost)', FactsFollowEvents(lost)'
  PROVE  FactsAreBacked'
<1>1. \A e \in lost : e \in Abandoned'
  BY AbandonedStays DEF Abandoned
<1>2. CitesEvents(Abandoned)'
  BY <1>1 DEF CitesEvents
<1>3. FactsFollowEvents(Abandoned)'
  BY <1>1 DEF FactsFollowEvents
<1> QED BY <1>2, <1>3 DEF FactsAreBacked

LEMMA BusOnlyStep == BusInv /\ UNCHANGED storeVars /\ BusOnly => BusInv'
<1> SUFFICES ASSUME BusInv, UNCHANGED storeVars, BusOnly PROVE BusInv'
  OBVIOUS
<1>t. /\ StoreInv /\ BusTypeOK /\ PublishMatchesAppend /\ DueInDelivery /\ NotifiedAreLive
      /\ FactsAreBacked /\ DeliveredIsDurable /\ ClosedBusIsIdle
  BY DEF BusInv
<1>l. PICK lost : lost = Abandoned
  OBVIOUS
<1>c. CitesEvents(lost) /\ FactsFollowEvents(lost)
  BY <1>t, <1>l DEF FactsAreBacked
<1>s. /\ StoreInv' /\ \A e : Durable(e)' <=> Durable(e)
      /\ CitesEvents(lost)' /\ FactsFollowEvents(lost)'
  BY <1>t, <1>c, StoreUnchanged
<1>b. FactsAreBacked'
  BY <1>t, <1>l, <1>s, BackedStays
<1>1. StoreInv' /\ FactsAreBacked' /\ \A e : Durable(e)' <=> Durable(e)
  BY <1>s, <1>b
<1>2. pc' = pc /\ res' = res
  BY DEF storeVars
<1>3. TypeOK'
  BY <1>1 DEF StoreInv
<1>m. NoEvent \notin Appends /\ NoHolder \notin Appends
  BY BusAssumption
<1>g. \A e \in Appends : res[e] = "ok" => Durable(e)
  BY <1>t DEF StoreInv, KeepsEvents, Durable
<1>4. ASSUME NEW e \in Appends, Publish(e) PROVE BusInv'
  BY <1>t, <1>1, <1>2, <1>3, <1>m, <1>4 DEF BusInv, BusTypeOK, PublishMatchesAppend,
     DueInDelivery, NotifiedAreLive, DeliveredIsDurable, ClosedBusIsIdle, Stage,
     Publish, Move, mutex, calls, history, life
<1>5. ASSUME NEW e \in Appends, Appended(e) PROVE BusInv'
  BY <1>t, <1>1, <1>2, <1>3, <1>m, <1>g, <1>5 DEF BusInv, BusTypeOK, PublishMatchesAppend,
     DueInDelivery, NotifiedAreLive, DeliveredIsDurable, ClosedBusIsIdle, Stage,
     Appended, Release, Move, mutex, calls, history, life
<1>6. ASSUME NEW e \in Appends, AppendRefused(e) PROVE BusInv'
  BY <1>t, <1>1, <1>2, <1>3, <1>m, <1>6 DEF BusInv, BusTypeOK, PublishMatchesAppend,
     DueInDelivery, NotifiedAreLive, DeliveredIsDurable, ClosedBusIsIdle, Stage,
     AppendRefused, Release, Move, mutex, calls, history, life
<1>7. ASSUME NEW e \in Appends, Delivered(e) PROVE BusInv'
  <2>1. \A d \in due : d[2] # e
    BY <1>t, <1>7 DEF Delivered, Due, BusTypeOK
  <2> QED BY <1>t, <1>1, <1>2, <1>3, <1>m, <1>g, <1>7, <2>1 DEF BusInv, BusTypeOK, PublishMatchesAppend,
     DueInDelivery, NotifiedAreLive, DeliveredIsDurable, ClosedBusIsIdle, Stage,
     Delivered, Release, Move, mutex, calls, history, life
<1>8. ASSUME NEW e \in Appends, Begin(e), UNCHANGED storeVars PROVE BusInv'
  BY <1>t, <1>1, <1>2, <1>3, <1>m, <1>8 DEF BusInv, BusTypeOK, PublishMatchesAppend,
     DueInDelivery, NotifiedAreLive, DeliveredIsDurable, ClosedBusIsIdle, Stage,
     Begin, Call, Subscribed, Move, storeVars, mutex, calls, history, life
<1>9. ASSUME NEW e \in Appends, Abandon(e), UNCHANGED storeVars PROVE BusInv'
  <2>1. /\ stage' = [stage EXCEPT ![e] = "abandoned"]
        /\ UNCHANGED <<sub, log, handed, stopping, closed>>
    BY <1>9 DEF Abandon, Move, history, life
  <2>f. faults' \in 0..MaxFaults
    BY <1>t, <1>9, BusAssumption DEF Abandon, BusTypeOK
  <2>2. CASE AbandonQueued(e)
    BY <1>t, <1>1, <1>2, <1>3, <1>m, <2>1, <2>f, <2>2 DEF BusInv, BusTypeOK, PublishMatchesAppend,
     DueInDelivery, NotifiedAreLive, DeliveredIsDurable, ClosedBusIsIdle, Stage,
     AbandonQueued, mutex, calls, history, life
  <2>3. CASE AbandonAppend(e)
    BY <1>t, <1>1, <1>2, <1>3, <1>m, <2>1, <2>f, <2>3 DEF BusInv, BusTypeOK, PublishMatchesAppend,
     DueInDelivery, NotifiedAreLive, DeliveredIsDurable, ClosedBusIsIdle, Stage,
     AbandonAppend, Release, mutex, calls, history, life
  <2>4. CASE AbandonDelivery(e)
    <3>1. nested' \in [Handlers -> Appends \cup {NoEvent}]
      BY <1>t, <2>4 DEF AbandonDelivery, BusTypeOK
    <3>2. due' = {d \in due : d[2] # e} /\ Release /\ stage[e] = "deliver"
      BY <2>4 DEF AbandonDelivery
    <3> QED BY <1>t, <1>1, <1>2, <1>3, <1>m, <2>1, <2>f, <3>1, <3>2 DEF BusInv, BusTypeOK,
     PublishMatchesAppend, DueInDelivery, NotifiedAreLive, DeliveredIsDurable, ClosedBusIsIdle,
     Stage, Release, mutex, calls, history, life
  <2> QED BY <1>9, <2>2, <2>3, <2>4 DEF Abandon
<1>10. ASSUME NEW h \in Handlers, Subscribe(h) PROVE BusInv'
  BY <1>t, <1>1, <1>2, <1>3, <1>m, <1>10 DEF BusInv, BusTypeOK, PublishMatchesAppend,
     DueInDelivery, NotifiedAreLive, DeliveredIsDurable, ClosedBusIsIdle, Stage,
     Subscribe, mutex, calls, history, life
<1>11. ASSUME NEW h \in Handlers, Unsubscribe(h) PROVE BusInv'
  BY <1>t, <1>1, <1>2, <1>3, <1>m, <1>11 DEF BusInv, BusTypeOK, PublishMatchesAppend,
     DueInDelivery, NotifiedAreLive, DeliveredIsDurable, ClosedBusIsIdle, Stage,
     Unsubscribe, mutex, calls, history, life
<1>12. ASSUME NEW h \in Handlers, NEW e \in Appends, PublishFrom(h, e) PROVE BusInv'
  BY <1>t, <1>1, <1>2, <1>3, <1>m, <1>12 DEF BusInv, BusTypeOK, PublishMatchesAppend,
     DueInDelivery, NotifiedAreLive, DeliveredIsDurable, ClosedBusIsIdle, Stage,
     PublishFrom, Move, mutex, calls, history, life
<1>13. ASSUME NEW h \in Handlers, NEW e \in Appends, Handled(h, e) PROVE BusInv'
  BY <1>t, <1>1, <1>2, <1>3, <1>m, <1>13 DEF BusInv, BusTypeOK, PublishMatchesAppend,
     DueInDelivery, NotifiedAreLive, DeliveredIsDurable, ClosedBusIsIdle, Stage,
     Handled, mutex, calls, history, life
<1>14. ASSUME NEW h \in Handlers, NEW e \in Appends, TimeOut(h, e) PROVE BusInv'
  BY <1>t, <1>1, <1>2, <1>3, <1>m, <1>14 DEF BusInv, BusTypeOK, PublishMatchesAppend,
     DueInDelivery, NotifiedAreLive, DeliveredIsDurable, ClosedBusIsIdle, Stage,
     TimeOut, mutex, calls, history, life
<1>15. ASSUME Stop PROVE BusInv'
  BY <1>t, <1>1, <1>2, <1>3, <1>m, <1>15 DEF BusInv, BusTypeOK, PublishMatchesAppend,
     DueInDelivery, NotifiedAreLive, DeliveredIsDurable, ClosedBusIsIdle, Stage,
     Stop, mutex, calls, history, life
<1>16. ASSUME Shutdown PROVE BusInv'
  BY <1>t, <1>1, <1>2, <1>3, <1>m, <1>16 DEF BusInv, BusTypeOK, PublishMatchesAppend,
     DueInDelivery, NotifiedAreLive, DeliveredIsDurable, ClosedBusIsIdle, Stage,
     Shutdown, mutex, calls, history, life
<1> QED BY <1>4, <1>5, <1>6, <1>7, <1>8, <1>9, <1>10, <1>11, <1>12, <1>13, <1>14, <1>15, <1>16 DEF BusOnly

(* An operation of the store steps: the bus's view of appends still holds. *)
LEMMA StoreOnlyStep ==
  ASSUME BusInv, NEW lost, lost = Abandoned, NEW t \in Tasks,
         Call(t) \/ Step(t) \/ StatementFails(t) \/ CancelOperation(t),
         (t \in Upserts /\ pc[t] = "idle") => Durable(Source[t]) \/ Source[t] \in lost
  PROVE  /\ StoreInv' /\ CitesEvents(lost)' /\ FactsFollowEvents(lost)'
         /\ \A e : Durable(e) => Durable(e)'
         /\ \A e \in Appends : res[e] = "ok" => res'[e] = "ok"
         /\ \A e \in Appends : (e # t \/ (pc[e] = "idle" /\ ~Call(t))) => pc'[e] = pc[e]
<1>t. StoreInv /\ CitesEvents(lost) /\ FactsFollowEvents(lost)
  BY DEF BusInv, FactsAreBacked
<1>1. /\ StoreInv' /\ CitesEvents(lost)'
      /\ \A s \in Tasks : pc[s] # "idle" => pc'[s] # "idle"
      /\ \A s \in Tasks : s # t => pc'[s] = pc[s] /\ res'[s] = res[s]
      /\ pc[t] # "done"
      /\ Call(t) \/ pc[t] # "idle"
      /\ disk' \in {disk, work}
  BY <1>t, Operation
<1>2. \A e : Durable(e) => Durable(e)'
  BY <1>t, <1>1, DurableStays
<1>3. \A e \in Appends : res[e] = "ok" => res'[e] = "ok"
  BY <1>t, <1>1 DEF StoreInv, ResultIsFinal, Tasks
<1>4. \A u \in Upserts : pc'[u] # "idle" => Durable(Source[u]) \/ Source[u] \in lost
  BY <1>t, <1>1 DEF FactsFollowEvents, Tasks
<1>5. FactsFollowEvents(lost)'
  BY <1>2, <1>4 DEF FactsFollowEvents
<1>6. \A e \in Appends : (e # t \/ (pc[e] = "idle" /\ ~Call(t))) => pc'[e] = pc[e]
  BY <1>1 DEF Tasks
<1> QED BY <1>1, <1>2, <1>3, <1>5, <1>6

LEMMA BusAndStoreStep == BusInv /\ BusAndStore => BusInv'
<1> SUFFICES ASSUME BusInv, BusAndStore PROVE BusInv'
  OBVIOUS
<1>t. /\ StoreInv /\ BusTypeOK /\ PublishMatchesAppend /\ DueInDelivery /\ NotifiedAreLive
      /\ FactsAreBacked /\ DeliveredIsDurable /\ ClosedBusIsIdle
  BY DEF BusInv
<1>l. PICK lost : lost = Abandoned
  OBVIOUS
<1>c. CitesEvents(lost) /\ FactsFollowEvents(lost)
  BY <1>t, <1>l DEF FactsAreBacked
<1>b. ASSUME CitesEvents(lost)', FactsFollowEvents(lost)' PROVE FactsAreBacked'
  BY <1>t, <1>l, <1>b, BackedStays
<1>m. NoEvent \notin Appends /\ NoHolder \notin Appends
  BY BusAssumption
<1>g. \A e \in Appends : res[e] = "ok" => Durable(e)
  BY <1>t DEF StoreInv, KeepsEvents, Durable
<1>d. /\ \A e \in Appends : e \in Tasks /\ e \notin Upserts
      /\ \A u \in Upserts \cup Forgets : Source[u] \in Appends
  BY Apart, TasksAssumption DEF Tasks
<1>1. ASSUME NEW e \in Appends, Begin(e), Call(e) PROVE BusInv'
  <2>1. /\ StoreInv' /\ CitesEvents(lost)' /\ FactsFollowEvents(lost)'
        /\ \A d : Durable(d) => Durable(d)'
        /\ \A d \in Appends : res[d] = "ok" => res'[d] = "ok"
        /\ \A d \in Appends : d # e => pc'[d] = pc[d]
    BY <1>d, <1>l, <1>1, StoreOnlyStep
  <2>2. /\ stage[e] = "queued" /\ holder = NoHolder
        /\ UNCHANGED <<sub, due, nested, log, handed, stopping, closed, faults>>
    BY <1>1 DEF Begin, calls, history, life
  <2>3. /\ closed = FALSE /\ stage' = [stage EXCEPT ![e] = "append"]
        /\ holder' = e /\ notify' = Subscribed
    <3>1. ~UNCHANGED storeVars
      <4>1. pc[e] = "idle" /\ pc' = [pc EXCEPT ![e] = "lock"]
        BY <1>1 DEF Call
      <4>2. pc'[e] # pc[e]
        BY <1>t, <1>d, <4>1 DEF StoreInv, TypeOK
      <4> QED BY <4>2 DEF storeVars
    <3>2. ~closed
      BY <1>1, <3>1 DEF Begin, storeVars
    <3> QED BY <1>1, <1>t, <3>2 DEF Begin, Move, BusTypeOK
  <2>4. TypeOK' /\ FactsAreBacked'
    BY <1>b, <2>1 DEF StoreInv
  <2> QED BY <1>t, <1>m, <2>1, <2>2, <2>3, <2>4 DEF BusInv, BusTypeOK, PublishMatchesAppend,
     DueInDelivery, NotifiedAreLive, DeliveredIsDurable, ClosedBusIsIdle, Stage, Subscribed
<1>2. ASSUME NEW e \in Appends, Abandon(e), AbandonAppend(e) PROVE BusInv'
  <2>1. /\ StoreInv' /\ CitesEvents(lost)' /\ FactsFollowEvents(lost)'
        /\ \A d : Durable(d) => Durable(d)'
        /\ \A d \in Appends : res[d] = "ok" => res'[d] = "ok"
        /\ \A d \in Appends : d # e => pc'[d] = pc[d]
    BY <1>d, <1>l, <1>2, StoreOnlyStep DEF AbandonAppend
  <2>2. /\ stage[e] = "append" /\ Release /\ stage' = [stage EXCEPT ![e] = "abandoned"]
        /\ UNCHANGED <<sub, due, nested, log, handed, stopping, closed>>
    BY <1>2 DEF Abandon, AbandonAppend, Move, calls, history, life
  <2>3. faults' \in 0..MaxFaults
    BY <1>t, <1>2, BusAssumption DEF Abandon, BusTypeOK
  <2>4. TypeOK' /\ FactsAreBacked'
    BY <1>b, <2>1 DEF StoreInv
  <2> QED BY <1>t, <1>m, <2>1, <2>2, <2>3, <2>4 DEF BusInv, BusTypeOK, PublishMatchesAppend,
     DueInDelivery, NotifiedAreLive, DeliveredIsDurable, ClosedBusIsIdle, Stage, Release
<1>3. ASSUME NEW t \in Tasks, Client(t) \/ StoreStep(t) \/ StoreFault(t) PROVE BusInv'
  <2>1. Call(t) \/ Step(t) \/ StatementFails(t) \/ CancelOperation(t)
    BY <1>3 DEF Client, StoreStep, StoreFault
  <2>2. (t \in Upserts /\ pc[t] = "idle") => Durable(Source[t]) \/ Source[t] \in lost
    <3> SUFFICES ASSUME t \in Upserts, pc[t] = "idle"
                 PROVE  Durable(Source[t]) \/ Source[t] \in lost
      OBVIOUS
    <3>1. Call(t) \/ pc[t] # "idle"
      BY <1>t, <1>c, <2>1, Operation
    <3>2. stage[Source[t]] \in {"published", "abandoned"}
      BY <1>3, <3>1 DEF Client, StoreStep, StoreFault, Step, StatementFails, CancelOperation,
                        Call, Acquire, Statement, Commit, Rollback, Close, BeginRefused,
                        CancelWait, CancelStatement, CancelCommit, Execute, Following
    <3> QED BY <1>t, <1>d, <1>l, <3>2 DEF DeliveredIsDurable, Abandoned
  <2>3. /\ StoreInv' /\ CitesEvents(lost)' /\ FactsFollowEvents(lost)'
        /\ \A d : Durable(d) => Durable(d)'
        /\ \A d \in Appends : res[d] = "ok" => res'[d] = "ok"
        /\ \A d \in Appends : (d # t \/ (pc[d] = "idle" /\ ~Call(t))) => pc'[d] = pc[d]
    BY <1>l, <2>1, <2>2, StoreOnlyStep
  <2>4. t \in Appends => ~Call(t)
    BY <1>3 DEF Client, StoreStep, StoreFault, Step, StatementFails, CancelOperation,
                Call, Acquire, Statement, Commit, Rollback, Close, BeginRefused,
                CancelWait, CancelStatement, CancelCommit, Execute, Following
  <2>5. \A d \in Appends : pc[d] = "idle" => pc'[d] = "idle"
    BY <2>3, <2>4
  <2>6. UNCHANGED <<stage, holder, notify, sub, due, nested, log, handed, stopping, closed>>
    BY <1>3 DEF Client, StoreStep, StoreFault, busVars, mutex, calls, history, life
  <2>7. faults' \in 0..MaxFaults
    BY <1>t, <1>3, BusAssumption DEF Client, StoreStep, StoreFault, busVars, BusTypeOK
  <2>8. TypeOK' /\ FactsAreBacked'
    BY <1>b, <2>3 DEF StoreInv
  <2> QED BY <1>t, <1>m, <2>3, <2>5, <2>6, <2>7, <2>8 DEF BusInv, BusTypeOK,
     PublishMatchesAppend, DueInDelivery, NotifiedAreLive, DeliveredIsDurable, ClosedBusIsIdle
<1>4. ASSUME Restart PROVE BusInv'
  <2>1. Crash /\ disk' = disk
    BY <1>4 DEF Restart, Crash, RollsBack
  <2>2. StoreInv' /\ CitesEvents(lost)' /\ \A s \in Tasks : pc[s] # "idle" => pc'[s] # "idle"
    BY <1>t, <1>c, <2>1, CrashStep
  <2>3. \A e : Durable(e) => Durable(e)'
    BY <1>t, <2>1, <2>2, DurableStays
  <2>4. /\ \A t \in Tasks : pc[t] = "idle" => pc'[t] = "idle"
        /\ \A t \in Tasks : res[t] = "ok" => res'[t] = "ok"
    BY <1>t, <2>1 DEF Crash, Dead, StoreInv, ResultIsFinal
  <2>5. FactsFollowEvents(lost)'
    BY <1>c, <2>3, <2>4 DEF FactsFollowEvents, Tasks
  <2>b. FactsAreBacked'
    BY <1>b, <2>2, <2>5
  <2>6. \A e \in Appends :
           /\ stage'[e] \in {"idle", "published", "refused", "rejected", "abandoned", "gone"}
           /\ stage'[e] = "idle" => stage[e] = "idle"
           /\ stage'[e] = "rejected" => stage[e] = "rejected"
           /\ stage'[e] = "published" => stage[e] = "published"
    BY <1>4 DEF Restart, Settled
  <2>7. /\ holder' = NoHolder /\ notify' = {} /\ due' = {} /\ log' = <<>>
        /\ sub' = [h \in Handlers |-> "new"] /\ nested' = [h \in Handlers |-> NoEvent]
        /\ stopping' = FALSE /\ closed' = FALSE /\ handed' = handed
    BY <1>4 DEF Restart
  <2>8. faults' \in 0..MaxFaults
    BY <1>t, <1>4, BusAssumption DEF Restart, BusTypeOK
  <2>9. BusTypeOK'
    <3>1. stage' \in [Appends -> Stage]
      BY <1>t, <1>4 DEF Restart, Stage, BusTypeOK
    <3>2. TypeOK'
      BY <2>2 DEF StoreInv
    <3>3. log' \in Seq(Appends)
      BY <2>7
    <3> QED BY <1>t, <2>7, <2>8, <3>1, <3>2, <3>3 DEF BusTypeOK
  <2>10. PublishMatchesAppend'
    BY <1>t, <1>m, <1>d, <2>4, <2>6, <2>7 DEF PublishMatchesAppend
  <2>11. DueInDelivery' /\ NotifiedAreLive' /\ ClosedBusIsIdle'
    BY <2>7 DEF DueInDelivery, NotifiedAreLive, ClosedBusIsIdle
  <2>12. DeliveredIsDurable'
    BY <1>t, <2>3, <2>6, <2>7 DEF DeliveredIsDurable
  <2> QED BY <2>2, <2>b, <2>9, <2>10, <2>11, <2>12 DEF BusInv
<1> QED BY <1>1, <1>2, <1>3, <1>4 DEF BusAndStore

LEMMA BusInductive == BusInv /\ [Next]_vars => BusInv'
<1> SUFFICES ASSUME BusInv, [Next]_vars PROVE BusInv'
  OBVIOUS
<1>1. CASE BusOnly /\ UNCHANGED storeVars
  BY <1>1, BusOnlyStep
<1>2. CASE BusAndStore
  BY <1>2, BusAndStoreStep
<1>3. CASE UNCHANGED vars
  <2>1. UNCHANGED storeVars /\ UNCHANGED busVars
    BY <1>3 DEF vars
  <2>l. PICK lost : lost = Abandoned
    OBVIOUS
  <2>c. CitesEvents(lost) /\ FactsFollowEvents(lost)
    BY <2>l DEF BusInv, FactsAreBacked
  <2>s. /\ StoreInv' /\ \A e : Durable(e)' <=> Durable(e)
        /\ CitesEvents(lost)' /\ FactsFollowEvents(lost)'
    BY <2>1, <2>c, StoreUnchanged DEF BusInv
  <2>a. Abandoned' = lost
    BY <2>1, <2>l DEF busVars, Abandoned
  <2>b. CitesEvents(Abandoned)' /\ FactsFollowEvents(Abandoned)'
    BY <2>s, <2>a DEF CitesEvents, FactsFollowEvents
  <2>2. StoreInv' /\ FactsAreBacked' /\ \A e : Durable(e)' <=> Durable(e)
    BY <2>s, <2>b DEF FactsAreBacked
  <2>3. TypeOK'
    BY <2>2 DEF StoreInv
  <2> QED BY <2>1, <2>2, <2>3 DEF BusInv, BusTypeOK, PublishMatchesAppend, DueInDelivery,
     NotifiedAreLive, DeliveredIsDurable, ClosedBusIsIdle, storeVars, busVars, mutex, calls,
     history, life
<1>4. Next => (BusOnly /\ UNCHANGED storeVars) \/ BusAndStore
  <2> SUFFICES ASSUME Next PROVE (BusOnly /\ UNCHANGED storeVars) \/ BusAndStore
    OBVIOUS
  <2>1. ASSUME NEW e \in Appends, Publish(e) \/ PublishStep(e) \/ Abandon(e)
        PROVE  (BusOnly /\ UNCHANGED storeVars) \/ BusAndStore
    <3>1. CASE Begin(e)
      <4>1. UNCHANGED storeVars \/ Call(e)
        BY <3>1 DEF Begin
      <4>2. CASE UNCHANGED storeVars
        BY <3>1, <4>2 DEF BusOnly
      <4>3. CASE Call(e)
        BY <3>1, <4>3 DEF BusAndStore
      <4> QED BY <4>1, <4>2, <4>3
    <3>2. CASE Abandon(e)
      <4>1. UNCHANGED storeVars \/ AbandonAppend(e)
        BY <3>2 DEF Abandon, AbandonQueued, AbandonDelivery
      <4>2. CASE UNCHANGED storeVars
        BY <3>2, <4>2 DEF BusOnly
      <4>3. CASE AbandonAppend(e)
        BY <3>2, <4>3 DEF BusAndStore
      <4> QED BY <4>1, <4>2, <4>3
    <3>3. CASE Publish(e)
      BY <3>3 DEF BusOnly, Publish
    <3>4. CASE Appended(e)
      BY <3>4 DEF BusOnly, Appended
    <3>5. CASE AppendRefused(e)
      BY <3>5 DEF BusOnly, AppendRefused
    <3>6. CASE Delivered(e)
      BY <3>6 DEF BusOnly, Delivered
    <3> QED BY <2>1, <3>1, <3>2, <3>3, <3>4, <3>5, <3>6 DEF PublishStep
  <2>2. ASSUME NEW h \in Handlers, Subscribe(h) \/ Unsubscribe(h)
        PROVE  BusOnly /\ UNCHANGED storeVars
    BY <2>2 DEF BusOnly, Subscribe, Unsubscribe
  <2>3. ASSUME NEW h \in Handlers, NEW e \in Appends,
               PublishFrom(h, e) \/ Handled(h, e) \/ TimeOut(h, e)
        PROVE  BusOnly /\ UNCHANGED storeVars
    BY <2>3 DEF BusOnly, PublishFrom, Handled, TimeOut
  <2>4. CASE Stop \/ Shutdown
    BY <2>4 DEF BusOnly, Stop, Shutdown
  <2>5. ASSUME NEW t \in Tasks, Client(t) \/ StoreStep(t) \/ StoreFault(t) PROVE BusAndStore
    BY <2>5 DEF BusAndStore
  <2>6. CASE Restart
    BY <2>6 DEF BusAndStore
  <2> QED BY <2>1, <2>2, <2>3, <2>4, <2>5, <2>6 DEF Next
<1> QED BY <1>1, <1>2, <1>3, <1>4

-----------------------------------------------------------------------------
(* The bus, the store and the lock that couples them keep their types.     *)
THEOREM TypeCorrect == Spec => []BusTypeOK
<1>1. BusInv => BusTypeOK
  BY DEF BusInv
<1> QED BY <1>1, BusInitially, BusInductive, PTL DEF Spec

(* core/event_bus.py:138: only committed events enter the replay log or    *)
(* reach subscribers, whatever fails, is abandoned or crashes.             *)
THEOREM Durability == Spec => []DeliveredIsDurable
<1>1. BusInv => DeliveredIsDurable
  BY DEF BusInv
<1> QED BY <1>1, BusInitially, BusInductive, PTL DEF Spec

(* core/event_bus.py: the publish lock is held until the last handler of   *)
(* the event is no longer waited for.                                      *)
THEOREM SerialDelivery == Spec => []DeliveryIsSerial
<1>1. BusInv => DeliveryIsSerial
  <2> SUFFICES ASSUME BusInv, NEW d \in due PROVE holder = d[2]
    BY DEF DeliveryIsSerial
  <2>1. stage[d[2]] = "deliver" /\ d[2] \in Appends
    BY DEF BusInv, DueInDelivery, BusTypeOK
  <2> QED BY <2>1 DEF BusInv, PublishMatchesAppend
<1> QED BY <1>1, BusInitially, BusInductive, PTL DEF Spec

(* core/event_bus.py: shutdown() waits for the publish in flight, and no   *)
(* later one begins.                                                       *)
THEOREM ClosedIsIdle == Spec => []ClosedBusIsIdle
<1>1. BusInv => ClosedBusIsIdle
  BY DEF BusInv
<1> QED BY <1>1, BusInitially, BusInductive, PTL DEF Spec

(* core/event_bus.py: a quarantined handler is not called again although   *)
(* the list of handlers is read before the append is awaited.              *)
THEOREM Quarantine == Spec => QuarantineHolds
<1>1. ASSUME BusInv, [Next]_vars
      PROVE  [\A h \in Handlers, e \in Appends :
                sub[h] = "quarantined" /\ <<h, e>> \in handed' => <<h, e>> \in handed]_vars
  <2> SUFFICES ASSUME Next, NEW h \in Handlers, NEW e \in Appends,
                      sub[h] = "quarantined", <<h, e>> \in handed'
               PROVE  <<h, e>> \in handed
    BY <1>1
  <2>1. CASE handed' = handed
    BY <2>1
  <2>2. ASSUME NEW d \in Appends, Appended(d) PROVE <<h, e>> \in handed
    <3>1. h \notin notify
      BY <1>1, <2>2 DEF Appended, BusInv, NotifiedAreLive
    <3> QED BY <2>2, <3>1 DEF Appended
  <2>3. handed' = handed \/ \E d \in Appends : Appended(d)
    BY DEF Next, Publish, PublishStep, Begin, AppendRefused, Delivered, Abandon, Subscribe,
           Unsubscribe, PublishFrom, Handled, TimeOut, Client, StoreStep, StoreFault, Stop,
           Shutdown, Restart, busVars, history
  <2> QED BY <2>1, <2>2, <2>3
<1> QED BY <1>1, BusInitially, BusInductive, PTL DEF Spec, QuarantineHolds

(* memory/memory_service.py: upsert_fact() retires the old fact first, and *)
(* a half-done update can only leave the key with no current fact.         *)
THEOREM OneFact == Spec => []OneCurrentFact
<1>1. BusInv => OneCurrentFact
  BY DEF BusInv, StoreInv
<1> QED BY <1>1, BusInitially, BusInductive, PTL DEF Spec

(* memory/memory_service.py: rebuild_from_log() rolls back before it gives *)
(* up the lock, so no later commit takes its rows along.                   *)
THEOREM RebuildAtomic == Spec => []RebuildIsAtomic
<1>1. BusInv => RebuildIsAtomic
  BY DEF BusInv, StoreInv, RebuildTraces, RebuildIsAtomic
<1> QED BY <1>1, BusInitially, BusInductive, PTL DEF Spec

(* core/orchestrator.py:427-450 over memory/memory_service.py: a committed *)
(* fact cites an event that is committed or that the user had forgotten,   *)
(* unless the publish of that event was cancelled a second time. That its  *)
(* publisher stores the facts all the same is what the exception is for.   *)
THEOREM FactsCite == Spec => []FactsCiteEvents
<1>1. BusInv => FactsCiteEvents
  BY DEF BusInv, FactsAreBacked, CitesEvents, FactsCiteEvents, Durable
<1> QED BY <1>1, BusInitially, BusInductive, PTL DEF Spec
=============================================================================
