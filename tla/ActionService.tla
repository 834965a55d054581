---------------------------- MODULE ActionService ----------------------------
(***************************************************************************)
(* Computer actions (services/action_service.py): concurrent request,      *)
(* confirm and undo calls that share the pending table, the confirmation   *)
(* lock, the execution semaphore, the action provider and the durable      *)
(* audit store (security/action_audit.py).                                 *)
(*                                                                         *)
(* A call is an asyncio task: `pc[c]' names the await at which it is       *)
(* suspended, and code between two awaits is one action. An action has the *)
(* name of the call that requests it; an undo call keeps a record of its   *)
(* own.                                                                    *)
(***************************************************************************)
EXTENDS Naturals, FiniteSets

CONSTANTS
  Actions,        \* calls of request(), and the records they create
  Confirms,       \* calls of confirm()
  Undos,          \* calls of undo(), and the records they create
  NoCall,         \* nobody
  MaxConcurrent,  \* max_concurrent_actions
  MaxPending,     \* max_pending_confirmations
  MaxFaults,      \* audits that fail and provider operations that time out
  MaxBreaks       \* publishes that are refused and calls that are cancelled

Records == Actions \cup Undos
Calls == Records \cup Confirms

ASSUME CallsAssumption == /\ Actions \cap Confirms = {}
                          /\ Actions \cap Undos = {}
                          /\ Confirms \cap Undos = {}
                          /\ NoCall \notin Calls
                          /\ IsFiniteSet(Calls)

ASSUME LimitsAssumption == /\ MaxConcurrent \in Nat \ {0}
                           /\ MaxPending \in Nat \ {0}
                           /\ MaxFaults \in Nat
                           /\ MaxBreaks \in Nat

VARIABLES
  pc,          \* pc[c]: where call c is suspended
  target,      \* target[c]: the action a confirm or undo call is about
  answer,      \* answer[a]: user_approved of the record, "none" before confirm()
  state,       \* state[r]: ActionRecord.state, "none" before the record exists
  needs,       \* needs[a]: the request asked for a confirmation
  pending,     \* keys of _pending
  stale,       \* actions older than confirmation_ttl_seconds
  previewed,   \* actions whose preview the provider returned
  lock,        \* holder of _confirmation_lock
  expiring,    \* the records the holder of the lock has yet to expire
  slots,       \* holders of _active_semaphore
  quarantined, \* _provider_quarantined_reason is set
  auditDown,   \* _audit_store_quarantined
  doomed,      \* calls whose current audit found the store quarantined
  ahead,       \* ahead[c]: calls queued before c on the audit store's lock
  trail,       \* trail[r]: durable audit stages of record r
  entered,     \* entered[r]: provider execute() or undo() calls made for r
  faults, breaks

gate  == <<lock, expiring>>
table == <<state, pending>>
audit == <<trail, auditDown, faults>>
store == <<doomed, ahead>>
vars == <<pc, target, answer, needs, table, stale, previewed, gate, slots,
          quarantined, audit, store, entered, breaks>>

-----------------------------------------------------------------------------
ActionState == {"pending", "waiting", "executing", "completed", "failed",
                "revoked", "denied"}

(* Audits whose answer decides what happens next; pc is the stage written. *)
(* An undo writes undo_requested, undo_executing and undo_executed.        *)
Stages == {"requested", "confirmed", "executing", "executed"}

(* Every audit. "expiry" and "closing" go on whatever the answer is.       *)
Audits == Stages \cup {"expiry", "closing"}
Publishes == {"announce", "decision", "report"}
ProviderOperations == {"preview", "sandbox", "provider"}
PCs == Audits \cup Publishes \cup ProviderOperations \cup {"idle", "lock", "slot", "done"}

(* The record a call works on.                                             *)
Rec(c) == IF c \in Confirms THEN target[c] ELSE c

SetState(r, s) == state' = [state EXCEPT ![r] = s]

(* Calls with an audit in flight.                                          *)
Writing == {c \in Calls : pc[c] \in Audits /\ c \notin doomed}

(* Call c leaves its await and is next suspended at p. The store appends   *)
(* one entry at a time, in FIFO order; a quarantined store is not asked.   *)
Go(c, p) ==
  /\ pc' = [pc EXCEPT ![c] = p]
  /\ doomed' = IF p \in Audits /\ auditDown' THEN doomed \cup {c} ELSE doomed \ {c}
  /\ ahead' = [d \in Calls |->
                 IF d # c THEN ahead[d] \ {c}
                 ELSE IF p \in Audits /\ ~auditDown' THEN Writing \ {c} ELSE {}]

Unlock(c) ==
  /\ lock' = IF lock = c THEN NoCall ELSE lock
  /\ expiring' = IF lock = c THEN {} ELSE expiring

Written(c) == trail' = [trail EXCEPT ![Rec(c)] = @ \cup {pc[c]}]

Front(c) == c \notin doomed /\ ahead[c] = {}

AuditOk(c) == Front(c) /\ Written(c) /\ UNCHANGED <<auditDown, faults>>

Fault == faults < MaxFaults /\ faults' = faults + 1

(* The store is quarantined already, raises, or does not answer in time:   *)
(* then it is quarantined, and the stage it was writing may be durable all *)
(* the same.                                                               *)
AuditRefused(c) ==
  \/ c \in doomed /\ UNCHANGED audit
  \/ Front(c) /\ Fault /\ UNCHANGED <<trail, auditDown>>
  \/ /\ c \notin doomed /\ Fault /\ auditDown' = TRUE
     /\ UNCHANGED trail \/ (Front(c) /\ Written(c))

(* An audit outside Stages: only whether the store survives it matters.    *)
AuditEnds(c) ==
  /\ UNCHANGED trail
  /\ \/ ahead[c] = {} /\ UNCHANGED <<auditDown, faults>>
     \/ c \notin doomed /\ Fault /\ auditDown' = TRUE

(* _await_provider_operation: a result, an error, or a timeout that        *)
(* quarantines the provider.                                               *)
ProviderFails ==
  \/ UNCHANGED <<quarantined, faults>>
  \/ Fault /\ quarantined' = TRUE

-----------------------------------------------------------------------------
Init ==
  /\ pc = [c \in Calls |-> "idle"]
  /\ target = [c \in Confirms \cup Undos |-> NoCall]
  /\ answer = [a \in Actions |-> "none"]
  /\ state = [r \in Records |-> "none"]
  /\ needs = [a \in Actions |-> FALSE]
  /\ pending = {} /\ stale = {} /\ previewed = {}
  /\ lock = NoCall /\ expiring = {} /\ slots = {}
  /\ quarantined = FALSE /\ auditDown = FALSE /\ doomed = {}
  /\ ahead = [c \in Calls |-> {}]
  /\ trail = [r \in Records |-> {}]
  /\ entered = [r \in Records |-> 0]
  /\ faults = 0 /\ breaks = 0

-----------------------------------------------------------------------------
(* request(): the policy gate denies, or the record waits for the lock or  *)
(* is pending at once.                                                     *)

Request(a) ==
  /\ pc[a] = "idle"
  /\ UNCHANGED <<target, answer, stale, previewed, gate, slots, quarantined, audit,
                 entered, breaks>>
  /\ \/ SetState(a, "denied") /\ UNCHANGED <<needs, pending>> /\ Go(a, "closing")
     \/ \E n \in BOOLEAN :
          /\ needs' = [needs EXCEPT ![a] = n]
          /\ \/ /\ quarantined
                /\ SetState(a, "failed") /\ UNCHANGED pending /\ Go(a, "closing")
             \/ /\ ~quarantined /\ n
                /\ SetState(a, "waiting") /\ UNCHANGED pending /\ Go(a, "lock")
             \/ /\ ~quarantined /\ ~n
                /\ SetState(a, "pending") /\ pending' = pending \cup {a} /\ Go(a, "requested")

(* What a refused or failed request leaves behind.                         *)
Close(a, s) == SetState(a, s) /\ pending' = pending \ {a}

Requested(a) ==
  /\ pc[a] = "requested" /\ a \in Actions
  /\ \/ AuditOk(a) /\ UNCHANGED table /\ Go(a, IF needs[a] THEN "preview" ELSE "announce")
     \/ AuditRefused(a) /\ Close(a, "failed") /\ Go(a, "done")
  /\ UNCHANGED <<target, answer, needs, stale, previewed, gate, slots, quarantined,
                 entered, breaks>>

Preview(a) ==
  /\ pc[a] = "preview"
  /\ \/ /\ previewed' = previewed \cup {a} /\ UNCHANGED <<table, quarantined, faults>>
        /\ UNCHANGED <<trail, auditDown>> /\ Go(a, "announce")
     \/ /\ ProviderFails /\ Close(a, "failed") /\ UNCHANGED previewed
        /\ UNCHANGED <<trail, auditDown>> /\ Go(a, "closing")
  /\ UNCHANGED <<target, answer, needs, stale, gate, slots, entered, breaks>>

Closed(c) ==
  /\ pc[c] = "closing"
  /\ AuditEnds(c)
  /\ Unlock(c)
  /\ Go(c, "done")
  /\ UNCHANGED <<target, answer, needs, table, stale, previewed, slots, quarantined,
                 entered, breaks>>

-----------------------------------------------------------------------------
(* The confirmation lock: its holder expires what is stale, one audit at a *)
(* time, then admits the request or settles the answer.                    *)

Waiting == {a \in pending : state[a] = "waiting"}
(* Mutant: what is old expires, answered or not.                           *)
DueIgnoresState == pending \cap stale

Due == Waiting \cap stale

Expire(c, list) ==
  \E a \in list :
    /\ Close(a, "revoked")
    /\ lock' = c /\ expiring' = list \ {a}
    /\ Go(c, "expiry")
    /\ UNCHANGED answer

AdmitRequest(a) ==
  \/ /\ Cardinality(Waiting) >= MaxPending
     /\ SetState(a, "denied") /\ UNCHANGED pending
     /\ lock' = a /\ expiring' = {}
     /\ Go(a, "closing")
  \/ /\ Cardinality(Waiting) < MaxPending
     /\ pending' = pending \cup {a} /\ UNCHANGED state
     /\ lock' = NoCall /\ expiring' = {}
     /\ Go(a, "requested")

(* Mutant: an approval does not claim the record.                          *)
ApprovalNotClaimed(c) ==
  LET a == target[c] IN
  /\ lock' = NoCall /\ expiring' = {}
  /\ \/ a \notin Waiting /\ UNCHANGED <<table, answer>> /\ Go(c, "done")
     \/ /\ a \in Waiting
        /\ \/ answer' = [answer EXCEPT ![a] = "no"] /\ Close(a, "denied")
           \/ answer' = [answer EXCEPT ![a] = "yes"] /\ UNCHANGED table
        /\ Go(c, "decision")

(* Mutant: a denied record stays in _pending until its audit is written.   *)
DenialStaysPending(c) ==
  LET a == target[c] IN
  /\ lock' = NoCall /\ expiring' = {}
  /\ \/ a \notin Waiting /\ UNCHANGED <<table, answer>> /\ Go(c, "done")
     \/ /\ a \in Waiting
        /\ \/ answer' = [answer EXCEPT ![a] = "no"] /\ UNCHANGED table
           \/ /\ answer' = [answer EXCEPT ![a] = "yes"]
              /\ SetState(a, "pending") /\ UNCHANGED pending
        /\ Go(c, "decision")

(* Mutant: the early return of a confirmation keeps the lock.              *)
EarlyReturnKeepsLock(c) ==
  LET a == target[c] IN
  /\ expiring' = {}
  /\ \/ /\ a \notin Waiting /\ lock' = c
        /\ UNCHANGED <<table, answer>> /\ Go(c, "done")
     \/ /\ a \in Waiting /\ lock' = NoCall
        /\ \/ answer' = [answer EXCEPT ![a] = "no"] /\ Close(a, "denied")
           \/ /\ answer' = [answer EXCEPT ![a] = "yes"]
              /\ SetState(a, "pending") /\ UNCHANGED pending
        /\ Go(c, "decision")

(* The record the caller names is not awaiting an answer, the user denies, *)
(* or the confirmation is claimed.                                         *)
SettleAnswer(c) ==
  LET a == target[c] IN
  /\ lock' = NoCall /\ expiring' = {}
  /\ \/ a \notin Waiting /\ UNCHANGED <<table, answer>> /\ Go(c, "done")
     \/ /\ a \in Waiting
        /\ \/ answer' = [answer EXCEPT ![a] = "no"] /\ Close(a, "denied")
           \/ /\ answer' = [answer EXCEPT ![a] = "yes"]
              /\ SetState(a, "pending") /\ UNCHANGED pending
        /\ Go(c, "decision")

Decide(c) == \/ c \in Actions /\ AdmitRequest(c) /\ UNCHANGED answer
             \/ c \in Confirms /\ SettleAnswer(c)

TakeLock(c) ==
  /\ pc[c] = "lock" /\ lock = NoCall
  /\ UNCHANGED <<target, needs, stale, previewed, slots, quarantined, audit, entered, breaks>>
  /\ Expire(c, Due) \/ (Due = {} /\ Decide(c))

Expired(c) ==
  /\ pc[c] = "expiry"
  /\ AuditEnds(c)
  /\ Expire(c, expiring) \/ (expiring = {} /\ Decide(c))
  /\ UNCHANGED <<target, needs, stale, previewed, slots, quarantined, entered, breaks>>

Confirm(c) ==
  /\ pc[c] = "idle" /\ c \in Confirms
  /\ UNCHANGED <<answer, needs, table, stale, previewed, gate, slots, quarantined, audit,
                 entered, breaks>>
  /\ \E a \in Actions : pc[a] # "idle" /\ target' = [target EXCEPT ![c] = a]
  /\ Go(c, "lock")

(* Mutant: an approval whose audit failed stays in _pending.               *)
RefusalNotPopped(c) ==
  /\ pc[c] = "confirmed"
  /\ \/ /\ AuditOk(c) /\ UNCHANGED table
        /\ Go(c, IF answer[target[c]] = "yes" THEN "slot" ELSE "done")
     \/ AuditRefused(c) /\ Go(c, "done") /\ UNCHANGED table
  /\ UNCHANGED <<target, answer, needs, stale, previewed, gate, slots, quarantined,
                 entered, breaks>>

(* The audit of the answer; only an approval depends on it.                *)
Confirmed(c) ==
  /\ pc[c] = "confirmed"
  /\ \/ /\ AuditOk(c) /\ UNCHANGED table
        /\ Go(c, IF answer[target[c]] = "yes" THEN "slot" ELSE "done")
     \/ /\ AuditRefused(c) /\ Go(c, "done")
        /\ IF answer[target[c]] = "yes" THEN Close(target[c], "failed") ELSE UNCHANGED table
  /\ UNCHANGED <<target, answer, needs, stale, previewed, gate, slots, quarantined,
                 entered, breaks>>

-----------------------------------------------------------------------------
(* undo(): the quarantine is looked at once, before the first await.       *)

Undo(u) ==
  /\ pc[u] = "idle" /\ u \in Undos
  /\ UNCHANGED <<answer, needs, pending, stale, previewed, gate, slots, quarantined, audit,
                 entered, breaks>>
  /\ \E a \in Actions :
       /\ state[a] = "completed" /\ ~quarantined
       /\ target' = [target EXCEPT ![u] = a]
  /\ SetState(u, "pending")
  /\ Go(u, "requested")

UndoRequested(u) ==
  /\ pc[u] = "requested" /\ u \in Undos
  /\ \/ AuditOk(u) /\ Go(u, "slot")
     \/ AuditRefused(u) /\ Go(u, "done")
  /\ UNCHANGED <<target, answer, needs, table, stale, previewed, gate, slots, quarantined,
                 entered, breaks>>

-----------------------------------------------------------------------------
(* _execute_committed and _undo_committed: the body runs in a semaphore    *)
(* slot and its result, whatever it is, settles the record.                *)

Result(c, ok) == IF ~ok THEN "failed" ELSE IF c \in Undos THEN "revoked" ELSE "completed"

Settle(c, ok) ==
  /\ Close(Rec(c), Result(c, ok))
  /\ slots' = slots \ {c}
  /\ Go(c, "report")

TakeSlot(c) ==
  /\ pc[c] = "slot" /\ Cardinality(slots) < MaxConcurrent
  /\ UNCHANGED <<target, answer, needs, stale, previewed, gate, quarantined, audit, entered,
                 breaks>>
  /\ IF quarantined /\ c \notin Undos THEN Settle(c, FALSE)
     ELSE /\ slots' = slots \cup {c}
          /\ SetState(Rec(c), "executing") /\ UNCHANGED pending
          /\ Go(c, "sandbox")

Sandbox(c) ==
  /\ pc[c] = "sandbox"
  /\ UNCHANGED <<trail, auditDown>>
  /\ \/ /\ UNCHANGED <<quarantined, faults, table, slots>> /\ Go(c, "executing")
     \/ ProviderFails /\ Settle(c, FALSE)
  /\ UNCHANGED <<target, answer, needs, stale, previewed, gate, entered, breaks>>

(* Mutant: the provider is called whether or not the intent was written.   *)
IntentUnchecked(c) ==
  /\ pc[c] = "executing"
  /\ AuditOk(c) \/ AuditRefused(c)
  /\ UNCHANGED <<table, slots>>
  /\ entered' = [entered EXCEPT ![Rec(c)] = @ + 1]
  /\ Go(c, "provider")
  /\ UNCHANGED <<target, answer, needs, stale, previewed, gate, quarantined, breaks>>

(* _execute_provider, _undo_provider: the intent is durable, or the        *)
(* provider is not called.                                                 *)
Intent(c) ==
  /\ pc[c] = "executing"
  /\ \/ /\ AuditOk(c) /\ UNCHANGED <<table, slots>>
        /\ entered' = [entered EXCEPT ![Rec(c)] = @ + 1]
        /\ Go(c, "provider")
     \/ AuditRefused(c) /\ Settle(c, FALSE) /\ UNCHANGED entered
  /\ UNCHANGED <<target, answer, needs, stale, previewed, gate, quarantined, breaks>>

Provider(c) ==
  /\ pc[c] = "provider"
  /\ UNCHANGED <<trail, auditDown>>
  /\ \/ UNCHANGED <<quarantined, faults>> /\ Settle(c, TRUE)
     \/ ProviderFails /\ Settle(c, FALSE)
  /\ UNCHANGED <<target, answer, needs, stale, previewed, gate, entered, breaks>>

Executed(c) ==
  /\ pc[c] = "executed"
  /\ AuditOk(c) \/ AuditRefused(c)
  /\ Go(c, "done")
  /\ UNCHANGED <<target, answer, needs, table, stale, previewed, gate, slots, quarantined,
                 entered, breaks>>

-----------------------------------------------------------------------------
(* What follows a publish.                                                 *)
AfterPublish == [announce |-> "slot", decision |-> "confirmed", report |-> "executed"]

Published(c) ==
  /\ pc[c] \in Publishes
  /\ UNCHANGED <<target, answer, needs, table, stale, previewed, gate, slots, quarantined,
                 audit, entered, breaks>>
  /\ Go(c, IF pc[c] = "announce" /\ needs[c] THEN "done" ELSE AfterPublish[pc[c]])

Broken == breaks < MaxBreaks /\ breaks' = breaks + 1

(* The bus refuses the event: the exception leaves the call.               *)
PublishRefused(c) ==
  /\ pc[c] \in Publishes
  /\ UNCHANGED <<target, answer, needs, table, stale, previewed, gate, slots, quarantined,
                 audit, entered>>
  /\ Broken
  /\ Go(c, "done")

(* The caller's cancellation arrives; a committed execution or undo runs   *)
(* on when it is cancelled once, so there it is the second one. An         *)
(* unfinished provider operation quarantines the provider and an           *)
(* unfinished audit the store; a publish is waited for.                    *)
Cancel(c) ==
  /\ pc[c] \notin {"idle", "done"} /\ c \notin doomed
  /\ Broken
  /\ Unlock(c) /\ slots' = slots \ {c}
  /\ quarantined' = (quarantined \/ pc[c] \in ProviderOperations)
  /\ IF pc[c] \in Audits
     THEN /\ auditDown' = TRUE \/ UNCHANGED auditDown
          /\ \/ pc[c] \in Stages /\ ahead[c] = {} /\ Written(c)
             \/ (pc[c] \in Stages => auditDown') /\ UNCHANGED trail
     ELSE UNCHANGED <<trail, auditDown>>
  /\ Go(c, "done")
  /\ UNCHANGED <<target, answer, needs, table, stale, previewed, entered, faults>>

(* The age of a record is looked at until it is settled.                   *)
TimePasses(a) ==
  /\ needs[a] /\ state[a] \in {"waiting", "pending", "executing"}
  /\ stale' = stale \cup {a}
  /\ UNCHANGED <<pc, target, answer, needs, table, previewed, gate, slots, quarantined,
                 audit, store, entered, breaks>>

-----------------------------------------------------------------------------
Step(c) ==
  \/ c \in Actions /\ (Requested(c) \/ Preview(c))
  \/ c \in Undos /\ UndoRequested(c)
  \/ TakeLock(c) \/ Expired(c) \/ Confirmed(c) \/ Closed(c)
  \/ TakeSlot(c) \/ Sandbox(c) \/ Intent(c) \/ Provider(c) \/ Executed(c)
  \/ Published(c) \/ PublishRefused(c)

Next ==
  \/ \E c \in Calls : Step(c) \/ Cancel(c)
  \/ \E a \in Actions : Request(a) \/ TimePasses(a)
  \/ \E c \in Confirms : Confirm(c)
  \/ \E u \in Undos : Undo(u)

(* Every operation a call awaits ends: the provider and the audit store by *)
(* a deadline, the bus by the deadline of its handlers, and the lock and   *)
(* the semaphore hand over in FIFO order. Nobody has to call anything.     *)
Spec == Init /\ [][Next]_vars /\ \A c \in Calls : WF_vars(Step(c))

-----------------------------------------------------------------------------
TypeOK ==
  /\ pc \in [Calls -> PCs]
  /\ target \in [Confirms \cup Undos -> Actions \cup {NoCall}]
  /\ answer \in [Actions -> {"none", "yes", "no"}]
  /\ state \in [Records -> ActionState \cup {"none"}]
  /\ needs \in [Actions -> BOOLEAN]
  /\ pending \subseteq Actions /\ stale \subseteq Actions /\ previewed \subseteq Actions
  /\ lock \in Calls \cup {NoCall} /\ expiring \subseteq Actions
  /\ slots \subseteq Calls /\ doomed \subseteq Calls /\ ahead \in [Calls -> SUBSET Calls]
  /\ quarantined \in BOOLEAN /\ auditDown \in BOOLEAN
  /\ trail \in [Records -> SUBSET Stages]
  /\ entered \in [Records -> Nat]
  /\ faults \in 0..MaxFaults /\ breaks \in 0..MaxBreaks

(* The provider executes an action at most once, however many confirm      *)
(* calls race for it ("Confirmation is single-use").                       *)
ExecutedOnce == \A r \in Records : entered[r] <= 1

(* Nothing crosses the provider boundary before its intent is durable, and *)
(* what needed a confirmation was approved, durably, before.               *)
IntentIsDurable ==
  \A r \in Records : entered[r] > 0 =>
    /\ "executing" \in trail[r]
    /\ r \in Actions /\ needs[r] => answer[r] = "yes" /\ "confirmed" \in trail[r]

-----------------------------------------------------------------------------
(* Why: the call that has the right to run a record is unique, and keeps   *)
(* it from the claim to the provider.                                      *)

Running == {"slot", "sandbox", "executing", "provider", "report", "executed"}
BeforeProvider == {"slot", "sandbox", "executing"}
Claimed == {"decision", "confirmed"} \cup Running

(* A request runs its own record, and only without a confirmation.         *)
RequestInv ==
  \A a \in Actions :
    /\ pc[a] \notin {"decision", "confirmed"}
    /\ pc[a] = "idle" => ~needs[a] /\ entered[a] = 0
    /\ state[a] = "waiting" => needs[a] /\ answer[a] = "none"
    /\ answer[a] # "none" => needs[a]
    /\ needs[a] => pc[a] \notin Running
    /\ needs[a] /\ answer[a] = "none" => entered[a] = 0
    /\ ~needs[a] /\ pc[a] \in {"lock", "expiry", "requested", "preview", "announce"}
                              \cup BeforeProvider => entered[a] = 0

UndoInv ==
  \A u \in Undos :
    /\ pc[u] \in {"idle", "requested", "done"} \cup Running
    /\ pc[u] \in {"idle", "requested"} \cup BeforeProvider => entered[u] = 0

(* Of the confirm calls for an action, one claims it; it runs what was     *)
(* approved on record.                                                     *)
ConfirmInv ==
  \A c \in Confirms :
    /\ pc[c] \in {"idle", "lock", "expiry", "done"} \cup Claimed
    /\ pc[c] # "idle" => target[c] \in Actions
    /\ pc[c] \in Claimed => answer[target[c]] # "none"
    /\ pc[c] \in {"decision", "confirmed"} \cup BeforeProvider => entered[target[c]] = 0
    /\ pc[c] \in Running => answer[target[c]] = "yes" /\ "confirmed" \in trail[target[c]]
    /\ \A d \in Confirms :
         pc[c] \in Claimed /\ pc[d] \in Claimed /\ target[c] = target[d] => c = d

ClaimInv == RequestInv /\ UndoInv /\ ConfirmInv /\ ExecutedOnce /\ IntentIsDurable

-----------------------------------------------------------------------------
(* A denied or expired action is never executed afterwards.                *)
DeniedNeverRuns ==
  [][\A a \in Actions : state[a] \in {"denied", "revoked"} =>
       state'[a] \notin {"pending", "waiting", "executing", "completed"}]_vars

(* The first answer to a confirmation is the only one.                     *)
ConfirmationIsSingleUse ==
  [][\A a \in Actions : answer[a] # "none" => answer'[a] = answer[a]]_vars

(* No more than MaxPending actions wait for the user at a time.            *)
PendingBounded == Cardinality(Waiting) <= MaxPending

WorksOn(c, a) == Rec(c) = a /\ pc[c] \notin {"idle", "lock", "done"}

(* Only a refused publish or a cancelled call leaves a claimed action in   *)
(* _pending with nobody working on it: a failed audit and a provider that  *)
(* fails or times out settle it.                                           *)
NothingStranded ==
  \A a \in pending : state[a] # "waiting" /\ breaks = 0 => \E c \in Calls : WorksOn(c, a)

(* Why: a record that is not yet admitted is neither answered nor expired, *)
(* a denied or expired one has no call that would run it, and one in       *)
(* _pending waits for its answer or has a call that will settle it.        *)
Settling == {"requested", "announce"} \cup BeforeProvider \cup {"provider"}
Answering == {"decision", "confirmed"} \cup BeforeProvider \cup {"provider"}
Refused == {"denied", "revoked"}

Attended(a) ==
  \/ state[a] = "waiting" /\ answer[a] = "none"
  \/ ~needs[a] /\ pc[a] \in Settling
  \/ answer[a] = "yes" /\ \E c \in Confirms : target[c] = a /\ pc[c] \in Answering

SettleInv ==
  \A a \in Actions :
    /\ pc[a] \in {"idle", "lock", "expiry"} => a \notin pending \cup expiring /\ answer[a] = "none"
    /\ pc[a] \in {"lock", "expiry"} => needs[a] /\ state[a] = "waiting"
    /\ a \in expiring => needs[a] /\ answer[a] = "none"
    /\ state[a] \in Refused => /\ answer[a] # "yes" /\ pc[a] # "idle"
                               /\ needs[a] \/ pc[a] \in {"closing", "done"}
    /\ a \in pending /\ breaks = 0 => Attended(a)

-----------------------------------------------------------------------------
(* What the user is promised. An action is closed when nobody can answer   *)
(* for it any more, or when the request that may run it is past that.      *)
UserPhase(a) ==
  IF answer[a] = "yes" THEN (IF "confirmed" \in trail[a] THEN "recorded" ELSE "approved")
  ELSE IF answer[a] = "none" /\ (pc[a] \in {"lock", "expiry"} \/ a \in pending) THEN "open"
  ELSE "closed"

PolicyPhase(a) ==
  IF pc[a] = "requested" THEN "approved"
  ELSE IF entered[a] > 0 \/ pc[a] \in {"announce"} \cup BeforeProvider THEN "recorded"
  ELSE "closed"

Phase(a) == IF pc[a] = "idle" THEN "new" ELSE IF needs[a] THEN UserPhase(a) ELSE PolicyPhase(a)

(* Why: a preview is one the user will be asked about, and an approval is  *)
(* not on record before it is given.                                       *)
AskInv ==
  \A a \in Actions :
    /\ pc[a] = "preview" => needs[a]
    /\ "confirmed" \in trail[a] => answer[a] # "none"

Promise == INSTANCE Approvals WITH
  Actions <- Actions,
  asked   <- {a \in Actions : needs[a]},
  phase   <- [a \in Actions |-> Phase(a)],
  ran     <- {a \in Actions : entered[a] > 0}

(* The service implements the promise, however requests, confirmations and *)
(* expiries race, whichever audits and publishes fail and whoever is       *)
(* cancelled: no approval is taken back or used twice, nothing that was    *)
(* closed is opened again, and nothing runs before its approval is durable.*)
ImplementsApprovals == Promise!Spec

(* Every call returns: the lock and the semaphore are always given back.   *)
CallsReturn == \A c \in Calls : pc[c] # "idle" ~> pc[c] = "done"
=============================================================================
