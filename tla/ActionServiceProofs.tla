------------------------- MODULE ActionServiceProofs -------------------------
(***************************************************************************)
(* Proofs about ActionService, for every finite set of calls and every     *)
(* value of the limits. TLC checks the same formulas on small instances.   *)
(***************************************************************************)
EXTENDS ActionService, TLAPS

USE CallsAssumption, LimitsAssumption

-----------------------------------------------------------------------------
(* Types                                                                   *)

LEMMA GoType ==
  ASSUME TypeOK, NEW c \in Calls, NEW p \in PCs, Go(c, p)
  PROVE  /\ pc' \in [Calls -> PCs]
         /\ doomed' \subseteq Calls
         /\ ahead' \in [Calls -> SUBSET Calls]
<1>1. pc' \in [Calls -> PCs] /\ doomed' \subseteq Calls
  BY DEF TypeOK, Go
<1>2. Writing \in SUBSET Calls
  BY DEF Writing
<1>3. ahead' \in [Calls -> SUBSET Calls]
  BY <1>2 DEF TypeOK, Go
<1>. QED  BY <1>1, <1>3

LEMMA GoesType ==
  ASSUME TypeOK, NEW c \in Calls, \E p \in PCs : Go(c, p)
  PROVE  /\ pc' \in [Calls -> PCs]
         /\ doomed' \subseteq Calls
         /\ ahead' \in [Calls -> SUBSET Calls]
BY GoType

LEMMA WrittenType ==
  ASSUME TypeOK, NEW c \in Calls, Written(c), pc[c] \in Stages
  PROVE  trail' \in [Records -> SUBSET Stages]
<1>1. trail \in [Records -> SUBSET Stages]
  BY DEF TypeOK
<1>2. trail[Rec(c)] \cup {pc[c]} \in SUBSET Stages \/ Rec(c) \notin Records
  BY <1>1
<1>. QED  BY <1>1, <1>2 DEF Written

LEMMA AuditType ==
  ASSUME TypeOK, NEW c \in Calls,
         \/ pc[c] \in Stages /\ (AuditOk(c) \/ AuditRefused(c))
         \/ AuditEnds(c)
         \/ UNCHANGED audit
  PROVE  /\ trail' \in [Records -> SUBSET Stages]
         /\ auditDown' \in BOOLEAN
         /\ faults' \in 0..MaxFaults
<1>1. Written(c) /\ pc[c] \in Stages => trail' \in [Records -> SUBSET Stages]
  BY WrittenType
<1>2. Fault => faults' \in 0..MaxFaults
  BY DEF TypeOK, Fault
<1>. QED  BY <1>1, <1>2 DEF TypeOK, AuditOk, AuditRefused, AuditEnds, audit

LEMMA ProviderType ==
  ASSUME TypeOK, ProviderFails
  PROVE  quarantined' \in BOOLEAN /\ faults' \in 0..MaxFaults
<1>1. quarantined' \in BOOLEAN
  BY DEF TypeOK, ProviderFails
<1>2. faults' \in 0..MaxFaults
  BY DEF TypeOK, ProviderFails, Fault
<1>. QED  BY <1>1, <1>2

LEMMA StateType ==
  ASSUME TypeOK, NEW r, NEW s \in ActionState, SetState(r, s)
  PROVE  state' \in [Records -> ActionState \cup {"none"}]
BY DEF TypeOK, SetState

LEMMA StepType ==
  ASSUME TypeOK, NEW c \in Calls, Step(c) \/ Cancel(c)
  PROVE  TypeOK'
<1>. USE DEF TypeOK, gate, table, audit, PCs, Audits, Stages, Publishes, ProviderOperations
<1>1. ASSUME c \in Actions, Requested(c)  PROVE TypeOK'
  <2>1. trail' \in [Records -> SUBSET Stages] /\ auditDown' \in BOOLEAN /\ faults' \in 0..MaxFaults
    BY <1>1, AuditType DEF Requested
  <2>2. \E p \in PCs : Go(c, p)
    BY <1>1 DEF Requested
  <2>3. pc' \in [Calls -> PCs] /\ doomed' \subseteq Calls /\ ahead' \in [Calls -> SUBSET Calls]
    BY <2>2, GoesType
  <2>4. state' \in [Records -> ActionState \cup {"none"}] /\ pending' \subseteq Actions
    BY <1>1 DEF Requested, Close, SetState, ActionState
  <2>. QED  BY <1>1, <2>1, <2>3, <2>4 DEF Requested
<1>2. ASSUME c \in Actions, Preview(c)  PROVE TypeOK'
  <2>1. quarantined' \in BOOLEAN /\ faults' \in 0..MaxFaults
    BY <1>2, ProviderType DEF Preview
  <2>2. \E p \in PCs : Go(c, p)
    BY <1>2 DEF Preview
  <2>3. pc' \in [Calls -> PCs] /\ doomed' \subseteq Calls /\ ahead' \in [Calls -> SUBSET Calls]
    BY <2>2, GoesType
  <2>4. state' \in [Records -> ActionState \cup {"none"}] /\ pending' \subseteq Actions
    BY <1>2 DEF Preview, Close, SetState, ActionState
  <2>. QED  BY <1>2, <2>1, <2>3, <2>4 DEF Preview
<1>3. ASSUME c \in Undos, UndoRequested(c)  PROVE TypeOK'
  <2>1. trail' \in [Records -> SUBSET Stages] /\ auditDown' \in BOOLEAN /\ faults' \in 0..MaxFaults
    BY <1>3, AuditType DEF UndoRequested
  <2>2. \E p \in PCs : Go(c, p)
    BY <1>3 DEF UndoRequested
  <2>3. pc' \in [Calls -> PCs] /\ doomed' \subseteq Calls /\ ahead' \in [Calls -> SUBSET Calls]
    BY <2>2, GoesType
  <2>4. state' \in [Records -> ActionState \cup {"none"}] /\ pending' \subseteq Actions
    BY <1>3 DEF UndoRequested, Close, SetState, ActionState
  <2>. QED  BY <1>3, <2>1, <2>3, <2>4 DEF UndoRequested
<1>4. ASSUME TakeLock(c)  PROVE TypeOK'
  <2>1. \E p \in PCs : Go(c, p)
    BY <1>4 DEF TakeLock, Expire, Decide, AdmitRequest, SettleAnswer
  <2>2. pc' \in [Calls -> PCs] /\ doomed' \subseteq Calls /\ ahead' \in [Calls -> SUBSET Calls]
    BY <2>1, GoesType
  <2>3. state' \in [Records -> ActionState \cup {"none"}] /\ pending' \subseteq Actions
    BY <1>4 DEF TakeLock, Expire, Decide, AdmitRequest, SettleAnswer, Close, SetState, ActionState
  <2>. QED  BY <1>4, <2>2, <2>3 DEF TakeLock, Expire, Decide, AdmitRequest, SettleAnswer, Due, Waiting
<1>5. ASSUME Expired(c)  PROVE TypeOK'
  <2>1. trail' \in [Records -> SUBSET Stages] /\ auditDown' \in BOOLEAN /\ faults' \in 0..MaxFaults
    BY <1>5, AuditType DEF Expired
  <2>2. \E p \in PCs : Go(c, p)
    BY <1>5 DEF Expired, Expire, Decide, AdmitRequest, SettleAnswer
  <2>3. pc' \in [Calls -> PCs] /\ doomed' \subseteq Calls /\ ahead' \in [Calls -> SUBSET Calls]
    BY <2>2, GoesType
  <2>4. state' \in [Records -> ActionState \cup {"none"}] /\ pending' \subseteq Actions
    BY <1>5 DEF Expired, Expire, Decide, AdmitRequest, SettleAnswer, Close, SetState, ActionState
  <2>. QED  BY <1>5, <2>1, <2>3, <2>4 DEF Expired, Expire, Decide, AdmitRequest, SettleAnswer
<1>6. ASSUME Confirmed(c)  PROVE TypeOK'
  <2>1. trail' \in [Records -> SUBSET Stages] /\ auditDown' \in BOOLEAN /\ faults' \in 0..MaxFaults
    BY <1>6, AuditType DEF Confirmed
  <2>2. \E p \in PCs : Go(c, p)
    BY <1>6 DEF Confirmed
  <2>3. pc' \in [Calls -> PCs] /\ doomed' \subseteq Calls /\ ahead' \in [Calls -> SUBSET Calls]
    BY <2>2, GoesType
  <2>4. state' \in [Records -> ActionState \cup {"none"}] /\ pending' \subseteq Actions
    BY <1>6 DEF Confirmed, Close, SetState, ActionState
  <2>. QED  BY <1>6, <2>1, <2>3, <2>4 DEF Confirmed
<1>7. ASSUME Closed(c)  PROVE TypeOK'
  <2>1. trail' \in [Records -> SUBSET Stages] /\ auditDown' \in BOOLEAN /\ faults' \in 0..MaxFaults
    BY <1>7, AuditType DEF Closed
  <2>2. \E p \in PCs : Go(c, p)
    BY <1>7 DEF Closed
  <2>3. pc' \in [Calls -> PCs] /\ doomed' \subseteq Calls /\ ahead' \in [Calls -> SUBSET Calls]
    BY <2>2, GoesType
  <2>4. state' \in [Records -> ActionState \cup {"none"}] /\ pending' \subseteq Actions
    BY <1>7 DEF Closed, Close, SetState, ActionState
  <2>. QED  BY <1>7, <2>1, <2>3, <2>4 DEF Closed, Unlock
<1>8. ASSUME TakeSlot(c)  PROVE TypeOK'
  <2>1. \E p \in PCs : Go(c, p)
    BY <1>8 DEF TakeSlot, Settle
  <2>2. pc' \in [Calls -> PCs] /\ doomed' \subseteq Calls /\ ahead' \in [Calls -> SUBSET Calls]
    BY <2>1, GoesType
  <2>3. state' \in [Records -> ActionState \cup {"none"}] /\ pending' \subseteq Actions
    BY <1>8 DEF TakeSlot, Settle, Result, Close, SetState, ActionState
  <2>4. slots' \subseteq Calls
    BY <1>8 DEF TakeSlot, Settle
  <2>. QED  BY <1>8, <2>2, <2>3, <2>4 DEF TakeSlot
<1>9. ASSUME Sandbox(c)  PROVE TypeOK'
  <2>1. quarantined' \in BOOLEAN /\ faults' \in 0..MaxFaults
    BY <1>9, ProviderType DEF Sandbox
  <2>2. \E p \in PCs : Go(c, p)
    BY <1>9 DEF Sandbox, Settle
  <2>3. pc' \in [Calls -> PCs] /\ doomed' \subseteq Calls /\ ahead' \in [Calls -> SUBSET Calls]
    BY <2>2, GoesType
  <2>4. state' \in [Records -> ActionState \cup {"none"}] /\ pending' \subseteq Actions
    BY <1>9 DEF Sandbox, Settle, Result, Close, SetState, ActionState
  <2>5. slots' \subseteq Calls
    BY <1>9 DEF Sandbox, Settle
  <2>. QED  BY <1>9, <2>1, <2>3, <2>4, <2>5 DEF Sandbox
<1>10. ASSUME Intent(c)  PROVE TypeOK'
  <2>1. trail' \in [Records -> SUBSET Stages] /\ auditDown' \in BOOLEAN /\ faults' \in 0..MaxFaults
    BY <1>10, AuditType DEF Intent
  <2>2. \E p \in PCs : Go(c, p)
    BY <1>10 DEF Intent, Settle
  <2>3. pc' \in [Calls -> PCs] /\ doomed' \subseteq Calls /\ ahead' \in [Calls -> SUBSET Calls]
    BY <2>2, GoesType
  <2>4. state' \in [Records -> ActionState \cup {"none"}] /\ pending' \subseteq Actions
    BY <1>10 DEF Intent, Settle, Result, Close, SetState, ActionState
  <2>5. slots' \subseteq Calls
    BY <1>10 DEF Intent, Settle
  <2>6. entered' = entered \/ entered' = [entered EXCEPT ![Rec(c)] = @ + 1]
    BY <1>10 DEF Intent
  <2>7. Rec(c) \in Records => entered[Rec(c)] + 1 \in Nat
    OBVIOUS
  <2>8. entered' \in [Records -> Nat]
    BY <2>6, <2>7
  <2>. QED  BY <1>10, <2>1, <2>3, <2>4, <2>5, <2>8 DEF Intent
<1>11. ASSUME Provider(c)  PROVE TypeOK'
  <2>1. quarantined' \in BOOLEAN /\ faults' \in 0..MaxFaults
    BY <1>11, ProviderType DEF Provider
  <2>2. \E p \in PCs : Go(c, p)
    BY <1>11 DEF Provider, Settle
  <2>3. pc' \in [Calls -> PCs] /\ doomed' \subseteq Calls /\ ahead' \in [Calls -> SUBSET Calls]
    BY <2>2, GoesType
  <2>4. state' \in [Records -> ActionState \cup {"none"}] /\ pending' \subseteq Actions
    BY <1>11 DEF Provider, Settle, Result, Close, SetState, ActionState
  <2>5. slots' \subseteq Calls
    BY <1>11 DEF Provider, Settle
  <2>. QED  BY <1>11, <2>1, <2>3, <2>4, <2>5 DEF Provider
<1>12. ASSUME Executed(c)  PROVE TypeOK'
  <2>1. trail' \in [Records -> SUBSET Stages] /\ auditDown' \in BOOLEAN /\ faults' \in 0..MaxFaults
    BY <1>12, AuditType DEF Executed
  <2>2. \E p \in PCs : Go(c, p)
    BY <1>12 DEF Executed
  <2>3. pc' \in [Calls -> PCs] /\ doomed' \subseteq Calls /\ ahead' \in [Calls -> SUBSET Calls]
    BY <2>2, GoesType
  <2>4. state' \in [Records -> ActionState \cup {"none"}] /\ pending' \subseteq Actions
    BY <1>12 DEF Executed, Close, SetState, ActionState
  <2>. QED  BY <1>12, <2>1, <2>3, <2>4 DEF Executed
<1>13. ASSUME Published(c)  PROVE TypeOK'
  <2>1. \E p \in PCs : Go(c, p)
    BY <1>13 DEF Published, AfterPublish
  <2>2. pc' \in [Calls -> PCs] /\ doomed' \subseteq Calls /\ ahead' \in [Calls -> SUBSET Calls]
    BY <2>1, GoesType
  <2>3. state' \in [Records -> ActionState \cup {"none"}] /\ pending' \subseteq Actions
    BY <1>13 DEF Published, Close, SetState, ActionState
  <2>. QED  BY <1>13, <2>2, <2>3 DEF Published
<1>14. ASSUME PublishRefused(c)  PROVE TypeOK'
  <2>1. \E p \in PCs : Go(c, p)
    BY <1>14 DEF PublishRefused
  <2>2. pc' \in [Calls -> PCs] /\ doomed' \subseteq Calls /\ ahead' \in [Calls -> SUBSET Calls]
    BY <2>1, GoesType
  <2>3. state' \in [Records -> ActionState \cup {"none"}] /\ pending' \subseteq Actions
    BY <1>14 DEF PublishRefused, Close, SetState, ActionState
  <2>. QED  BY <1>14, <2>2, <2>3 DEF PublishRefused, Broken
<1>15. ASSUME Cancel(c)  PROVE TypeOK'
  <2>1. Written(c) /\ pc[c] \in Stages => trail' \in [Records -> SUBSET Stages]
    BY WrittenType
  <2>2. trail' \in [Records -> SUBSET Stages] /\ auditDown' \in BOOLEAN
    BY <1>15, <2>1 DEF Cancel
  <2>3. \E p \in PCs : Go(c, p)
    BY <1>15 DEF Cancel
  <2>4. pc' \in [Calls -> PCs] /\ doomed' \subseteq Calls /\ ahead' \in [Calls -> SUBSET Calls]
    BY <2>3, GoesType
  <2>5. quarantined' \in BOOLEAN
    BY <1>15 DEF Cancel
  <2>6. lock' \in Calls \cup {NoCall} /\ expiring' \subseteq Actions /\ slots' \subseteq Calls
    BY <1>15 DEF Cancel, Unlock
  <2>7. breaks' \in 0..MaxBreaks
    BY <1>15 DEF Cancel, Broken
  <2>. QED  BY <1>15, <2>2, <2>4, <2>5, <2>6, <2>7 DEF Cancel
<1>. QED  BY <1>1, <1>2, <1>3, <1>4, <1>5, <1>6, <1>7, <1>8, <1>9, <1>10, <1>11, <1>12, <1>13,
             <1>14, <1>15 DEF Step

LEMMA StartType ==
  ASSUME TypeOK,
         \/ \E a \in Actions : Request(a) \/ TimePasses(a)
         \/ \E c \in Confirms : Confirm(c)
         \/ \E u \in Undos : Undo(u)
  PROVE  TypeOK'
<1>. USE DEF TypeOK, gate, table, audit, store, PCs, Audits, Stages, Publishes,
             ProviderOperations
<1>1. ASSUME NEW a \in Actions, Request(a)  PROVE TypeOK'
  <2>1. a \in Calls /\ \E p \in PCs : Go(a, p)
    BY <1>1 DEF Request, Calls, Records
  <2>2. pc' \in [Calls -> PCs] /\ doomed' \subseteq Calls /\ ahead' \in [Calls -> SUBSET Calls]
    BY <2>1, GoesType
  <2>3. state' \in [Records -> ActionState \cup {"none"}] /\ pending' \subseteq Actions
    BY <1>1 DEF Request, SetState, ActionState
  <2>4. needs' \in [Actions -> BOOLEAN]
    BY <1>1 DEF Request
  <2>. QED  BY <1>1, <2>2, <2>3, <2>4 DEF Request
<1>2. ASSUME NEW c \in Confirms, Confirm(c)  PROVE TypeOK'
  <2>1. c \in Calls /\ \E p \in PCs : Go(c, p)
    BY <1>2 DEF Confirm, Calls
  <2>2. pc' \in [Calls -> PCs] /\ doomed' \subseteq Calls /\ ahead' \in [Calls -> SUBSET Calls]
    BY <2>1, GoesType
  <2>. QED  BY <1>2, <2>2 DEF Confirm
<1>3. ASSUME NEW u \in Undos, Undo(u)  PROVE TypeOK'
  <2>1. u \in Calls /\ \E p \in PCs : Go(u, p)
    BY <1>3 DEF Undo, Calls, Records
  <2>2. pc' \in [Calls -> PCs] /\ doomed' \subseteq Calls /\ ahead' \in [Calls -> SUBSET Calls]
    BY <2>1, GoesType
  <2>3. state' \in [Records -> ActionState \cup {"none"}]
    BY <1>3 DEF Undo, SetState, ActionState
  <2>. QED  BY <1>3, <2>2, <2>3 DEF Undo
<1>4. ASSUME NEW a \in Actions, TimePasses(a)  PROVE TypeOK'
  BY <1>4 DEF TimePasses
<1>. QED  BY <1>1, <1>2, <1>3, <1>4

LEMMA InitType == Init => TypeOK
<1>. SUFFICES ASSUME Init  PROVE TypeOK
  OBVIOUS
<1>. USE DEF Init, TypeOK
<1>1. pc \in [Calls -> PCs] /\ ahead \in [Calls -> SUBSET Calls]
  BY DEF PCs
<1>2. /\ target \in [Confirms \cup Undos -> Actions \cup {NoCall}]
      /\ answer \in [Actions -> {"none", "yes", "no"}]
      /\ state \in [Records -> ActionState \cup {"none"}]
      /\ needs \in [Actions -> BOOLEAN]
  OBVIOUS
<1>3. trail \in [Records -> SUBSET Stages] /\ entered \in [Records -> Nat]
  OBVIOUS
<1>4. faults \in 0..MaxFaults /\ breaks \in 0..MaxBreaks
  OBVIOUS
<1>. QED  BY <1>1, <1>2, <1>3, <1>4

LEMMA NextType == TypeOK /\ [Next]_vars => TypeOK'
<1>. SUFFICES ASSUME TypeOK, [Next]_vars  PROVE TypeOK'
  OBVIOUS
<1>1. CASE UNCHANGED vars
  BY <1>1 DEF TypeOK, vars, gate, table, audit, store
<1>2. CASE Next
  BY <1>2, StepType, StartType DEF Next
<1>. QED  BY <1>1, <1>2

(* Type correctness for every set of calls and every value of the limits.  *)
THEOREM TypeCorrect == Spec => []TypeOK
<1>1. Init => TypeOK
  BY InitType
<1>2. TypeOK /\ [Next]_vars => TypeOK'
  BY NextType
<1>. QED  BY <1>1, <1>2, PTL DEF Spec

-----------------------------------------------------------------------------
(* The claim: who may run a record                                         *)

RequestPre == {"lock", "expiry", "requested", "preview", "announce"} \cup BeforeProvider
ConfirmPre == {"decision", "confirmed"} \cup BeforeProvider

(* A step that moves one call and neither answers, claims nor enters the   *)
(* provider.                                                               *)
LEMMA Moves ==
  ASSUME TypeOK, ClaimInv, NEW c \in Calls, NEW p,
         Go(c, p), pc[c] # "idle", p # "idle",
         UNCHANGED <<target, answer, needs, entered>>,
         \A r \in Records : trail[r] \subseteq trail'[r],
         \A a \in Actions : state'[a] = "waiting" => state[a] = "waiting",
         c \in Actions => /\ p \notin {"decision", "confirmed"}
                          /\ needs[c] => p \notin Running
                          /\ p \in RequestPre => pc[c] \in RequestPre,
         c \in Undos => /\ p \in {"done"} \cup Running
                        /\ p \in BeforeProvider => pc[c] \in {"requested"} \cup BeforeProvider,
         c \in Confirms => /\ p \in {"expiry", "done"} \cup Claimed
                           /\ p \in Claimed => pc[c] \in Claimed
                           /\ p \in ConfirmPre => pc[c] \in ConfirmPre
                           /\ p \in Running => \/ pc[c] \in Running
                                               \/ /\ answer[target[c]] = "yes"
                                                  /\ "confirmed" \in trail'[target[c]]
  PROVE  ClaimInv'
<1>1. pc'[c] = p /\ \A d \in Calls : d # c => pc'[d] = pc[d]
  BY DEF TypeOK, Go
<1>2. RequestInv'
  <2>. SUFFICES ASSUME NEW a \in Actions  PROVE RequestInv!(a)'
    BY DEF RequestInv
  <2>1. a \in Calls /\ RequestInv!(a)
    BY DEF ClaimInv, RequestInv, Calls, Records
  <2>2. CASE a = c
    BY <1>1, <2>1, <2>2 DEF RequestPre
  <2>3. CASE a # c
    BY <1>1, <2>1, <2>3
  <2>. QED  BY <2>2, <2>3
<1>3. UndoInv'
  <2>. SUFFICES ASSUME NEW u \in Undos  PROVE UndoInv!(u)'
    BY DEF UndoInv
  <2>1. u \in Calls /\ u \notin Confirms /\ UndoInv!(u)
    BY DEF ClaimInv, UndoInv, Calls, Records
  <2>2. CASE u = c
    BY <1>1, <2>1, <2>2 DEF Running
  <2>3. CASE u # c
    BY <1>1, <2>1, <2>3
  <2>. QED  BY <2>2, <2>3
<1>4. ConfirmInv'
  <2>. SUFFICES ASSUME NEW d \in Confirms  PROVE ConfirmInv!(d)'
    BY DEF ConfirmInv
  <2>1. d \in Calls /\ ConfirmInv!(d) /\ (pc[d] # "idle" => target[d] \in Records)
    BY DEF ClaimInv, ConfirmInv, Calls, Records
  <2>2. \A e \in Confirms : ConfirmInv!(e)
    BY DEF ClaimInv, ConfirmInv
  <2>3. \A e \in Confirms : pc'[e] \in Claimed => pc[e] \in Claimed
    BY <1>1 DEF Calls, Records
  <2>4. CASE d = c
    BY <1>1, <2>1, <2>2, <2>3, <2>4 DEF ConfirmPre, Claimed, Running
  <2>5. CASE d # c
    BY <1>1, <2>1, <2>2, <2>3, <2>5 DEF Claimed, Running
  <2>. QED  BY <2>4, <2>5
<1>5. ExecutedOnce' /\ IntentIsDurable'
  BY DEF ClaimInv, ExecutedOnce, IntentIsDurable
<1>. QED  BY <1>2, <1>3, <1>4, <1>5 DEF ClaimInv

(* A trail only grows.                                                     *)
LEMMA TrailGrows ==
  ASSUME TypeOK, NEW c \in Calls,
         AuditOk(c) \/ AuditRefused(c) \/ AuditEnds(c) \/ UNCHANGED trail \/ Written(c)
  PROVE  \A r \in Records : trail[r] \subseteq trail'[r]
<1>1. Written(c) => \A r \in Records : trail[r] \subseteq trail'[r]
  BY DEF TypeOK, Written
<1>. QED  BY <1>1 DEF AuditOk, AuditRefused, AuditEnds, audit

LEMMA NoNewWaiting ==
  ASSUME TypeOK, NEW r, NEW s \in ActionState \ {"waiting"},
         UNCHANGED state \/ SetState(r, s)
  PROVE  \A a \in Actions : state'[a] = "waiting" => state[a] = "waiting"
BY DEF TypeOK, SetState, Records

(* The provider boundary: the call that crosses it is the only one that    *)
(* could, and its intent and the approval are durable.                     *)
LEMMA EntersOnce ==
  ASSUME TypeOK, ClaimInv, NEW c \in Calls, pc[c] = "executing", Written(c), Go(c, "provider"),
         entered' = [entered EXCEPT ![Rec(c)] = @ + 1],
         UNCHANGED <<target, answer, needs, state>>
  PROVE  ClaimInv'
<1>. DEFINE r == Rec(c)
<1>. USE DEF Running, BeforeProvider, Claimed
<1>1. /\ pc'[c] = "provider" /\ \A d \in Calls : d # c => pc'[d] = pc[d]
      /\ c \in Actions \/ c \in Undos \/ c \in Confirms
      /\ c \in Confirms => c \notin Actions /\ c \notin Undos
      /\ c \in Actions => c \notin Undos
      /\ Actions \subseteq Calls /\ Undos \subseteq Calls /\ Confirms \subseteq Calls
      /\ \A a \in Actions : a \notin Confirms /\ a \notin Undos
  BY DEF TypeOK, Go, Calls, Records
<1>2. /\ c \in Actions => r = c /\ ~needs[c] /\ entered[c] = 0 /\ answer[c] = "none"
      /\ c \in Undos => r = c /\ entered[c] = 0
      /\ c \in Confirms => /\ r = target[c] /\ r \in Actions
                           /\ entered[r] = 0 /\ answer[r] = "yes" /\ needs[r]
                           /\ "confirmed" \in trail[r]
  BY <1>1 DEF ClaimInv, RequestInv, UndoInv, ConfirmInv, Rec
<1>3. r \in Records /\ entered'[r] = 1 /\ \A q \in Records : q # r => entered'[q] = entered[q]
  BY <1>1, <1>2 DEF TypeOK, Records
<1>4. "executing" \in trail'[r] /\ \A q \in Records : trail[q] \subseteq trail'[q]
  BY <1>3 DEF Written, TypeOK
<1>5. RequestInv'
  <2>. SUFFICES ASSUME NEW a \in Actions  PROVE RequestInv!(a)'
    BY DEF RequestInv
  <2>1. RequestInv!(a) /\ a \in Records
    BY DEF ClaimInv, RequestInv, Records
  <2>2. CASE a = r
    BY <1>1, <1>2, <2>1, <2>2
  <2>3. CASE a # r
    <3>1. entered'[a] = entered[a]
      BY <1>3, <2>1, <2>3
    <3>2. a # c
      BY <1>2, <2>3
    <3>. QED  BY <1>1, <2>1, <3>1, <3>2
  <2>. QED  BY <2>2, <2>3
<1>6. UndoInv'
  <2>. SUFFICES ASSUME NEW u \in Undos  PROVE UndoInv!(u)'
    BY DEF UndoInv
  <2>1. UndoInv!(u) /\ u \in Records
    BY DEF ClaimInv, UndoInv, Records
  <2>2. CASE u = c
    BY <1>1, <2>2
  <2>3. CASE u # c
    <3>1. u # r
      BY <1>1, <1>2, <2>3
    <3>. QED  BY <1>1, <1>3, <2>1, <2>3, <3>1
  <2>. QED  BY <2>2, <2>3
<1>7. ConfirmInv'
  <2>. SUFFICES ASSUME NEW d \in Confirms  PROVE ConfirmInv!(d)'
    BY DEF ConfirmInv
  <2>1. ConfirmInv!(d) /\ \A e \in Confirms : ConfirmInv!(e)
    BY DEF ClaimInv, ConfirmInv
  <2>2. \A e \in Confirms : pc'[e] \in Claimed => pc[e] \in Claimed
    BY <1>1
  <2>3. pc[d] # "idle" => target[d] \in Records
    BY <2>1 DEF Records
  <2>4. CASE d = c
    BY <1>1, <1>2, <1>4, <2>1, <2>2, <2>4 DEF Records
  <2>5. CASE d # c
    <3>1. pc[d] \in Claimed => target[d] # r
      <4>1. \A a \in Actions : answer[a] # "none" => needs[a]
        BY DEF ClaimInv, RequestInv
      <4>. QED  BY <1>1, <1>2, <2>1, <2>5, <4>1
    <3>2. pc[d] \in Claimed => entered'[target[d]] = entered[target[d]]
      BY <1>3, <2>3, <3>1
    <3>. QED  BY <1>1, <1>4, <2>1, <2>2, <2>3, <2>5, <3>2
  <2>. QED  BY <2>4, <2>5
<1>8. ExecutedOnce'
  BY <1>3 DEF ClaimInv, ExecutedOnce
<1>9. IntentIsDurable'
  <2>. SUFFICES ASSUME NEW q \in Records  PROVE IntentIsDurable!(q)'
    BY DEF IntentIsDurable
  <2>1. CASE q = r
    BY <1>1, <1>2, <1>4, <2>1 DEF Records
  <2>2. CASE q # r
    BY <1>3, <1>4, <2>2 DEF ClaimInv, IntentIsDurable
  <2>. QED  BY <2>1, <2>2
<1>. QED  BY <1>5, <1>6, <1>7, <1>8, <1>9 DEF ClaimInv

(* An answer claims the record: nobody else has claimed it, because it was *)
(* not answered before.                                                    *)
LEMMA AnswerClaims ==
  ASSUME TypeOK, ClaimInv, NEW c \in Confirms, pc[c] \in {"lock", "expiry"},
         target[c] \in Waiting, Go(c, "decision"),
         NEW v \in {"yes", "no"}, answer' = [answer EXCEPT ![target[c]] = v],
         NEW s \in {"denied", "pending"}, SetState(target[c], s),
         UNCHANGED <<target, needs, entered, trail>>
  PROVE  ClaimInv'
<1>. DEFINE a == target[c]
<1>. USE DEF Running, BeforeProvider, Claimed
<1>1. /\ pc'[c] = "decision" /\ \A d \in Calls : d # c => pc'[d] = pc[d]
      /\ Actions \subseteq Calls /\ Undos \subseteq Calls /\ Confirms \subseteq Calls
      /\ \A b \in Actions : b \notin Confirms /\ b \in Records
      /\ \A u \in Undos : u \notin Confirms
  BY DEF TypeOK, Go, Calls, Records
<1>2. a \in Actions /\ needs[a] /\ answer[a] = "none" /\ entered[a] = 0
  BY DEF ClaimInv, RequestInv, Waiting, TypeOK
<1>3. /\ answer'[a] # "none" /\ state'[a] # "waiting"
      /\ \A b \in Actions : b # a => answer'[b] = answer[b] /\ state'[b] = state[b]
  BY <1>1, <1>2 DEF TypeOK, SetState
<1>4. RequestInv'
  <2>. SUFFICES ASSUME NEW b \in Actions  PROVE RequestInv!(b)'
    BY DEF RequestInv
  <2>1. RequestInv!(b) /\ pc'[b] = pc[b]
    BY <1>1 DEF ClaimInv, RequestInv
  <2>. QED  BY <1>2, <1>3, <2>1
<1>5. UndoInv'
  BY <1>1 DEF ClaimInv, UndoInv
<1>6. ConfirmInv'
  <2>. SUFFICES ASSUME NEW d \in Confirms  PROVE ConfirmInv!(d)'
    BY DEF ConfirmInv
  <2>1. ConfirmInv!(d) /\ \A e \in Confirms : ConfirmInv!(e)
    BY DEF ClaimInv, ConfirmInv
  <2>2. \A e \in Confirms : pc[e] \in Claimed => target[e] # a
    BY <1>2, <2>1
  <2>3. CASE d = c
    BY <1>1, <1>2, <1>3, <2>1, <2>2, <2>3
  <2>4. CASE d # c
    BY <1>1, <1>2, <1>3, <2>1, <2>2, <2>4
  <2>. QED  BY <2>3, <2>4
<1>7. ExecutedOnce' /\ IntentIsDurable'
  BY <1>2, <1>3 DEF ClaimInv, ExecutedOnce, IntentIsDurable
<1>. QED  BY <1>4, <1>5, <1>6, <1>7 DEF ClaimInv

LEMMA StepKeepsClaims ==
  ASSUME TypeOK, ClaimInv, NEW c \in Calls, Step(c) \/ Cancel(c)
  PROVE  ClaimInv'
<1>. DEFINE Grows == \A r \in Records : trail[r] \subseteq trail'[r]
            Calm == \A a \in Actions : state'[a] = "waiting" => state[a] = "waiting"
<1>. USE DEF RequestPre, ConfirmPre, Claimed, Running, BeforeProvider
<1>0. /\ c \in Undos => c \notin Actions /\ c \notin Confirms
      /\ c \in Confirms => c \notin Actions /\ c \notin Undos
      /\ c \in Actions => c \notin Confirms /\ c \notin Undos
      /\ c \in Actions \/ c \in Undos \/ c \in Confirms
      /\ c \in Undos => pc[c] \in {"idle", "requested", "done"} \cup Running
      /\ c \in Confirms => pc[c] \in {"idle", "lock", "expiry", "done"} \cup Claimed
      /\ c \in Actions => pc[c] \notin {"decision", "confirmed"}
      /\ c \in Actions /\ needs[c] => pc[c] \notin Running
  BY DEF Calls, Records, ClaimInv, RequestInv, UndoInv, ConfirmInv
<1>1. ASSUME c \in Actions, Requested(c)  PROVE ClaimInv'
  <2>1. Grows
    BY <1>1, TrailGrows DEF Requested
  <2>2. Calm
    BY <1>1, NoNewWaiting DEF Requested, Close, table, ActionState
  <2>3. CASE Go(c, IF needs[c] THEN "preview" ELSE "announce")
    BY <1>0, <1>1, <2>1, <2>2, <2>3, Moves DEF Requested
  <2>4. CASE Go(c, "done")
    BY <1>0, <1>1, <2>1, <2>2, <2>4, Moves DEF Requested
  <2>. QED  BY <1>1, <2>3, <2>4 DEF Requested
<1>2. ASSUME c \in Actions, Preview(c)  PROVE ClaimInv'
  <2>1. Grows
    BY <1>2, TrailGrows DEF Preview
  <2>2. Calm
    BY <1>2, NoNewWaiting DEF Preview, Close, table, ActionState
  <2>3. CASE Go(c, "announce")
    BY <1>0, <1>2, <2>1, <2>2, <2>3, Moves DEF Preview
  <2>4. CASE Go(c, "closing")
    BY <1>0, <1>2, <2>1, <2>2, <2>4, Moves DEF Preview
  <2>. QED  BY <1>2, <2>3, <2>4 DEF Preview
<1>3. ASSUME c \in Undos, UndoRequested(c)  PROVE ClaimInv'
  <2>1. Grows
    BY <1>3, TrailGrows DEF UndoRequested
  <2>2. Calm
    BY <1>3, NoNewWaiting DEF UndoRequested, table, ActionState
  <2>3. CASE Go(c, "slot")
    BY <1>0, <1>3, <2>1, <2>2, <2>3, Moves DEF UndoRequested
  <2>4. CASE Go(c, "done")
    BY <1>0, <1>3, <2>1, <2>2, <2>4, Moves DEF UndoRequested
  <2>. QED  BY <1>3, <2>3, <2>4 DEF UndoRequested
<1>4. ASSUME Closed(c)  PROVE ClaimInv'
  <2>1. Grows
    BY <1>4, TrailGrows DEF Closed
  <2>2. Calm
    BY <1>4, NoNewWaiting DEF Closed, table, ActionState
  <2>3. CASE Go(c, "done")
    BY <1>0, <1>4, <2>1, <2>2, <2>3, Moves DEF Closed
  <2>. QED  BY <1>4, <2>3 DEF Closed
<1>5. ASSUME TakeSlot(c)  PROVE ClaimInv'
  <2>1. Grows
    BY <1>5, TrailGrows DEF TakeSlot, audit
  <2>2. Calm
    BY <1>5, NoNewWaiting DEF TakeSlot, Settle, Close, Result, ActionState
  <2>3. CASE Go(c, "report")
    BY <1>0, <1>5, <2>1, <2>2, <2>3, Moves DEF TakeSlot
  <2>4. CASE Go(c, "sandbox")
    BY <1>0, <1>5, <2>1, <2>2, <2>4, Moves DEF TakeSlot
  <2>. QED  BY <1>5, <2>3, <2>4 DEF TakeSlot, Settle
<1>6. ASSUME Sandbox(c)  PROVE ClaimInv'
  <2>1. Grows
    BY <1>6, TrailGrows DEF Sandbox
  <2>2. Calm
    BY <1>6, NoNewWaiting DEF Sandbox, Settle, Close, Result, table, ActionState
  <2>3. CASE Go(c, "report")
    BY <1>0, <1>6, <2>1, <2>2, <2>3, Moves DEF Sandbox
  <2>4. CASE Go(c, "executing")
    BY <1>0, <1>6, <2>1, <2>2, <2>4, Moves DEF Sandbox
  <2>. QED  BY <1>6, <2>3, <2>4 DEF Sandbox, Settle
<1>7. ASSUME Provider(c)  PROVE ClaimInv'
  <2>1. Grows
    BY <1>7, TrailGrows DEF Provider
  <2>2. Calm
    BY <1>7, NoNewWaiting DEF Provider, Settle, Close, Result, table, ActionState
  <2>3. CASE Go(c, "report")
    BY <1>0, <1>7, <2>1, <2>2, <2>3, Moves DEF Provider
  <2>. QED  BY <1>7, <2>3 DEF Provider, Settle
<1>8. ASSUME Executed(c)  PROVE ClaimInv'
  <2>1. Grows
    BY <1>8, TrailGrows DEF Executed
  <2>2. Calm
    BY <1>8, NoNewWaiting DEF Executed, table, ActionState
  <2>3. CASE Go(c, "done")
    BY <1>0, <1>8, <2>1, <2>2, <2>3, Moves DEF Executed
  <2>. QED  BY <1>8, <2>3 DEF Executed
<1>9. ASSUME PublishRefused(c)  PROVE ClaimInv'
  <2>1. Grows
    BY <1>9, TrailGrows DEF PublishRefused, audit
  <2>2. Calm
    BY <1>9, NoNewWaiting DEF PublishRefused, table, ActionState
  <2>3. CASE Go(c, "done")
    BY <1>0, <1>9, <2>1, <2>2, <2>3, Moves DEF PublishRefused, Publishes
  <2>. QED  BY <1>9, <2>3 DEF PublishRefused
<1>10. ASSUME Cancel(c)  PROVE ClaimInv'
  <2>1. Grows
    BY <1>10, TrailGrows DEF Cancel
  <2>2. Calm
    BY <1>10, NoNewWaiting DEF Cancel, table, ActionState
  <2>3. CASE Go(c, "done")
    BY <1>0, <1>10, <2>1, <2>2, <2>3, Moves DEF Cancel
  <2>. QED  BY <1>10, <2>3 DEF Cancel
<1>11. ASSUME Confirmed(c)  PROVE ClaimInv'
  <2>1. Grows
    BY <1>11, TrailGrows DEF Confirmed
  <2>2. Calm
    BY <1>11, NoNewWaiting DEF Confirmed, Close, table, ActionState
  <2>3. c \in Confirms /\ target[c] \in Records
    BY <1>0, <1>11 DEF Confirmed, ClaimInv, ConfirmInv, Records
  <2>4. CASE AuditOk(c) /\ Go(c, IF answer[target[c]] = "yes" THEN "slot" ELSE "done")
    <3>1. "confirmed" \in trail'[target[c]]
      BY <1>11, <2>3, <2>4 DEF Confirmed, AuditOk, Written, Rec, TypeOK
    <3>. QED  BY <1>0, <1>11, <2>1, <2>2, <2>3, <2>4, <3>1, Moves DEF Confirmed
  <2>5. CASE Go(c, "done")
    BY <1>0, <1>11, <2>1, <2>2, <2>5, Moves DEF Confirmed
  <2>. QED  BY <1>11, <2>4, <2>5 DEF Confirmed
<1>12. ASSUME Published(c)  PROVE ClaimInv'
  <2>1. Grows
    BY <1>12, TrailGrows DEF Published, audit
  <2>2. Calm
    BY <1>12, NoNewWaiting DEF Published, table, ActionState
  <2>3. CASE pc[c] = "announce"
    BY <1>0, <1>12, <2>1, <2>2, <2>3, Moves DEF Published, AfterPublish
  <2>4. CASE pc[c] = "decision"
    BY <1>0, <1>12, <2>1, <2>2, <2>4, Moves DEF Published, AfterPublish
  <2>5. CASE pc[c] = "report"
    BY <1>0, <1>12, <2>1, <2>2, <2>5, Moves DEF Published, AfterPublish
  <2>. QED  BY <1>12, <2>3, <2>4, <2>5 DEF Published, Publishes
<1>13. ASSUME Intent(c)  PROVE ClaimInv'
  <2>1. CASE /\ AuditOk(c) /\ UNCHANGED <<table, slots>> /\ Go(c, "provider")
             /\ entered' = [entered EXCEPT ![Rec(c)] = @ + 1]
    BY <1>13, <2>1, EntersOnce DEF Intent, AuditOk, table
  <2>2. CASE AuditRefused(c) /\ Settle(c, FALSE) /\ UNCHANGED entered
    <3>1. Grows
      BY <2>2, TrailGrows
    <3>2. Calm
      BY <2>2, NoNewWaiting DEF Settle, Close, Result, ActionState
    <3>. QED  BY <1>0, <1>13, <2>2, <3>1, <3>2, Moves DEF Intent, Settle
  <2>. QED  BY <1>13, <2>1, <2>2 DEF Intent
<1>14. ASSUME Expire(c, Due) \/ Expire(c, expiring) \/ Decide(c), pc[c] \in {"lock", "expiry"}, Grows,
              UNCHANGED <<target, needs, entered>>, UNCHANGED trail
       PROVE  ClaimInv'
  <2>1. CASE Expire(c, Due) \/ Expire(c, expiring)
    <3>1. Calm
      BY <2>1, NoNewWaiting DEF Expire, Close, ActionState
    <3>. QED  BY <1>0, <1>14, <2>1, <3>1, Moves DEF Expire
  <2>2. CASE c \in Actions /\ AdmitRequest(c) /\ UNCHANGED answer
    <3>1. Calm
      BY <2>2, NoNewWaiting DEF AdmitRequest, ActionState
    <3>. QED  BY <1>0, <1>14, <2>2, <3>1, Moves DEF AdmitRequest
  <2>3. CASE c \in Confirms /\ SettleAnswer(c)
    <3>1. CASE target[c] \notin Waiting /\ UNCHANGED <<table, answer>> /\ Go(c, "done")
      <4>1. Calm
        BY <3>1 DEF table
      <4>. QED  BY <1>0, <1>14, <2>3, <3>1, <4>1, Moves
    <3>2. CASE /\ target[c] \in Waiting /\ Go(c, "decision")
               /\ answer' = [answer EXCEPT ![target[c]] = "no"] /\ Close(target[c], "denied")
      BY <1>14, <2>3, <3>2, AnswerClaims DEF Close
    <3>3. CASE /\ target[c] \in Waiting /\ Go(c, "decision")
               /\ answer' = [answer EXCEPT ![target[c]] = "yes"]
               /\ SetState(target[c], "pending")
      BY <1>14, <2>3, <3>3, AnswerClaims
    <3>. QED  BY <2>3, <3>1, <3>2, <3>3 DEF SettleAnswer
  <2>. QED  BY <1>14, <2>1, <2>2, <2>3 DEF Decide
<1>15. ASSUME TakeLock(c)  PROVE ClaimInv'
  BY <1>14, <1>15 DEF TakeLock, audit
<1>16. ASSUME Expired(c)  PROVE ClaimInv'
  BY <1>14, <1>16 DEF Expired, AuditEnds
<1>. QED  BY <1>1, <1>2, <1>3, <1>4, <1>5, <1>6, <1>7, <1>8, <1>9, <1>10, <1>11, <1>12, <1>13,
             <1>15, <1>16 DEF Step

LEMMA StartKeepsClaims ==
  ASSUME TypeOK, ClaimInv,
         \/ \E a \in Actions : Request(a) \/ TimePasses(a)
         \/ \E c \in Confirms : Confirm(c)
         \/ \E u \in Undos : Undo(u)
  PROVE  ClaimInv'
<1>. USE DEF Running, BeforeProvider, Claimed
<1>0. /\ \A a \in Actions : a \in Calls /\ a \in Records /\ a \notin Confirms /\ a \notin Undos
      /\ \A u \in Undos : u \in Calls /\ u \in Records /\ u \notin Confirms
      /\ \A c \in Confirms : c \in Calls
  BY DEF Calls, Records
<1>1. ASSUME NEW a \in Actions, Request(a)  PROVE ClaimInv'
  <2>1. /\ pc'[a] \in {"closing", "lock", "requested"}
        /\ \A d \in Calls : d # a => pc'[d] = pc[d]
        /\ UNCHANGED <<target, answer, entered, trail>>
    BY <1>0, <1>1 DEF Request, Go, TypeOK, audit
  <2>2. /\ pc[a] = "idle" /\ ~needs[a] /\ entered[a] = 0 /\ answer[a] = "none"
        /\ state'[a] = "waiting" => needs'[a]
        /\ \A b \in Actions : b # a => needs'[b] = needs[b] /\ state'[b] = state[b]
    BY <1>0, <1>1 DEF Request, ClaimInv, RequestInv, SetState, TypeOK
  <2>3. RequestInv'
    <3>. SUFFICES ASSUME NEW b \in Actions  PROVE RequestInv!(b)'
      BY DEF RequestInv
    <3>1. RequestInv!(b)
      BY DEF ClaimInv, RequestInv
    <3>2. CASE b = a
      BY <2>1, <2>2, <3>2
    <3>3. CASE b # a
      BY <1>0, <2>1, <2>2, <3>1, <3>3
    <3>. QED  BY <3>2, <3>3
  <2>4. UndoInv' /\ ConfirmInv'
    BY <1>0, <2>1 DEF ClaimInv, UndoInv, ConfirmInv
  <2>5. ExecutedOnce' /\ IntentIsDurable'
    BY <2>1, <2>2 DEF ClaimInv, ExecutedOnce, IntentIsDurable
  <2>. QED  BY <2>3, <2>4, <2>5 DEF ClaimInv
<1>2. ASSUME NEW c \in Confirms, Confirm(c)  PROVE ClaimInv'
  <2>1. /\ pc'[c] = "lock" /\ \A d \in Calls : d # c => pc'[d] = pc[d]
        /\ target'[c] \in Actions /\ \A d \in Confirms : d # c => target'[d] = target[d]
        /\ UNCHANGED <<answer, needs, state, entered, trail>>
    BY <1>0, <1>2 DEF Confirm, Go, TypeOK, audit, table
  <2>2. RequestInv' /\ UndoInv'
    BY <1>0, <2>1 DEF ClaimInv, RequestInv, UndoInv
  <2>3. ConfirmInv'
    BY <1>0, <2>1 DEF ClaimInv, ConfirmInv
  <2>4. ExecutedOnce' /\ IntentIsDurable'
    BY <2>1 DEF ClaimInv, ExecutedOnce, IntentIsDurable
  <2>. QED  BY <2>2, <2>3, <2>4 DEF ClaimInv
<1>3. ASSUME NEW u \in Undos, Undo(u)  PROVE ClaimInv'
  <2>1. /\ pc[u] = "idle" /\ pc'[u] = "requested" /\ \A d \in Calls : d # u => pc'[d] = pc[d]
        /\ \A d \in Confirms : target'[d] = target[d]
        /\ \A a \in Actions : state'[a] = state[a]
        /\ UNCHANGED <<answer, needs, entered, trail>>
    BY <1>0, <1>3 DEF Undo, Go, SetState, TypeOK, audit
  <2>2. RequestInv' /\ UndoInv'
    BY <1>0, <2>1 DEF ClaimInv, RequestInv, UndoInv
  <2>3. ConfirmInv'
    BY <1>0, <2>1 DEF ClaimInv, ConfirmInv
  <2>4. ExecutedOnce' /\ IntentIsDurable'
    BY <2>1 DEF ClaimInv, ExecutedOnce, IntentIsDurable
  <2>. QED  BY <2>2, <2>3, <2>4 DEF ClaimInv
<1>4. ASSUME NEW a \in Actions, TimePasses(a)  PROVE ClaimInv'
  BY <1>4 DEF TimePasses, table, audit, ClaimInv, RequestInv, UndoInv, ConfirmInv, ExecutedOnce,
              IntentIsDurable
<1>. QED  BY <1>1, <1>2, <1>3, <1>4

LEMMA NextKeepsClaims == TypeOK /\ ClaimInv /\ [Next]_vars => ClaimInv'
<1>. SUFFICES ASSUME TypeOK, ClaimInv, [Next]_vars  PROVE ClaimInv'
  OBVIOUS
<1>1. CASE UNCHANGED vars
  BY <1>1 DEF vars, table, audit, ClaimInv, RequestInv, UndoInv, ConfirmInv, ExecutedOnce,
              IntentIsDurable
<1>2. CASE Next
  BY <1>2, StepKeepsClaims, StartKeepsClaims DEF Next
<1>. QED  BY <1>1, <1>2

(* The claims on records are always unique and never outlive an execution: *)
(* the inductive invariant behind the two theorems that follow.            *)
THEOREM ClaimInvariant == Spec => []ClaimInv
<1>1. Init => ClaimInv
  BY DEF Init, ClaimInv, RequestInv, UndoInv, ConfirmInv, ExecutedOnce, IntentIsDurable, Claimed,
         Running, BeforeProvider, Calls, Records
<1>2. TypeOK /\ ClaimInv /\ [Next]_vars => ClaimInv'
  BY NextKeepsClaims
<1>. QED  BY <1>1, <1>2, TypeCorrect, PTL DEF Spec

(* The provider executes an action, or an undo, at most once.              *)
THEOREM AtMostOneExecution == Spec => []ExecutedOnce
<1>1. ClaimInv => ExecutedOnce
  BY DEF ClaimInv
<1>. QED  BY <1>1, ClaimInvariant, PTL

(* Nothing reaches the provider without a durable intent and, where one is *)
(* needed, a durable approval.                                             *)
THEOREM ExecutionIsOnRecord == Spec => []IntentIsDurable
<1>1. ClaimInv => IntentIsDurable
  BY DEF ClaimInv
<1>. QED  BY <1>1, ClaimInvariant, PTL

LEMMA AnswersStay ==
  ASSUME TypeOK, ClaimInv, Next
  PROVE  \A a \in Actions : answer[a] # "none" => answer'[a] = answer[a]
<1>1. ASSUME NEW c \in Calls, SettleAnswer(c)
      PROVE  \A a \in Actions : answer[a] # "none" => answer'[a] = answer[a]
  <2>1. target[c] \in Waiting => target[c] \in Actions /\ answer[target[c]] = "none"
    BY DEF Waiting, TypeOK, ClaimInv, RequestInv
  <2>. QED  BY <1>1, <2>1 DEF SettleAnswer, TypeOK
<1>2. ASSUME NEW c \in Calls, TakeLock(c) \/ Expired(c)
      PROVE  \A a \in Actions : answer[a] # "none" => answer'[a] = answer[a]
  BY <1>1, <1>2 DEF TakeLock, Expired, Expire, Decide
<1>. QED  BY <1>2 DEF Next, Step, Requested, Preview, UndoRequested, Confirmed, Closed, TakeSlot,
             Sandbox, Intent, Provider, Executed, Published, PublishRefused, Cancel, Request,
             TimePasses, Confirm, Undo

(* The first answer to a confirmation is the only one, whoever races.      *)
THEOREM SingleUse == Spec => ConfirmationIsSingleUse
<1>1. TypeOK /\ ClaimInv /\ [Next]_vars =>
        [\A a \in Actions : answer[a] # "none" => answer'[a] = answer[a]]_vars
  BY AnswersStay
<1>. QED  BY <1>1, TypeCorrect, ClaimInvariant, PTL DEF Spec, ConfirmationIsSingleUse

-----------------------------------------------------------------------------
(* What is left in _pending, and what a refusal is worth                   *)

LEMMA KindsOfCalls ==
  /\ \A c \in Calls : c \in Actions \/ c \in Undos \/ c \in Confirms
  /\ \A a \in Actions : a \in Calls /\ a \in Records /\ a \notin Confirms /\ a \notin Undos
  /\ \A u \in Undos : u \in Calls /\ u \in Records /\ u \notin Confirms /\ u \notin Actions
  /\ \A c \in Confirms : c \in Calls /\ c \notin Actions /\ c \notin Undos
BY DEF Calls, Records

(* A step that moves one call and may change the record it works on.       *)
LEMMA SettlesOne ==
  ASSUME TypeOK, ClaimInv, SettleInv, NEW c \in Calls, NEW p,
         Go(c, p), pc[c] # "idle", p \notin {"idle", "lock", "expiry"},
         UNCHANGED <<target, answer, needs>>, expiring' \subseteq expiring, pending' \subseteq pending,
         breaks' = 0 => breaks = 0,
         \A a \in Actions : \/ state'[a] = state[a]
                            \/ a = Rec(c) /\ state'[a] \notin Refused \cup {"waiting"},
         c \in Confirms /\ state'[target[c]] # state[target[c]] => answer[target[c]] # "none",
         c \in Actions /\ ~needs[c] /\ pc[c] \in {"closing", "done"} => p \in {"closing", "done"},
         \A a \in Actions : a = Rec(c) /\ a \in pending' /\ breaks' = 0 => Attended(a)'
  PROVE  SettleInv'
<1>1. pc'[c] = p /\ \A d \in Calls : d # c => pc'[d] = pc[d]
  BY DEF TypeOK, Go
<1>. SUFFICES ASSUME NEW a \in Actions  PROVE SettleInv!(a)'
  BY DEF SettleInv
<1>2. SettleInv!(a)
  BY DEF SettleInv
<1>3. /\ a \in Calls
      /\ a = c => Rec(c) = a
      /\ c \in Confirms => Rec(c) = target[c]
  BY KindsOfCalls DEF Rec
<1>4. a # c => pc'[a] = pc[a]
  BY <1>1, <1>3
<1>5. /\ pc'[a] \in {"idle", "lock", "expiry"} =>
           a \notin pending' \cup expiring' /\ answer'[a] = "none"
      /\ a \in expiring' => needs'[a] /\ answer'[a] = "none"
  BY <1>1, <1>2, <1>4
<1>6. pc'[a] \in {"lock", "expiry"} => needs'[a] /\ state'[a] = "waiting"
  <2>1. SUFFICES ASSUME pc'[a] \in {"lock", "expiry"}  PROVE needs'[a] /\ state'[a] = "waiting"
    OBVIOUS
  <2>2. a # c /\ pc[a] \in {"lock", "expiry"} /\ needs[a] /\ state[a] = "waiting" /\ answer[a] = "none"
    BY <1>1, <1>2, <1>4, <2>1
  <2>3. state'[a] = state[a] \/ (c \in Confirms /\ a = target[c])
    BY <1>3, <2>2, KindsOfCalls DEF Rec
  <2>. QED  BY <2>2, <2>3
<1>7. state'[a] \in Refused => /\ answer'[a] # "yes" /\ pc'[a] # "idle"
                               /\ needs'[a] \/ pc'[a] \in {"closing", "done"}
  BY <1>1, <1>2, <1>4
<1>8. a \in pending' /\ breaks' = 0 => Attended(a)'
  <2>1. CASE a = Rec(c)
    BY <2>1
  <2>2. CASE a # Rec(c)
    <3>1. SUFFICES ASSUME a \in pending, breaks = 0  PROVE Attended(a)'
      OBVIOUS
    <3>2. Attended(a) /\ state'[a] = state[a] /\ pc'[a] = pc[a]
      BY <1>2, <1>3, <1>4, <2>2, <3>1
    <3>3. \A d \in Confirms : target[d] = a => pc'[d] = pc[d]
      BY <1>1, <1>3, <2>2, KindsOfCalls
    <3>. QED  BY <3>2, <3>3 DEF Attended
  <2>. QED  BY <2>1, <2>2
<1>. QED  BY <1>5, <1>6, <1>7, <1>8

(* A record that leaves _pending for good.                                 *)
LEMMA Closes ==
  ASSUME TypeOK, ClaimInv, SettleInv, NEW c \in Calls, NEW p, NEW s \in {"failed", "completed", "revoked"},
         Go(c, p), pc[c] \notin {"idle", "closing", "done"}, p \notin {"idle", "lock", "expiry"},
         Close(Rec(c), s), s = "revoked" => c \in Undos,
         c \in Confirms => target[c] \in Actions /\ answer[target[c]] # "none",
         UNCHANGED <<target, answer, needs, gate, breaks>>
  PROVE  SettleInv'
<1>1. \A a \in Actions : state'[a] = state[a] \/ (a = Rec(c) /\ state'[a] = s)
  BY KindsOfCalls DEF Close, SetState, TypeOK
<1>2. Rec(c) \notin pending'
  BY DEF Close
<1>3. c \in Undos => Rec(c) \notin Actions
  BY KindsOfCalls DEF Rec
<1>4. \A a \in Actions : \/ state'[a] = state[a]
                         \/ a = Rec(c) /\ state'[a] \notin Refused \cup {"waiting"}
  BY <1>1, <1>3 DEF Refused
<1>. QED  BY <1>2, <1>4, SettlesOne DEF Close, gate

(* A step that settles nothing.                                            *)
LEMMA Advances ==
  ASSUME TypeOK, ClaimInv, SettleInv, NEW c \in Calls, NEW p,
         Go(c, p), pc[c] # "idle", p \notin {"idle", "lock", "expiry"},
         UNCHANGED <<target, answer, needs, table>>, expiring' \subseteq expiring,
         breaks' = 0 => /\ breaks = 0
                        /\ c \in Actions /\ ~needs[c] /\ pc[c] \in Settling => p \in Settling
                        /\ c \in Confirms /\ pc[c] \in Answering /\ answer[target[c]] = "yes" =>
                             p \in Answering,
         c \in Actions /\ ~needs[c] /\ pc[c] \in {"closing", "done"} => p \in {"closing", "done"}
  PROVE  SettleInv'
<1>1. pc'[c] = p /\ \A d \in Calls : d # c => pc'[d] = pc[d]
  BY DEF TypeOK, Go
<1>2. ASSUME NEW a \in Actions, a = Rec(c), a \in pending', breaks' = 0  PROVE Attended(a)'
  <2>1. a \in pending /\ breaks' = 0
    BY <1>2 DEF table
  <2>2. a = Rec(c)
    BY <1>2
  <2>3. Attended(a) /\ a \in Calls
    BY <2>1, <2>2, KindsOfCalls DEF SettleInv
  <2>4. state'[a] = state[a]
    BY DEF table
  <2>5. CASE ~needs[a] /\ pc[a] \in Settling
    <3>1. a = c => p \in Settling
      BY <2>1, <2>5, KindsOfCalls
    <3>. QED  BY <1>1, <2>2, <2>3, <2>5, <3>1 DEF Attended
  <2>6. ASSUME answer[a] = "yes", NEW d \in Confirms, target[d] = a, pc[d] \in Answering
        PROVE  Attended(a)'
    <3>1. pc'[d] \in Answering
      BY <1>1, <2>1, <2>6, KindsOfCalls
    <3>. QED  BY <2>6, <3>1 DEF Attended
  <2>7. CASE state[a] = "waiting" /\ answer[a] = "none"
    BY <2>4, <2>7 DEF Attended
  <2>8. \/ state[a] = "waiting" /\ answer[a] = "none"
        \/ ~needs[a] /\ pc[a] \in Settling
        \/ answer[a] = "yes" /\ \E d \in Confirms : target[d] = a /\ pc[d] \in Answering
    BY <2>3 DEF Attended
  <2>. QED  BY <2>2, <2>5, <2>6, <2>7, <2>8
<1>. QED  BY <1>2, SettlesOne DEF table

(* What the claims say of the call that makes a step.                      *)
LEMMA WhoSteps ==
  ASSUME ClaimInv, NEW c \in Calls
  PROVE  /\ c \in Actions /\ needs[c] => pc[c] \notin Running
         /\ c \in Actions => pc[c] \notin {"decision", "confirmed"}
         /\ c \in Undos => pc[c] \in {"idle", "requested", "done"} \cup Running
         /\ c \in Confirms => pc[c] \in {"idle", "lock", "expiry", "done"} \cup Claimed
         /\ c \in Confirms /\ pc[c] # "idle" => target[c] \in Actions
         /\ c \in Confirms /\ pc[c] \in Claimed => answer[target[c]] # "none"
         /\ c \in Confirms /\ pc[c] \in Running => answer[target[c]] = "yes"
BY KindsOfCalls DEF ClaimInv, RequestInv, UndoInv, ConfirmInv

(* The body of an execution or undo.                                       *)
LEMMA BodySettles ==
  ASSUME TypeOK, ClaimInv, SettleInv, NEW c \in Calls,
         TakeSlot(c) \/ Sandbox(c) \/ Intent(c) \/ Provider(c) \/ Executed(c)
  PROVE  SettleInv'
<1>. USE DEF Settling, Answering, BeforeProvider, Running, Claimed
<1>1. ASSUME pc[c] \in {"slot", "sandbox", "executing", "provider"}, NEW ok \in BOOLEAN, Settle(c, ok),
             UNCHANGED <<target, answer, needs, gate, breaks>>
      PROVE  SettleInv'
  <2>1. Result(c, ok) \in {"failed", "completed", "revoked"} /\ (Result(c, ok) = "revoked" => c \in Undos)
    BY DEF Result
  <2>2. Go(c, "report") /\ Close(Rec(c), Result(c, ok))
    BY <1>1 DEF Settle
  <2>. QED  BY <1>1, <2>1, <2>2, WhoSteps, Closes
<1>2. CASE TakeSlot(c)
  <2>1. CASE Settle(c, FALSE)
    BY <1>1, <1>2, <2>1 DEF TakeSlot
  <2>2. CASE SetState(Rec(c), "executing") /\ UNCHANGED pending /\ Go(c, "sandbox")
    <3>1. pc'[c] = "sandbox" /\ pc[c] = "slot" /\ UNCHANGED <<target, answer, needs, gate, breaks>>
      BY <1>2, <2>2 DEF TakeSlot, Go, TypeOK
    <3>2. \A a \in Actions : \/ state'[a] = state[a]
                             \/ a = Rec(c) /\ state'[a] \notin Refused \cup {"waiting"}
      BY <2>2, KindsOfCalls DEF SetState, TypeOK, Refused
    <3>3. ASSUME NEW a \in Actions, a = Rec(c), a \in pending', breaks' = 0  PROVE Attended(a)'
      <4>1. CASE c \in Confirms
        BY <3>1, <3>3, <4>1, WhoSteps DEF Attended, Rec
      <4>2. CASE c \in Actions
        BY <3>1, <3>3, <4>2, WhoSteps, KindsOfCalls DEF Attended, Rec
      <4>3. c \notin Undos
        BY <3>3, KindsOfCalls DEF Rec
      <4>. QED  BY <4>1, <4>2, <4>3, KindsOfCalls
    <3>. QED  BY <2>2, <3>1, <3>2, <3>3, WhoSteps, SettlesOne DEF gate
  <2>. QED  BY <1>2, <2>1, <2>2 DEF TakeSlot
<1>3. CASE Sandbox(c)
  <2>1. CASE UNCHANGED table /\ Go(c, "executing")
    BY <1>3, <2>1, WhoSteps, Advances DEF Sandbox, gate
  <2>2. CASE Settle(c, FALSE)
    BY <1>1, <1>3, <2>2 DEF Sandbox
  <2>. QED  BY <1>3, <2>1, <2>2 DEF Sandbox
<1>4. CASE Intent(c)
  <2>1. CASE UNCHANGED table /\ Go(c, "provider")
    BY <1>4, <2>1, WhoSteps, Advances DEF Intent, gate
  <2>2. CASE Settle(c, FALSE)
    BY <1>1, <1>4, <2>2 DEF Intent
  <2>. QED  BY <1>4, <2>1, <2>2 DEF Intent
<1>5. CASE Provider(c)
  BY <1>1, <1>5 DEF Provider
<1>6. CASE Executed(c)
  BY <1>6, WhoSteps, Advances DEF Executed, gate
<1>. QED  BY <1>2, <1>3, <1>4, <1>5, <1>6

(* Requests, answers and what a broken call leaves.                        *)
LEMMA CallSettles ==
  ASSUME TypeOK, ClaimInv, SettleInv, NEW c \in Calls,
         \/ c \in Actions /\ (Requested(c) \/ Preview(c))
         \/ c \in Undos /\ UndoRequested(c)
         \/ Confirmed(c) \/ Closed(c) \/ Published(c) \/ PublishRefused(c) \/ Cancel(c)
  PROVE  SettleInv'
<1>. USE DEF Settling, Answering, BeforeProvider, Running, Claimed
<1>0. breaks \in Nat
  BY DEF TypeOK
<1>1. ASSUME c \in Actions, Requested(c)  PROVE SettleInv'
  <2>1. c = Rec(c) /\ c \notin Confirms
    BY <1>1, KindsOfCalls DEF Rec
  <2>2. CASE UNCHANGED table /\ Go(c, IF needs[c] THEN "preview" ELSE "announce")
    BY <1>1, <2>1, <2>2, Advances DEF Requested, gate
  <2>3. CASE Close(c, "failed") /\ Go(c, "done")
    BY <1>1, <2>1, <2>3, Closes DEF Requested
  <2>. QED  BY <1>1, <2>2, <2>3 DEF Requested
<1>2. ASSUME c \in Actions, Preview(c)  PROVE SettleInv'
  <2>1. c = Rec(c) /\ c \notin Confirms
    BY <1>2, KindsOfCalls DEF Rec
  <2>2. CASE UNCHANGED table /\ Go(c, "announce")
    BY <1>2, <2>1, <2>2, Advances DEF Preview, gate
  <2>3. CASE Close(c, "failed") /\ Go(c, "closing")
    BY <1>2, <2>1, <2>3, Closes DEF Preview
  <2>. QED  BY <1>2, <2>2, <2>3 DEF Preview
<1>3. ASSUME c \in Undos, UndoRequested(c)  PROVE SettleInv'
  BY <1>3, KindsOfCalls, Advances DEF UndoRequested, gate
<1>4. ASSUME Confirmed(c)  PROVE SettleInv'
  <2>1. c \in Confirms /\ Rec(c) = target[c] /\ target[c] \in Actions /\ answer[target[c]] # "none"
        /\ c \notin Actions
    BY <1>4, WhoSteps, KindsOfCalls DEF Confirmed, Rec
  <2>2. CASE UNCHANGED table /\ Go(c, "slot")
    BY <1>4, <2>1, <2>2, Advances DEF Confirmed, gate
  <2>3. CASE UNCHANGED table /\ Go(c, "done") /\ answer[target[c]] # "yes"
    BY <1>4, <2>1, <2>3, Advances DEF Confirmed, gate
  <2>4. CASE Close(target[c], "failed") /\ Go(c, "done")
    BY <1>4, <2>1, <2>4, Closes DEF Confirmed
  <2>. QED  BY <1>4, <2>2, <2>3, <2>4 DEF Confirmed
<1>5. ASSUME Closed(c)  PROVE SettleInv'
  BY <1>5, WhoSteps, Advances DEF Closed, Unlock
<1>6. ASSUME Published(c)  PROVE SettleInv'
  <2>1. CASE pc[c] = "announce"
    BY <1>6, <2>1, WhoSteps, Advances DEF Published, AfterPublish, gate
  <2>2. CASE pc[c] = "decision"
    BY <1>6, <2>2, WhoSteps, Advances DEF Published, AfterPublish, gate
  <2>3. CASE pc[c] = "report"
    BY <1>6, <2>3, WhoSteps, Advances DEF Published, AfterPublish, gate
  <2>. QED  BY <1>6, <2>1, <2>2, <2>3 DEF Published, Publishes
<1>7. ASSUME PublishRefused(c)  PROVE SettleInv'
  <2>1. breaks' # 0
    BY <1>0, <1>7 DEF PublishRefused, Broken
  <2>. QED  BY <1>7, <2>1, Advances DEF PublishRefused, Publishes, gate
<1>8. ASSUME Cancel(c)  PROVE SettleInv'
  <2>1. breaks' # 0
    BY <1>0, <1>8 DEF Cancel, Broken
  <2>2. expiring' \subseteq expiring
    BY <1>8 DEF Cancel, Unlock
  <2>. QED  BY <1>8, <2>1, <2>2, Advances DEF Cancel
<1>. QED  BY <1>1, <1>2, <1>3, <1>4, <1>5, <1>6, <1>7, <1>8

(* The holder of the confirmation lock.                                    *)
LEMMA LockSettles ==
  ASSUME TypeOK, ClaimInv, SettleInv, NEW c \in Calls, TakeLock(c) \/ Expired(c)
  PROVE  SettleInv'
<1>. USE DEF Settling, Answering, BeforeProvider, Refused
<1>1. /\ pc[c] \in {"lock", "expiry"} /\ UNCHANGED <<target, needs, breaks>>
      /\ \A a \in Actions : state[a] = "waiting" => needs[a] /\ answer[a] = "none"
      /\ \A a \in Actions : a \in Calls /\ a \in Records /\ SettleInv!(a)
      /\ c \in Actions => c \notin Confirms
  BY KindsOfCalls DEF TakeLock, Expired, SettleInv, ClaimInv, RequestInv
<1>2. ASSUME NEW list \in SUBSET Actions, list \in {Due, expiring}, Expire(c, list)  PROVE SettleInv'
  <2>1. PICK b \in list : /\ Close(b, "revoked") /\ expiring' = list \ {b}
                          /\ Go(c, "expiry") /\ UNCHANGED answer
    BY <1>2 DEF Expire
  <2>2. /\ pc'[c] = "expiry" /\ \A d \in Calls : d # c => pc'[d] = pc[d]
        /\ state'[b] = "revoked" /\ \A a \in Actions : a # b => state'[a] = state[a]
        /\ pending' = pending \ {b}
    BY <1>1, <2>1 DEF Go, Close, SetState, TypeOK
  <2>3. \A a \in list : needs[a] /\ answer[a] = "none" /\ pc[a] \notin {"idle", "lock", "expiry"}
    <3>1. CASE list = Due
      BY <1>1, <3>1 DEF Due, Waiting
    <3>2. CASE list = expiring
      BY <1>1, <3>2
    <3>. QED  BY <1>2, <3>1, <3>2
  <2>. SUFFICES ASSUME NEW a \in Actions  PROVE SettleInv!(a)'
    BY DEF SettleInv
  <2>4. CASE a = b
    BY <1>1, <2>1, <2>2, <2>3, <2>4
  <2>5. CASE a = c
    BY <1>1, <2>1, <2>2, <2>3, <2>5
  <2>6. CASE a # b /\ a # c
    <3>1. Attended(a) => Attended(a)'
      BY <1>1, <2>1, <2>2, <2>6, KindsOfCalls DEF Attended
    <3>. QED  BY <1>1, <2>1, <2>2, <2>3, <2>6, <3>1
  <2>. QED  BY <2>4, <2>5, <2>6
<1>3. ASSUME c \in Actions, AdmitRequest(c), UNCHANGED answer  PROVE SettleInv'
  <2>1. /\ pc'[c] \in {"closing", "requested"} /\ \A d \in Calls : d # c => pc'[d] = pc[d]
        /\ \A a \in Actions : a # c => state'[a] = state[a] /\ (a \in pending' => a \in pending)
        /\ expiring' = {}
    BY <1>1, <1>3 DEF AdmitRequest, Go, SetState, TypeOK
  <2>2. \/ pc'[c] = "closing" /\ state'[c] = "denied" /\ pending' = pending
        \/ pc'[c] = "requested" /\ state' = state /\ pending' = pending \cup {c}
    BY <1>1, <1>3 DEF AdmitRequest, Go, SetState, TypeOK
  <2>. SUFFICES ASSUME NEW a \in Actions  PROVE SettleInv!(a)'
    BY DEF SettleInv
  <2>3. CASE a = c
    BY <1>1, <1>3, <2>1, <2>2, <2>3 DEF Attended
  <2>4. CASE a # c
    <3>1. Attended(a) => Attended(a)'
      BY <1>1, <1>3, <2>1, <2>4, KindsOfCalls DEF Attended
    <3>. QED  BY <1>1, <1>3, <2>1, <2>4, <3>1
  <2>. QED  BY <2>3, <2>4
<1>4. ASSUME c \in Confirms, SettleAnswer(c)  PROVE SettleInv'
  <2>1. CASE UNCHANGED <<table, answer>> /\ Go(c, "done")
    BY <1>1, <1>4, <2>1, KindsOfCalls, Advances DEF SettleAnswer
  <2>2. ASSUME NEW b \in Waiting, b = target[c], Go(c, "decision"),
               \/ answer' = [answer EXCEPT ![b] = "no"] /\ Close(b, "denied")
               \/ /\ answer' = [answer EXCEPT ![b] = "yes"]
                  /\ SetState(b, "pending") /\ UNCHANGED pending
        PROVE  SettleInv'
    <3>1. b \in Actions /\ b \in pending /\ needs[b] /\ pc[b] \notin {"idle", "lock", "expiry"}
      BY <1>1, <2>2 DEF Waiting, TypeOK
    <3>2. /\ pc'[c] = "decision" /\ (\A d \in Calls : d # c => pc'[d] = pc[d]) /\ expiring' = {}
          /\ \A a \in Actions : a # b => state'[a] = state[a] /\ answer'[a] = answer[a]
          /\ \/ state'[b] = "denied" /\ answer'[b] = "no" /\ pending' = pending \ {b}
             \/ state'[b] = "pending" /\ answer'[b] = "yes" /\ pending' = pending
      BY <1>1, <1>4, <2>2, <3>1 DEF SettleAnswer, Go, Close, SetState, TypeOK
    <3>. SUFFICES ASSUME NEW a \in Actions  PROVE SettleInv!(a)'
      BY DEF SettleInv
    <3>3. CASE a = b
      BY <1>1, <1>4, <2>2, <3>1, <3>2, <3>3, KindsOfCalls DEF Attended
    <3>4. CASE a # b
      <4>1. pc'[a] = pc[a]
        BY <1>4, <3>2, KindsOfCalls
      <4>2. Attended(a) => Attended(a)'
        BY <1>1, <3>2, <3>4, <4>1, KindsOfCalls DEF Attended
      <4>. QED  BY <1>1, <3>2, <3>4, <4>1, <4>2
    <3>. QED  BY <3>3, <3>4
  <2>. QED  BY <1>4, <2>1, <2>2 DEF SettleAnswer
<1>5. Due \in SUBSET Actions /\ expiring \in SUBSET Actions
  BY DEF Due, Waiting, TypeOK
<1>. QED  BY <1>2, <1>3, <1>4, <1>5 DEF TakeLock, Expired, Decide

(* A call begins, or time passes.                                          *)
LEMMA StartSettles ==
  ASSUME TypeOK, ClaimInv, SettleInv,
         \/ \E a \in Actions : Request(a) \/ TimePasses(a)
         \/ \E c \in Confirms : Confirm(c)
         \/ \E u \in Undos : Undo(u)
  PROVE  SettleInv'
<1>. USE DEF Settling, Answering, BeforeProvider, Refused
<1>0. \A a \in Actions : SettleInv!(a)
  BY DEF SettleInv
<1>1. ASSUME NEW b \in Actions, Request(b)  PROVE SettleInv'
  <2>1. /\ pc[b] = "idle" /\ (\A d \in Calls : d # b => pc'[d] = pc[d])
        /\ \A a \in Actions : a # b => state'[a] = state[a] /\ needs'[a] = needs[a]
        /\ UNCHANGED <<target, answer, breaks, expiring>>
        /\ ~needs[b]
    BY <1>1, KindsOfCalls DEF Request, Go, SetState, TypeOK, gate, ClaimInv, RequestInv
  <2>2. \/ pc'[b] = "closing" /\ state'[b] \in {"denied", "failed"} /\ pending' = pending
        \/ pc'[b] = "lock" /\ state'[b] = "waiting" /\ needs'[b] /\ pending' = pending
        \/ pc'[b] = "requested" /\ state'[b] = "pending" /\ ~needs'[b] /\ pending' = pending \cup {b}
    BY <1>1, KindsOfCalls DEF Request, Go, SetState, TypeOK
  <2>. SUFFICES ASSUME NEW a \in Actions  PROVE SettleInv!(a)'
    BY DEF SettleInv
  <2>3. CASE a = b
    BY <1>0, <2>1, <2>2, <2>3 DEF Attended
  <2>4. CASE a # b
    <3>1. pc'[a] = pc[a] /\ (a \in pending' => a \in pending)
      BY <2>1, <2>2, <2>4, KindsOfCalls
    <3>2. Attended(a) => Attended(a)'
      BY <2>1, <2>4, <3>1, KindsOfCalls DEF Attended
    <3>. QED  BY <1>0, <2>1, <2>4, <3>1, <3>2
  <2>. QED  BY <2>3, <2>4
<1>2. ASSUME NEW c \in Confirms, Confirm(c)  PROVE SettleInv'
  <2>1. /\ pc[c] = "idle" /\ (\A d \in Calls : d # c => pc'[d] = pc[d])
        /\ \A d \in Confirms : d # c => target'[d] = target[d]
        /\ UNCHANGED <<answer, needs, state, pending, expiring, breaks>>
    BY <1>2, KindsOfCalls DEF Confirm, Go, TypeOK, gate, table
  <2>2. \A a \in Actions : pc'[a] = pc[a] /\ (Attended(a) => Attended(a)')
    BY <1>2, <2>1, KindsOfCalls DEF Attended
  <2>. QED  BY <1>0, <2>1, <2>2 DEF SettleInv
<1>3. ASSUME NEW u \in Undos, Undo(u)  PROVE SettleInv'
  <2>1. /\ (\A d \in Calls : d # u => pc'[d] = pc[d])
        /\ \A d \in Confirms : target'[d] = target[d]
        /\ \A a \in Actions : state'[a] = state[a]
        /\ UNCHANGED <<answer, needs, pending, expiring, breaks>>
    BY <1>3, KindsOfCalls DEF Undo, Go, SetState, TypeOK, gate
  <2>2. \A a \in Actions : pc'[a] = pc[a] /\ (Attended(a) => Attended(a)')
    BY <1>3, <2>1, KindsOfCalls DEF Attended
  <2>. QED  BY <1>0, <2>1, <2>2 DEF SettleInv
<1>4. ASSUME NEW a \in Actions, TimePasses(a)  PROVE SettleInv'
  BY <1>4 DEF TimePasses, SettleInv, Attended, table, gate
<1>. QED  BY <1>1, <1>2, <1>3, <1>4

LEMMA NextSettles == TypeOK /\ ClaimInv /\ SettleInv /\ [Next]_vars => SettleInv'
<1>. SUFFICES ASSUME TypeOK, ClaimInv, SettleInv, [Next]_vars  PROVE SettleInv'
  OBVIOUS
<1>1. CASE UNCHANGED vars
  BY <1>1 DEF vars, table, gate, SettleInv, Attended
<1>2. ASSUME NEW c \in Calls, Step(c) \/ Cancel(c)  PROVE SettleInv'
  BY <1>2, BodySettles, CallSettles, LockSettles DEF Step
<1>3. CASE Next
  BY <1>2, <1>3, StartSettles DEF Next
<1>. QED  BY <1>1, <1>3

(* Every action in _pending is waited for or attended: the inductive       *)
(* invariant behind the two theorems that follow.                          *)
THEOREM SettleInvariant == Spec => []SettleInv
<1>1. Init => SettleInv
  BY KindsOfCalls DEF Init, SettleInv, Refused
<1>. QED  BY <1>1, NextSettles, TypeCorrect, ClaimInvariant, PTL DEF Spec

(* Only a refused publish or a cancelled call can leave a claimed action   *)
(* in _pending without a call that settles it: failed audits, timeouts,    *)
(* quarantines and expiry in whatever order cannot (_pending in            *)
(* services/action_service.py).                                            *)
THEOREM NothingIsStranded == Spec => []NothingStranded
<1>1. ASSUME TypeOK, SettleInv  PROVE NothingStranded
  <2>. SUFFICES ASSUME NEW a \in pending, state[a] # "waiting", breaks = 0
       PROVE  \E c \in Calls : WorksOn(c, a)
    BY DEF NothingStranded
  <2>1. a \in Actions /\ Attended(a)
    BY <1>1 DEF TypeOK, SettleInv
  <2>2. CASE ~needs[a] /\ pc[a] \in Settling
    <3>1. a \in Calls /\ WorksOn(a, a)
      BY <2>1, <2>2, KindsOfCalls DEF WorksOn, Rec, Settling, BeforeProvider
    <3>. QED  BY <3>1
  <2>3. ASSUME NEW c \in Confirms, target[c] = a, pc[c] \in Answering
        PROVE  \E d \in Calls : WorksOn(d, a)
    <3>1. c \in Calls /\ WorksOn(c, a)
      BY <2>3, KindsOfCalls DEF WorksOn, Rec, Answering, BeforeProvider
    <3>. QED  BY <3>1
  <2>. QED  BY <2>1, <2>2, <2>3 DEF Attended
<1>. QED  BY <1>1, TypeCorrect, SettleInvariant, PTL

(* A step that changes the record of a call which is not a refused one, or *)
(* changes it to what a refusal may become.                                *)
LEMMA RefusedStays ==
  ASSUME TypeOK, ClaimInv, SettleInv, Next
  PROVE  \A a \in Actions : state[a] \in Refused =>
           state'[a] \notin {"pending", "waiting", "executing", "completed"}
<1>. SUFFICES ASSUME NEW a \in Actions, state[a] \in Refused
     PROVE  state'[a] \notin {"pending", "waiting", "executing", "completed"}
  OBVIOUS
<1>. DEFINE Live == {"pending", "waiting", "executing", "completed"}
<1>1. /\ state[a] \in {"denied", "revoked"} /\ a \in Records
      /\ answer[a] # "yes" /\ pc[a] # "idle"
      /\ needs[a] \/ pc[a] \in {"closing", "done"}
  BY KindsOfCalls DEF SettleInv, Refused
<1>2. state' = state => state'[a] \notin Live
  BY <1>1
<1>3. \A r, s : SetState(r, s) /\ r # a => state'[a] = state[a]
  BY DEF SetState, TypeOK
<1>4. \A r, s : SetState(r, s) /\ s \notin Live => state'[a] \notin Live
  BY <1>1 DEF SetState, TypeOK
<1>5. ASSUME NEW c \in Calls, pc[c] \in Running  PROVE Rec(c) # a
  <2>1. CASE c \in Actions
    BY <1>1, <1>5, <2>1, WhoSteps, KindsOfCalls DEF Rec, Running
  <2>2. CASE c \in Undos
    BY <2>2, KindsOfCalls DEF Rec
  <2>3. CASE c \in Confirms
    BY <1>1, <1>5, <2>3, WhoSteps DEF Rec
  <2>. QED  BY <2>1, <2>2, <2>3, KindsOfCalls
<1>6. ASSUME NEW c \in Calls, TakeSlot(c) \/ Sandbox(c) \/ Intent(c) \/ Provider(c)
      PROVE  state'[a] \notin Live
  <2>1. Rec(c) # a
    BY <1>5, <1>6 DEF TakeSlot, Sandbox, Intent, Provider, Running
  <2>2. \/ state' = state
        \/ \E s : SetState(Rec(c), s)
    BY <1>6 DEF TakeSlot, Sandbox, Intent, Provider, Settle, Close, table
  <2>. QED  BY <1>2, <1>3, <1>1, <2>1, <2>2
<1>7. ASSUME NEW c \in Calls,
             \/ c \in Actions /\ (Requested(c) \/ Preview(c))
             \/ Confirmed(c)
      PROVE  state'[a] \notin Live
  BY <1>2, <1>4, <1>7 DEF Requested, Preview, Confirmed, Close, table
<1>8. ASSUME NEW c \in Calls, TakeLock(c) \/ Expired(c)  PROVE state'[a] \notin Live
  <2>1. ASSUME NEW list, Expire(c, list)  PROVE state'[a] \notin Live
    BY <1>4, <2>1 DEF Expire, Close
  <2>2. ASSUME AdmitRequest(c)  PROVE state'[a] \notin Live
    BY <1>2, <1>4, <2>2 DEF AdmitRequest
  <2>3. ASSUME SettleAnswer(c)  PROVE state'[a] \notin Live
    <3>1. CASE UNCHANGED <<table, answer>>
      BY <1>2, <3>1 DEF table
    <3>2. CASE target[c] \in Waiting
      <4>1. target[c] # a
        BY <1>1, <3>2 DEF Waiting
      <4>2. \E s : SetState(target[c], s)
        BY <2>3, <3>2 DEF SettleAnswer, Close
      <4>. QED  BY <1>1, <1>3, <4>1, <4>2
    <3>. QED  BY <2>3, <3>1, <3>2 DEF SettleAnswer
  <2>. QED  BY <1>8, <2>1, <2>2, <2>3 DEF TakeLock, Expired, Decide
<1>9. ASSUME NEW b \in Actions, Request(b)  PROVE state'[a] \notin Live
  <2>1. b # a /\ \E s : SetState(b, s)
    BY <1>1, <1>9 DEF Request
  <2>. QED  BY <1>1, <1>3, <2>1
<1>10. ASSUME NEW u \in Undos, Undo(u)  PROVE state'[a] \notin Live
  <2>1. u # a /\ \E s : SetState(u, s)
    BY <1>10, KindsOfCalls DEF Undo
  <2>. QED  BY <1>1, <1>3, <2>1
<1>11. ASSUME UNCHANGED table  PROVE state'[a] \notin Live
  BY <1>2, <1>11 DEF table
<1>12. ASSUME NEW c \in Calls, Step(c) \/ Cancel(c)  PROVE state'[a] \notin Live
  BY <1>6, <1>7, <1>8, <1>11, <1>12
     DEF Step, Cancel, UndoRequested, Closed, Executed, Published, PublishRefused
<1>13. ASSUME NEW c \in Confirms, Confirm(c)  PROVE state'[a] \notin Live
  BY <1>11, <1>13 DEF Confirm
<1>14. ASSUME NEW b \in Actions, TimePasses(b)  PROVE state'[a] \notin Live
  BY <1>11, <1>14 DEF TimePasses
<1>. QED  BY <1>9, <1>10, <1>12, <1>13, <1>14 DEF Next

(* An action that was denied or that expired is never executed afterwards: *)
(* no late answer, no second confirm() and no request still on its way     *)
(* brings it back (confirm, _expire_stale_confirmations).                  *)
THEOREM RefusalIsFinal == Spec => DeniedNeverRuns
<1>1. TypeOK /\ ClaimInv /\ SettleInv /\ [Next]_vars =>
        [\A a \in Actions : state[a] \in {"denied", "revoked"} =>
           state'[a] \notin {"pending", "waiting", "executing", "completed"}]_vars
  BY RefusedStays DEF Refused
<1>. QED  BY <1>1, TypeCorrect, ClaimInvariant, SettleInvariant, PTL DEF Spec, DeniedNeverRuns
-----------------------------------------------------------------------------
(* The service implements what it promises the user                        *)

(* A phase depends on these parts of the state alone.                      *)
LEMMA PhaseIsLocal ==
  ASSUME NEW a \in Actions,
         UNCHANGED <<pc[a], needs[a], answer[a], entered[a]>>,
         "confirmed" \in trail'[a] <=> "confirmed" \in trail[a],
         a \in pending' <=> a \in pending
  PROVE  Phase(a)' = Phase(a)
BY DEF Phase, UserPhase, PolicyPhase

LEMMA PhaseUpdates ==
  ASSUME NEW a \in Actions, \A b \in Actions : b # a => Phase(b)' = Phase(b), NEW to, Phase(a)' = to
  PROVE  [b \in Actions |-> Phase(b)]' = [[b \in Actions |-> Phase(b)] EXCEPT ![a] = to]
OBVIOUS

LEMMA KeptIsPromised ==
  ASSUME \A a \in Actions : Phase(a)' = Phase(a) /\ entered'[a] = entered[a],
         UNCHANGED needs
  PROVE  UNCHANGED Promise!vars
BY DEF Promise!vars

(* What a call under way may do to the phase of an action.                 *)
MovesOn(a) ==
  \/ Phase(a)' = Phase(a)
  \/ Phase(a) = "open" /\ Phase(a)' \in {"approved", "closed"}
  \/ Phase(a) = "approved" /\ Phase(a)' = "recorded"
  \/ ~needs[a] /\ entered[a] = 0 /\ Phase(a) \in {"approved", "recorded"} /\ Phase(a)' = "closed"

LEMMA MovesOnIsPromised ==
  ASSUME NEW a \in Actions, MovesOn(a), \A b \in Actions : b # a => Phase(b)' = Phase(b),
         UNCHANGED <<needs, entered>>
  PROVE  [Promise!Next]_(Promise!vars)
<1>1. CASE Phase(a)' = Phase(a)
  <2>1. \A b \in Actions : Phase(b)' = Phase(b)
    BY <1>1
  <2>. QED  BY <2>1, KeptIsPromised
<1>2. CASE Phase(a)' # Phase(a)
  <2>1. /\ Promise!Become(a, Phase(a), Phase(a)')
        /\ UNCHANGED {b \in Actions : needs[b]}
    BY PhaseUpdates DEF Promise!Become
  <2>2. Promise!Step(a)
    BY <1>2, <2>1 DEF MovesOn, Promise!Step, Promise!Approve, Promise!Record, Promise!Close
  <2>. QED  BY <2>2 DEF Promise!Next
<1>. QED  BY <1>1, <1>2

(* The parts of the state that a step of a call under way may change.      *)
LEMMA StepsWrite ==
  ASSUME NEW c \in Calls, Step(c) \/ Cancel(c)
  PROVE  UNCHANGED needs /\ (UNCHANGED trail \/ Written(c))
<1>. USE DEF AuditOk, AuditRefused, AuditEnds, audit
<1>1. CASE Requested(c) \/ Preview(c) \/ UndoRequested(c) \/ TakeLock(c) \/ Expired(c) \/ Confirmed(c)
  BY <1>1 DEF Requested, Preview, UndoRequested, TakeLock, Expired, Confirmed
<1>2. CASE Closed(c) \/ TakeSlot(c) \/ Sandbox(c) \/ Intent(c) \/ Provider(c) \/ Executed(c)
  BY <1>2 DEF Closed, TakeSlot, Sandbox, Intent, Provider, Executed
<1>3. CASE Published(c) \/ PublishRefused(c) \/ Cancel(c)
  BY <1>3 DEF Published, PublishRefused, Cancel
<1>. QED  BY <1>1, <1>2, <1>3 DEF Step

LEMMA OnlyAsked ==
  ASSUME TypeOK, NEW c \in Calls, Step(c) \/ Cancel(c), NEW a \in Actions, pc'[a] = "preview"
  PROVE  pc[a] = "preview" \/ needs[a]
<1>1. ASSUME NEW p, Go(c, p), p # "preview" \/ needs[c]  PROVE pc[a] = "preview" \/ needs[a]
  BY <1>1, KindsOfCalls DEF Go, TypeOK
<1>2. CASE Requested(c) \/ Preview(c) \/ UndoRequested(c) \/ Confirmed(c)
  BY <1>1, <1>2 DEF Requested, Preview, UndoRequested, Confirmed
<1>3. CASE TakeLock(c) \/ Expired(c)
  BY <1>1, <1>3 DEF TakeLock, Expired, Expire, Decide, AdmitRequest, SettleAnswer
<1>4. CASE Closed(c) \/ TakeSlot(c) \/ Sandbox(c) \/ Intent(c) \/ Provider(c) \/ Executed(c)
  BY <1>1, <1>4 DEF Closed, TakeSlot, Sandbox, Intent, Provider, Executed, Settle
<1>5. CASE Published(c) \/ PublishRefused(c) \/ Cancel(c)
  BY <1>1, <1>5 DEF Published, AfterPublish, Publishes, PublishRefused, Cancel
<1>. QED  BY <1>2, <1>3, <1>4, <1>5 DEF Step

LEMMA NextKeepsAsked == TypeOK /\ ClaimInv /\ AskInv /\ [Next]_vars => AskInv'
<1>. SUFFICES ASSUME TypeOK, ClaimInv, AskInv, [Next]_vars  PROVE AskInv'
  OBVIOUS
<1>1. ASSUME NEW c \in Calls, Step(c) \/ Cancel(c), Next  PROVE AskInv'
  <2>. SUFFICES ASSUME NEW a \in Actions  PROVE AskInv!(a)'
    BY DEF AskInv
  <2>1. AskInv!(a)
    BY DEF AskInv
  <2>2. pc'[a] = "preview" => needs'[a]
    BY <1>1, <2>1, StepsWrite, OnlyAsked
  <2>3. "confirmed" \in trail'[a] => "confirmed" \in trail[a] \/ answer[a] # "none"
    <3>1. pc[c] = "confirmed" /\ Rec(c) = a => answer[a] # "none"
      BY WhoSteps, KindsOfCalls DEF Rec, Running, Claimed
    <3>2. Written(c) /\ "confirmed" \in trail'[a] =>
            "confirmed" \in trail[a] \/ (pc[c] = "confirmed" /\ Rec(c) = a)
      BY KindsOfCalls DEF Written, TypeOK
    <3>. QED  BY <1>1, <3>1, <3>2, StepsWrite
  <2>4. answer[a] # "none" => answer'[a] # "none"
    BY <1>1, AnswersStay
  <2>. QED  BY <2>1, <2>2, <2>3, <2>4
<1>2. ASSUME NEW a \in Actions, Request(a)  PROVE AskInv'
  <2>1. /\ \A b \in Actions : pc'[b] # "preview" \/ (pc'[b] = pc[b] /\ needs'[b] = needs[b])
        /\ UNCHANGED <<answer, trail>>
    BY <1>2, KindsOfCalls DEF Request, Go, TypeOK, audit
  <2>. QED  BY <2>1 DEF AskInv
<1>3. ASSUME NEW c \in Confirms \cup Undos, Confirm(c) \/ Undo(c)  PROVE AskInv'
  <2>1. (\A b \in Actions : pc'[b] = pc[b]) /\ UNCHANGED <<needs, answer, trail>>
    BY <1>3, KindsOfCalls DEF Confirm, Undo, Go, TypeOK, audit
  <2>. QED  BY <2>1 DEF AskInv
<1>4. CASE UNCHANGED vars \/ \E a \in Actions : TimePasses(a)
  BY <1>4 DEF TimePasses, vars, audit, AskInv
<1>. QED  BY <1>1, <1>2, <1>3, <1>4 DEF Next

(* An undo is nothing to the promise: it works on a record of its own.     *)
LEMMA UndosAreSilent ==
  ASSUME TypeOK, ClaimInv, NEW u \in Undos, Step(u) \/ Cancel(u) \/ Undo(u)
  PROVE  UNCHANGED Promise!vars
<1>. USE DEF Close, table, audit
<1>1. pc[u] \in {"idle", "requested", "done"} \cup Running /\ Rec(u) = u /\ u \in Calls
  BY WhoSteps, KindsOfCalls DEF Rec
<1>2. ASSUME NEW p, Go(u, p)  PROVE \A a \in Actions : pc'[a] = pc[a]
  BY <1>2, KindsOfCalls DEF Go, TypeOK
<1>3. /\ \A a \in Actions : pc'[a] = pc[a]
      /\ UNCHANGED <<needs, answer>>
      /\ UNCHANGED pending \/ pending' = pending \ {u}
      /\ UNCHANGED entered \/ entered' = [entered EXCEPT ![u] = @ + 1]
  <2>1. CASE UndoRequested(u) \/ TakeSlot(u) \/ Sandbox(u) \/ Intent(u) \/ Provider(u) \/ Executed(u)
    BY <1>1, <1>2, <2>1 DEF UndoRequested, TakeSlot, Sandbox, Intent, Provider, Executed, Settle
  <2>2. CASE Published(u) \/ PublishRefused(u) \/ Cancel(u) \/ Undo(u)
    BY <1>1, <1>2, <2>2 DEF Published, PublishRefused, Cancel, Undo
  <2>3. CASE TakeLock(u) \/ Expired(u) \/ Confirmed(u) \/ Closed(u)
    BY <1>1, <2>3 DEF TakeLock, Expired, Confirmed, Closed, Running
  <2>. QED  BY <2>1, <2>2, <2>3, KindsOfCalls DEF Step
<1>4. \A a \in Actions : trail'[a] = trail[a]
  <2>1. UNCHANGED trail \/ Written(u)
    BY <1>1, StepsWrite DEF Undo
  <2>. QED  BY <1>1, <2>1, KindsOfCalls DEF Written, TypeOK
<1>5. \A a \in Actions : entered'[a] = entered[a] /\ (a \in pending' <=> a \in pending)
  BY <1>3, KindsOfCalls DEF TypeOK
<1>6. \A a \in Actions : Phase(a)' = Phase(a)
  BY <1>3, <1>4, <1>5, PhaseIsLocal
<1>. QED  BY <1>3, <1>5, <1>6, KeptIsPromised

(* A request or a confirmation that neither takes the lock nor calls the   *)
(* provider.                                                               *)
LEMMA CallMovesOn ==
  ASSUME TypeOK, ClaimInv, SettleInv, NEW c \in Actions \cup Confirms, NEW p,
         Go(c, p), pc[c] # "idle", UNCHANGED <<needs, answer, entered>>,
         UNCHANGED trail \/ Written(c), UNCHANGED pending \/ pending' = pending \ {Rec(c)},
         c \in Confirms /\ (pending' # pending \/ trail' # trail) => pc[c] \in Claimed,
         c \in Actions => p \notin {"idle", "lock", "expiry"},
         c \in Actions /\ ~needs[c] =>
           \/ p \notin {"requested", "announce"} \cup BeforeProvider
           \/ pc[c] = "requested" /\ p = "announce"
           \/ pc[c] \in {"announce"} \cup BeforeProvider /\ p \in BeforeProvider
  PROVE  [Promise!Next]_(Promise!vars)
<1>1. /\ c \in Calls /\ pc'[c] = p
      /\ \A a \in Actions : a # c => pc'[a] = pc[a]
  BY KindsOfCalls DEF Go, TypeOK
<1>2. \A a \in Actions : a # Rec(c) => trail'[a] = trail[a] /\ (a \in pending' <=> a \in pending)
  BY KindsOfCalls DEF Written, TypeOK
<1>3. c \in Actions => Rec(c) = c
  BY KindsOfCalls DEF Rec
<1>4. \A a \in Actions : a # Rec(c) => Phase(a)' = Phase(a)
  BY <1>1, <1>2, <1>3, PhaseIsLocal
<1>5. CASE c \in Actions
  <2>1. "confirmed" \in trail'[c] <=> "confirmed" \in trail[c]
    BY <1>1, <1>3, <1>5, WhoSteps, KindsOfCalls DEF Written, TypeOK
  <2>2. /\ pc[c] \in {"lock", "expiry"} => answer[c] = "none" /\ c \notin pending
        /\ c \in pending' => c \in pending
    BY <1>5 DEF SettleInv
  <2>3. ASSUME needs[c]  PROVE MovesOn(c)
    BY <1>1, <1>5, <2>1, <2>2, <2>3 DEF MovesOn, Phase, UserPhase, TypeOK
  <2>4. ASSUME ~needs[c]  PROVE MovesOn(c)
    <3>1. pc[c] \in {"requested", "announce"} \cup BeforeProvider => entered[c] = 0
      BY <1>5, <2>4 DEF ClaimInv, RequestInv
    <3>2. entered[c] \in Nat /\ pc[c] \notin {"lock", "expiry"}
      BY <1>5, <2>4, KindsOfCalls DEF TypeOK, SettleInv
    <3>. QED  BY <1>1, <1>5, <2>4, <3>1, <3>2 DEF MovesOn, Phase, PolicyPhase, BeforeProvider
  <2>. QED  BY <1>3, <1>4, <1>5, <2>3, <2>4, MovesOnIsPromised
<1>6. CASE c \in Confirms
  <2>1. c \notin Actions /\ target[c] \in Actions /\ Rec(c) = target[c]
    BY <1>1, <1>6, WhoSteps, KindsOfCalls DEF Rec
  <2>2. PICK a \in Actions : a = target[c]
    BY <2>1
  <2>3. pc'[a] = pc[a]
    BY <1>1, <2>1
  <2>4. ASSUME pc[c] \notin Claimed  PROVE MovesOn(a)
    <3>1. Phase(a)' = Phase(a)
      BY <1>6, <2>3, <2>4, PhaseIsLocal
    <3>. QED  BY <3>1 DEF MovesOn
  <2>5. ASSUME pc[c] \in Claimed  PROVE MovesOn(a)
    <3>1. answer[a] # "none" /\ needs[a] /\ pc[a] # "idle"
      BY <1>1, <1>6, <2>2, <2>5, WhoSteps DEF ClaimInv, RequestInv
    <3>2. "confirmed" \in trail[a] => "confirmed" \in trail'[a]
      BY <1>1, <2>1, <2>2, KindsOfCalls DEF Written, TypeOK
    <3>3. \/ answer[a] = "yes" /\ answer'[a] = "yes"
          \/ answer[a] = "no" /\ answer'[a] = "no"
      BY <3>1 DEF TypeOK
    <3>. QED  BY <2>3, <3>1, <3>2, <3>3 DEF MovesOn, Phase, UserPhase
  <2>. QED  BY <1>4, <2>1, <2>2, <2>4, <2>5, MovesOnIsPromised
<1>. QED  BY <1>5, <1>6

LEMMA StepMovesOn ==
  ASSUME TypeOK, ClaimInv, SettleInv, AskInv, NEW c \in Actions \cup Confirms,
         Step(c) \/ Cancel(c), ~TakeLock(c), ~Expired(c), ~Intent(c)
  PROVE  [Promise!Next]_(Promise!vars)
<1>. USE DEF Close, table, audit, Running, Claimed, BeforeProvider
<1>1. c \in Calls /\ (UNCHANGED trail \/ Written(c))
  BY KindsOfCalls, StepsWrite
<1>2. /\ c \in Actions => c \notin Confirms /\ Rec(c) = c
      /\ c \in Confirms => c \notin Actions /\ c \notin Undos
  BY KindsOfCalls DEF Rec
<1>3. CASE c \in Actions /\ Requested(c)
  BY <1>1, <1>2, <1>3, CallMovesOn DEF Requested
<1>4. CASE c \in Actions /\ Preview(c)
  BY <1>1, <1>2, <1>4, CallMovesOn DEF Preview, AskInv
<1>5. CASE Confirmed(c)
  BY <1>1, <1>2, <1>5, WhoSteps, CallMovesOn DEF Confirmed, Rec
<1>6. CASE Closed(c)
  BY <1>1, <1>2, <1>6, WhoSteps, CallMovesOn DEF Closed, AuditEnds
<1>7. CASE TakeSlot(c)
  BY <1>1, <1>2, <1>7, WhoSteps, CallMovesOn DEF TakeSlot, Settle
<1>8. CASE Sandbox(c)
  BY <1>1, <1>2, <1>8, WhoSteps, CallMovesOn DEF Sandbox, Settle
<1>9. CASE Provider(c)
  BY <1>1, <1>2, <1>9, WhoSteps, CallMovesOn DEF Provider, Settle
<1>10. CASE Executed(c)
  BY <1>1, <1>2, <1>10, WhoSteps, CallMovesOn DEF Executed
<1>11. CASE Published(c)
  <2>1. CASE pc[c] = "announce"
    BY <1>1, <1>2, <1>11, <2>1, WhoSteps, CallMovesOn DEF Published, AfterPublish
  <2>2. CASE pc[c] = "decision"
    BY <1>1, <1>2, <1>11, <2>2, WhoSteps, CallMovesOn DEF Published, AfterPublish
  <2>3. CASE pc[c] = "report"
    BY <1>1, <1>2, <1>11, <2>3, WhoSteps, CallMovesOn DEF Published, AfterPublish
  <2>. QED  BY <1>11, <2>1, <2>2, <2>3 DEF Published, Publishes
<1>12. CASE PublishRefused(c)
  BY <1>1, <1>2, <1>12, CallMovesOn DEF PublishRefused, Publishes
<1>13. CASE Cancel(c)
  <2>1. c \in Confirms /\ trail' # trail => pc[c] \in Claimed
    BY <1>1, <1>13, WhoSteps DEF Cancel, Stages
  <2>. QED  BY <1>1, <1>2, <1>13, <2>1, CallMovesOn DEF Cancel
<1>. QED  BY <1>2, <1>3, <1>4, <1>5, <1>6, <1>7, <1>8, <1>9, <1>10, <1>11, <1>12, <1>13,
             KindsOfCalls DEF Step

(* The holder of the lock closes what it expires, and opens or closes what *)
(* it decides.                                                             *)
LEMMA LockMovesOn ==
  ASSUME TypeOK, ClaimInv, SettleInv, AskInv, NEW c \in Actions \cup Confirms, TakeLock(c) \/ Expired(c)
  PROVE  [Promise!Next]_(Promise!vars)
<1>1. /\ c \in Calls /\ pc[c] \in {"lock", "expiry"} /\ UNCHANGED <<needs, entered, trail>>
      /\ Expire(c, Due) \/ Expire(c, expiring) \/ Decide(c)
  BY KindsOfCalls DEF TakeLock, Expired, AuditEnds, audit
<1>2. ASSUME NEW p, Go(c, p)
      PROVE  (c \in Actions => pc'[c] = p) /\ \A b \in Actions : b # c => pc'[b] = pc[b]
  BY <1>1, <1>2, KindsOfCalls DEF Go, TypeOK
<1>3. c \in Actions => needs[c] /\ answer[c] = "none" /\ c \notin pending \cup expiring
  BY <1>1 DEF SettleInv
<1>4. ASSUME NEW a \in Actions, a \in pending \cup expiring
      PROVE  pc[a] \notin {"idle", "lock", "expiry"}
  BY <1>4 DEF SettleInv
<1>5. \A a \in Waiting : a \in Actions /\ a \in pending /\ needs[a] /\ answer[a] = "none"
  BY DEF Waiting, TypeOK, ClaimInv, RequestInv
<1>6. ASSUME NEW a \in Due \cup expiring, Close(a, "revoked"), Go(c, "expiry"), UNCHANGED answer
      PROVE  [Promise!Next]_(Promise!vars)
  <2>1. a \in Actions /\ needs[a] /\ answer[a] = "none" /\ pc[a] \notin {"idle", "lock", "expiry"}
    BY <1>4, <1>5, <1>6 DEF Due, TypeOK, SettleInv
  <2>2. a # c /\ pc'[a] = pc[a] /\ pending' = pending \ {a}
    BY <1>1, <1>2, <1>6, <2>1 DEF Close
  <2>3. MovesOn(a)
    BY <1>1, <1>6, <2>1, <2>2 DEF MovesOn, Phase, UserPhase
  <2>4. ASSUME NEW b \in Actions, b # a, b # c  PROVE Phase(b)' = Phase(b)
    BY <1>1, <1>2, <1>6, <2>2, <2>4, PhaseIsLocal
  <2>5. c \in Actions => Phase(c)' = Phase(c)
    BY <1>1, <1>2, <1>3, <1>6, <2>2 DEF Phase, UserPhase
  <2>. QED  BY <1>1, <2>1, <2>3, <2>4, <2>5, MovesOnIsPromised
<1>7. ASSUME c \in Actions, AdmitRequest(c), UNCHANGED answer
      PROVE  [Promise!Next]_(Promise!vars)
  <2>1. \/ pc'[c] = "closing" /\ pending' = pending
        \/ pc'[c] = "requested" /\ pending' = pending \cup {c}
    BY <1>2, <1>7 DEF AdmitRequest
  <2>2. MovesOn(c)
    BY <1>1, <1>3, <1>7, <2>1 DEF MovesOn, Phase, UserPhase
  <2>3. \A b \in Actions : b # c => pc'[b] = pc[b]
    BY <1>2, <1>7 DEF AdmitRequest
  <2>4. \A b \in Actions : b # c => Phase(b)' = Phase(b)
    BY <1>1, <1>7, <2>1, <2>3, PhaseIsLocal
  <2>. QED  BY <1>1, <1>7, <2>2, <2>4, MovesOnIsPromised
<1>8. ASSUME c \in Confirms, SettleAnswer(c)
      PROVE  [Promise!Next]_(Promise!vars)
  <2>1. c \notin Actions /\ \A b \in Actions : pc'[b] = pc[b]
    BY <1>2, <1>8, KindsOfCalls DEF SettleAnswer
  <2>2. CASE target[c] \notin Waiting
    <3>1. UNCHANGED <<pending, answer>>
      BY <1>8, <2>2 DEF SettleAnswer, table
    <3>2. \A b \in Actions : Phase(b)' = Phase(b)
      BY <1>1, <2>1, <3>1, PhaseIsLocal
    <3>. QED  BY <1>1, <3>2, KeptIsPromised
  <2>3. CASE target[c] \in Waiting
    <3>1. PICK a \in Actions : a = target[c]
      BY <1>5, <2>3
    <3>2. /\ a \in pending /\ needs[a] /\ answer[a] = "none" /\ pc[a] # "idle"
          /\ "confirmed" \notin trail[a]
      BY <1>4, <1>5, <2>3, <3>1 DEF AskInv
    <3>3. /\ \A b \in Actions : b # a => answer'[b] = answer[b] /\ (b \in pending' <=> b \in pending)
          /\ answer'[a] \in {"yes", "no"}
      BY <1>8, <2>3, <3>1 DEF SettleAnswer, Close, TypeOK
    <3>4. MovesOn(a)
      BY <1>1, <2>1, <3>2, <3>3 DEF MovesOn, Phase, UserPhase
    <3>5. \A b \in Actions : b # a => Phase(b)' = Phase(b)
      BY <1>1, <2>1, <3>3, PhaseIsLocal
    <3>. QED  BY <1>1, <3>4, <3>5, MovesOnIsPromised
  <2>. QED  BY <2>2, <2>3
<1>. QED  BY <1>1, <1>6, <1>7, <1>8 DEF Expire, Decide

(* The provider is called for what is recorded, and once.                  *)
LEMMA IntentRuns ==
  ASSUME TypeOK, ClaimInv, SettleInv, NEW c \in Actions \cup Confirms, Intent(c)
  PROVE  [Promise!Next]_(Promise!vars)
<1>. USE DEF Running, Claimed, BeforeProvider
<1>1. c \in Calls /\ pc[c] = "executing" /\ UNCHANGED <<needs, answer>>
  BY KindsOfCalls DEF Intent
<1>2. CASE Settle(c, FALSE) /\ UNCHANGED entered /\ AuditRefused(c)
  BY <1>1, <1>2, WhoSteps, CallMovesOn DEF Settle, Close, AuditRefused, audit
<1>3. CASE /\ Written(c) /\ UNCHANGED table /\ Go(c, "provider")
           /\ entered' = [entered EXCEPT ![Rec(c)] = @ + 1]
  <2>1. Rec(c) \in Actions
    BY <1>1, WhoSteps, KindsOfCalls DEF Rec
  <2>2. PICK a \in Actions : a = Rec(c)
    BY <2>1
  <2>3. /\ c \in Actions => a = c
        /\ c \in Confirms => a = target[c] /\ c \notin Actions
    BY <2>2, KindsOfCalls DEF Rec
  <2>4. /\ c \in Actions => ~needs[a] /\ pc[a] = "executing" /\ pc'[a] = "provider"
        /\ c \in Confirms => /\ needs[a] /\ pc[a] # "idle" /\ pc'[a] = pc[a]
                             /\ answer[a] = "yes" /\ "confirmed" \in trail[a]
        /\ entered[a] = 0
    <3>1. pc'[c] = "provider" /\ \A b \in Actions : b # c => pc'[b] = pc[b]
      BY <1>1, <1>3, KindsOfCalls DEF Go, TypeOK
    <3>. QED  BY <1>1, <2>3, <3>1 DEF ClaimInv, RequestInv, ConfirmInv
  <2>5. /\ entered'[a] = 1
        /\ \A b \in Actions : b # a => entered'[b] = entered[b] /\ trail'[b] = trail[b]
        /\ "confirmed" \in trail[a] => "confirmed" \in trail'[a]
    BY <1>3, <2>2, <2>4, KindsOfCalls DEF Written, TypeOK
  <2>6. Phase(a) = "recorded" /\ Phase(a)' = "recorded"
    BY <1>1, <2>4, <2>5 DEF Phase, UserPhase, PolicyPhase
  <2>7. ASSUME NEW b \in Actions, b # a  PROVE Phase(b)' = Phase(b)
    <3>1. pc'[b] = pc[b]
      BY <1>1, <1>3, <2>3, <2>7, KindsOfCalls DEF Go, TypeOK
    <3>. QED  BY <1>1, <1>3, <2>5, <2>7, <3>1, PhaseIsLocal DEF table
  <2>8. [b \in Actions |-> Phase(b)]' = [b \in Actions |-> Phase(b)]
    BY <2>6, <2>7
  <2>9. {b \in Actions : entered[b] > 0}' = {b \in Actions : entered[b] > 0} \cup {a}
    BY <2>5
  <2>10. a \notin {b \in Actions : entered[b] > 0}
    BY <2>4
  <2>11. Promise!Run(a)
    BY <1>1, <2>6, <2>8, <2>9, <2>10 DEF Promise!Run
  <2>. QED  BY <2>11 DEF Promise!Next, Promise!Step
<1>. QED  BY <1>2, <1>3 DEF Intent, AuditOk

(* A request is asked about, allowed or rejected.                          *)
LEMMA RequestAsks ==
  ASSUME TypeOK, ClaimInv, SettleInv, NEW a \in Actions, Request(a)
  PROVE  [Promise!Next]_(Promise!vars)
<1>1. /\ pc[a] = "idle" /\ ~needs[a] /\ entered[a] = 0 /\ answer[a] = "none" /\ a \notin pending
      /\ UNCHANGED <<answer, entered, trail>>
  BY DEF Request, ClaimInv, RequestInv, SettleInv, audit
<1>2. \/ pc'[a] = "closing" /\ UNCHANGED pending
      \/ pc'[a] = "lock" /\ needs'[a] /\ UNCHANGED pending
      \/ pc'[a] = "requested" /\ ~needs'[a] /\ pending' = pending \cup {a}
  BY KindsOfCalls DEF Request, Go, TypeOK
<1>3. \A b \in Actions : b # a => pc'[b] = pc[b] /\ needs'[b] = needs[b]
  BY KindsOfCalls DEF Request, Go, TypeOK
<1>4. \A b \in Actions : b # a => Phase(b)' = Phase(b)
  BY <1>1, <1>2, <1>3, PhaseIsLocal
<1>5. \/ needs'[a] /\ {b \in Actions : needs[b]}' = {b \in Actions : needs[b]} \cup {a}
      \/ ~needs'[a] /\ {b \in Actions : needs[b]}' = {b \in Actions : needs[b]}
  BY <1>1, <1>3
<1>6. \/ Phase(a)' = "closed"
      \/ Phase(a)' = "open" /\ needs'[a]
      \/ Phase(a)' = "approved" /\ ~needs'[a]
  BY <1>1, <1>2 DEF Phase, UserPhase, PolicyPhase, BeforeProvider
<1>7. Phase(a) = "new" /\ Promise!Become(a, Phase(a), Phase(a)')
  BY <1>1, <1>4, PhaseUpdates DEF Phase, Promise!Become
<1>8. Promise!Step(a)
  BY <1>5, <1>6, <1>7 DEF Promise!Step, Promise!Ask, Promise!Allow, Promise!Reject
<1>. QED  BY <1>8 DEF Promise!Next

(* The service implements what it promises: every step is one of the       *)
(* promise's own or changes nothing the user could tell.                   *)
THEOREM ServiceImplementsApprovals == Spec => ImplementsApprovals
<1>1. Init => Promise!Init /\ AskInv
  <2>. SUFFICES ASSUME Init  PROVE Promise!Init /\ AskInv
    OBVIOUS
  <2>1. \A a \in Actions : pc[a] = "idle" /\ ~needs[a] /\ entered[a] = 0 /\ trail[a] = {}
    BY KindsOfCalls DEF Init
  <2>. QED  BY <2>1 DEF Promise!Init, Phase, AskInv
<1>2. TypeOK /\ ClaimInv /\ AskInv /\ [Next]_vars => AskInv'
  BY NextKeepsAsked
<1>3. TypeOK /\ ClaimInv /\ SettleInv /\ AskInv /\ [Next]_vars => [Promise!Next]_(Promise!vars)
  <2>. SUFFICES ASSUME TypeOK, ClaimInv, SettleInv, AskInv, [Next]_vars
                PROVE  [Promise!Next]_(Promise!vars)
    OBVIOUS
  <2>1. ASSUME NEW c \in Actions \cup Confirms, Step(c) \/ Cancel(c)
        PROVE  [Promise!Next]_(Promise!vars)
    BY <2>1, StepMovesOn, LockMovesOn, IntentRuns
  <2>2. ASSUME NEW u \in Undos, Step(u) \/ Cancel(u) \/ Undo(u)
        PROVE  [Promise!Next]_(Promise!vars)
    BY <2>2, UndosAreSilent
  <2>3. ASSUME NEW a \in Actions, Request(a)  PROVE [Promise!Next]_(Promise!vars)
    BY <2>3, RequestAsks
  <2>4. CASE UNCHANGED vars \/ (\E a \in Actions : TimePasses(a)) \/ \E c \in Confirms : Confirm(c)
    <3>1. /\ \A a \in Actions : pc'[a] = pc[a]
          /\ UNCHANGED <<needs, answer, entered, trail, pending>>
      BY <2>4, KindsOfCalls DEF vars, table, audit, TimePasses, Confirm, Go, TypeOK
    <3>2. \A a \in Actions : Phase(a)' = Phase(a)
      BY <3>1, PhaseIsLocal
    <3>. QED  BY <3>1, <3>2, KeptIsPromised
  <2>. QED  BY <2>1, <2>2, <2>3, <2>4, KindsOfCalls DEF Next
<1>. QED
  BY <1>1, <1>2, <1>3, TypeCorrect, ClaimInvariant, SettleInvariant, PTL
     DEF Spec, ImplementsApprovals, Promise!Spec
=============================================================================
