-------------------------- MODULE ApplicationProofs --------------------------
(***************************************************************************)
(* Proofs about Application, for every number of operations that raise.    *)
(* TLC checks the same formulas on a small instance.                       *)
(***************************************************************************)
EXTENDS Application, TLAPS

USE DEF JobInv, Launching, StageNeverOrphaned

LEMMA InitInv == Init => JobInv
BY DEF Init

LEMMA LaunchKeepsInv ==
  ASSUME JobInv, VerifyChain \/ Validate \/ Spawn \/ Assign \/ Resume \/ Settle
  PROVE  JobInv'
<1>. USE DEF Goto, stop, store, stage, worker
<1>1. CASE VerifyChain \/ Validate
  BY <1>1 DEF VerifyChain, Validate
<1>2. CASE Spawn
  BY <1>2 DEF Spawn
<1>3. CASE Assign
  BY <1>3 DEF Assign
<1>4. CASE Resume
  BY <1>4 DEF Resume
<1>5. CASE Settle
  BY <1>5 DEF Settle
<1>. QED  BY <1>1, <1>2, <1>3, <1>4, <1>5

(* Closing the job leaves no process that runs in it.                      *)
LEMMA JobKills == JobInv => KilledByJob # "running"
BY DEF KilledByJob

LEMMA ServeKeepsInv ==
  ASSUME JobInv,
         \/ Abandon \/ Wait \/ Startup \/ Configured \/ CleanAvatar \/ CleanStage \/ CleanWait
         \/ Stop \/ Stopped \/ Quit \/ Cancel \/ CancelStop
  PROVE  JobInv'
<1>. USE DEF Goto, stop, store, stage, worker
<1>1. CASE Abandon
  BY <1>1, JobKills DEF Abandon
<1>2. CASE Wait \/ Startup \/ Configured \/ CleanAvatar \/ Quit
  BY <1>2 DEF Wait, Startup, Configured, CleanAvatar, Quit
<1>3. CASE CleanStage \/ CleanWait
  BY <1>3 DEF CleanStage, CleanWait, HandOver
<1>4. CASE Stop \/ Stopped
  BY <1>4 DEF Stop, Stopped
<1>5. CASE Cancel
  BY <1>5 DEF Cancel
<1>6. CASE CancelStop
  BY <1>6 DEF CancelStop, CancelStopper
<1>. QED  BY <1>1, <1>2, <1>3, <1>4, <1>5, <1>6

LEMMA StopKeepsInv ==
  ASSUME JobInv, StopStep
  PROVE  JobInv'
<1>. USE DEF main, store, stage, worker
<1>1. CASE EarlyEnded \/ BusEnded \/ StageEnded \/ Finish
  BY <1>1 DEF EarlyEnded, BusEnded, StageEnded, Finish
<1>2. CASE LateEnded
  BY <1>2 DEF LateEnded, HandOver
<1>3. CASE CloseProvider
  BY <1>3 DEF CloseProvider
<1>4. ASSUME NEW c \in Components, ComponentClosed(c) \/ ComponentRaised(c) \/ ComponentTimedOut(c)
      PROVE  JobInv'
  BY <1>4 DEF ComponentClosed, ComponentRaised, ComponentTimedOut
<1>. QED  BY <1>1, <1>2, <1>3, <1>4 DEF StopStep

LEMMA ProcessKeepsInv ==
  ASSUME JobInv, WorkerStep \/ Accept \/ Save \/ ChildExits \/ Kill
  PROVE  JobInv'
<1>. USE DEF main, stop, store, stage, worker
<1>1. CASE RequestClose \/ AwaitExit
  BY <1>1 DEF RequestClose, AwaitExit
<1>2. CASE Terminate
  BY <1>2 DEF Terminate
<1>3. CASE CloseJob
  BY <1>3, JobKills DEF CloseJob
<1>4. CASE Accept \/ Save \/ ChildExits
  BY <1>4 DEF Accept, Save, ChildExits
<1>5. CASE Kill
  BY <1>5, JobKills DEF Kill
<1>. QED  BY <1>1, <1>2, <1>3, <1>4, <1>5 DEF WorkerStep

LEMMA NextInv == JobInv /\ [Next]_vars => JobInv'
<1>1. SUFFICES ASSUME JobInv, [Next]_vars PROVE JobInv'
  OBVIOUS
<1>2. CASE UNCHANGED vars
  BY <1>1, <1>2 DEF vars, main, stop, stage, worker
<1>. QED
  BY <1>1, <1>2, LaunchKeepsInv, ServeKeepsInv, StopKeepsInv, ProcessKeepsInv DEF Next, MainStep

(* Whatever raises, is cancelled or is killed, the stage process runs only *)
(* in a job that ends it (avatar_stage_supervisor.py, start, _stop_process)*)
THEOREM NoOrphan == Spec => []StageNeverOrphaned
<1>1. JobInv => StageNeverOrphaned
  OBVIOUS
<1>. QED  BY <1>1, InitInv, NextInv, PTL DEF Spec

-----------------------------------------------------------------------------
(* After a kill nothing of the host runs.                                  *)
LEMMA KilledIsOver == ~Running /\ [Next]_vars => ~Running'
<1>1. SUFFICES ASSUME ~Running, [Next]_vars PROVE ~Running'
  OBVIOUS
<1>. USE <1>1 DEF Running
<1>2. CASE UNCHANGED vars
  BY <1>2 DEF vars, main
<1>3. CASE MainStep
  BY <1>3 DEF MainStep, VerifyChain, Validate, Spawn, Assign, Resume, Settle, Abandon, Wait, Startup,
              Configured, CleanAvatar, CleanStage, CleanWait, Stop, Stopped
<1>4. CASE Quit \/ Cancel \/ CancelStop \/ ChildExits \/ Kill \/ (Running /\ (Accept \/ Save))
  BY <1>4 DEF Quit, Cancel, CancelStop, ChildExits, Kill, main
<1>5. CASE StopStep
  BY <1>5 DEF StopStep, EarlyEnded, BusEnded, LateEnded, StageEnded, Finish, CloseProvider,
              ComponentClosed, ComponentRaised, ComponentTimedOut, main
<1>6. CASE WorkerStep
  BY <1>6 DEF WorkerStep, RequestClose, AwaitExit, Terminate, CloseJob, main
<1>. QED  BY <1>1, <1>2, <1>3, <1>4, <1>5, <1>6 DEF Next

(* Steps that stop no component.                                           *)
LEMMA MainKeepsOrder ==
  ASSUME StopOrder, MainStep \/ Quit \/ Cancel
  PROVE  StopOrder'
<1>. USE DEF StopOrder, Goto, stop, store, stage, worker
<1>1. CASE VerifyChain \/ Validate \/ Spawn \/ Assign \/ Settle \/ Abandon \/ Wait \/ Startup
           \/ Configured \/ Quit \/ Cancel
  BY <1>1 DEF VerifyChain, Validate, Spawn, Assign, Settle, Abandon, Wait, Startup, Configured, Quit, Cancel
<1>2. CASE Resume
  BY <1>2 DEF Resume
<1>3. CASE CleanAvatar \/ CleanStage
  BY <1>3 DEF CleanAvatar, CleanStage, HandOver
<1>4. CASE CleanWait
  BY <1>4 DEF CleanWait
<1>5. CASE Stop
  BY <1>5 DEF Stop, Ask, Components, Early, Late
<1>6. CASE Stopped
  BY <1>6 DEF Stopped
<1>. QED  BY <1>1, <1>2, <1>3, <1>4, <1>5, <1>6 DEF MainStep

LEMMA StopKeepsOrder ==
  ASSUME StopOrder, StopStep \/ CancelStop
  PROVE  StopOrder'
<1>. USE DEF StopOrder, Components, Early, Late, main, stop, store, stage, worker
<1>1. CASE EarlyEnded
  BY <1>1 DEF EarlyEnded, Ask
<1>2. CASE BusEnded
  BY <1>2 DEF BusEnded, Ask, Settled
<1>3. CASE LateEnded
  BY <1>3 DEF LateEnded, HandOver
<1>4. CASE StageEnded \/ CloseProvider
  BY <1>4 DEF StageEnded, CloseProvider
<1>7. CASE Finish
  <2>1. /\ stopper = "finish" /\ stopper' = "done"
        /\ UNCHANGED <<pc, op, at, failed, unsaved, stageClean>>
    BY <1>7 DEF Finish
  <2>2. clean' => (\A c \in Components : op[c] = "closed") /\ ~failed /\ stageClean
    BY <1>7, Zenon DEF Finish
  <2>. QED  BY <2>1, <2>2
<1>5. ASSUME NEW c \in Components, ComponentClosed(c) \/ ComponentRaised(c) \/ ComponentTimedOut(c)
      PROVE  StopOrder'
  BY <1>5 DEF ComponentClosed, ComponentRaised, ComponentTimedOut, End
<1>6. CASE CancelStop
  BY <1>6 DEF CancelStop, CancelStopper
<1>. QED  BY <1>1, <1>2, <1>3, <1>4, <1>5, <1>6, <1>7 DEF StopStep

LEMMA ProcessKeepsOrder ==
  ASSUME StopOrder, WorkerStep \/ Accept \/ Save \/ ChildExits
  PROVE  StopOrder'
<1>. USE DEF StopOrder, main, stop, store, stage
<1>1. CASE WorkerStep
  BY <1>1 DEF WorkerStep, RequestClose, AwaitExit, Terminate, CloseJob
<1>2. CASE Accept \/ Save \/ ChildExits
  BY <1>2 DEF Accept, Save, ChildExits
<1>. QED  BY <1>1, <1>2

LEMMA MainKeepsProviders ==
  ASSUME StopOrder, ProvidersInv, MainStep \/ Quit \/ Cancel
  PROVE  ProvidersInv'
<1>. USE DEF ProvidersInv, Goto, stop, store, stage, worker
<1>1. CASE CleanAvatar
  BY <1>1 DEF CleanAvatar
<1>2. CASE Stop
  BY <1>2 DEF Stop, Ask, StopOrder, Components, Early, Late
<1>3. CASE VerifyChain \/ Validate \/ Spawn \/ Assign \/ Resume \/ Settle \/ Abandon \/ Wait \/ Startup
           \/ Configured \/ CleanStage \/ CleanWait \/ Stopped \/ Quit \/ Cancel
  BY <1>3 DEF VerifyChain, Validate, Spawn, Assign, Resume, Settle, Abandon, Wait, Startup, Configured,
              CleanStage, CleanWait, Stopped, Quit, Cancel
<1>. QED  BY <1>1, <1>2, <1>3 DEF MainStep

LEMMA StopKeepsProviders ==
  ASSUME StopOrder, ProvidersInv, StopStep \/ CancelStop
  PROVE  ProvidersInv'
<1>. USE DEF ProvidersInv, StopOrder, Components, Early, Late, main, stop, store, stage, worker
<1>1. CASE EarlyEnded
  BY <1>1 DEF EarlyEnded, Ask
<1>2. CASE BusEnded
  BY <1>2 DEF BusEnded, Ask, Settled
<1>3. CASE LateEnded \/ StageEnded \/ Finish
  BY <1>3 DEF LateEnded, StageEnded, Finish
<1>4. CASE CloseProvider
  <2>1. op["bus"] # "asked" /\ op["orchestrator"] = "asked" /\ at \in 1..3 /\ at' = at + 1 /\ op' = op
    BY <1>4 DEF CloseProvider, Providers
  <2>2. CASE UNCHANGED provider /\ failed' = TRUE
    BY <2>1, <2>2
  <2>3. CASE at = 1 /\ provider' = [provider EXCEPT !["model"] = "closed"] /\ failed' = failed
    BY <2>1, <2>3
  <2>4. CASE at = 2 /\ provider' = [provider EXCEPT !["memory"] = "closed"] /\ failed' = failed
    BY <2>1, <2>4
  <2>5. CASE at = 3 /\ provider' = [provider EXCEPT !["avatar"] = "closed"] /\ failed' = failed
    BY <2>1, <2>5
  <2>. QED  BY <1>4, <2>1, <2>2, <2>3, <2>4, <2>5 DEF CloseProvider, Providers
<1>5. ASSUME NEW c \in Components, ComponentClosed(c) \/ ComponentRaised(c) \/ ComponentTimedOut(c)
      PROVE  ProvidersInv'
  BY <1>5 DEF ComponentClosed, ComponentRaised, ComponentTimedOut, End, Providers
<1>6. CASE CancelStop
  BY <1>6 DEF CancelStop, CancelStopper
<1>. QED  BY <1>1, <1>2, <1>3, <1>4, <1>5, <1>6 DEF StopStep

LEMMA ProcessKeepsProviders ==
  ASSUME StopOrder, ProvidersInv, WorkerStep \/ Accept \/ Save \/ ChildExits
  PROVE  ProvidersInv'
<1>. USE DEF ProvidersInv, main, stop, store, stage
<1>1. CASE WorkerStep
  BY <1>1 DEF WorkerStep, RequestClose, AwaitExit, Terminate, CloseJob
<1>2. CASE Accept \/ ChildExits
  BY <1>2 DEF Accept, ChildExits
<1>3. CASE Save
  BY <1>3 DEF Save, StopOrder
<1>. QED  BY <1>1, <1>2, <1>3

LEMMA MainKeepsStage ==
  ASSUME StageInv, MainStep \/ Quit \/ Cancel
  PROVE  StageInv'
<1>. USE DEF StageInv, Goto, stop, store, stage, worker
<1>1. CASE VerifyChain \/ Validate \/ Startup \/ Configured \/ CleanAvatar \/ Stop \/ Stopped \/ Quit \/ Cancel
  BY <1>1 DEF VerifyChain, Validate, Startup, Configured, CleanAvatar, Stop, Stopped, Quit, Cancel
<1>2. CASE Spawn
  BY <1>2 DEF Spawn
<1>3. CASE Assign
  BY <1>3 DEF Assign
<1>4. CASE Resume
  BY <1>4 DEF Resume
<1>5. CASE Settle \/ Wait
  BY <1>5 DEF Settle, Wait
<1>6. CASE Abandon
  BY <1>6 DEF Abandon, KilledByJob
<1>7. CASE CleanStage
  BY <1>7 DEF CleanStage, HandOver
<1>8. CASE CleanWait
  BY <1>8 DEF CleanWait, ThreadEnded, Outcome
<1>. QED  BY <1>1, <1>2, <1>3, <1>4, <1>5, <1>6, <1>7, <1>8 DEF MainStep

LEMMA StopKeepsStage ==
  ASSUME StopOrder, StageInv, StopStep \/ CancelStop
  PROVE  StageInv'
<1>. USE DEF StageInv, main, stop, store, stage, worker
<1>1. CASE EarlyEnded \/ BusEnded \/ Finish \/ CloseProvider \/ CancelStop
  BY <1>1 DEF EarlyEnded, BusEnded, Finish, CloseProvider, CancelStop
<1>2. CASE LateEnded
  BY <1>2 DEF LateEnded, HandOver, StopOrder
<1>3. CASE StageEnded
  BY <1>3 DEF StageEnded, ThreadEnded, Outcome
<1>4. ASSUME NEW c \in Components, ComponentClosed(c) \/ ComponentRaised(c) \/ ComponentTimedOut(c)
      PROVE  StageInv'
  BY <1>4 DEF ComponentClosed, ComponentRaised, ComponentTimedOut
<1>. QED  BY <1>1, <1>2, <1>3, <1>4 DEF StopStep

LEMMA ProcessKeepsStage ==
  ASSUME StageInv, WorkerStep \/ Accept \/ Save \/ ChildExits
  PROVE  StageInv'
<1>. USE DEF StageInv, main, stop, store, stage, worker
<1>1. CASE RequestClose
  BY <1>1 DEF RequestClose
<1>2. CASE AwaitExit
  <2>1. graceful' /\ ~graceful => child = "exit0"
    BY <1>2, Zenon DEF AwaitExit
  <2>2. /\ thread = "wait" /\ thread' \in {"closeJob", "kill"}
        /\ UNCHANGED <<pc, held, child, stageClean>>
    BY <1>2 DEF AwaitExit
  <2>. QED  BY <2>1, <2>2
<1>3. CASE Terminate
  BY <1>3 DEF Terminate, Exited
<1>4. CASE CloseJob
  BY <1>4 DEF CloseJob, KilledByJob
<1>5. CASE Accept \/ Save
  BY <1>5 DEF Accept, Save
<1>6. CASE ChildExits
  BY <1>6 DEF ChildExits
<1>. QED  BY <1>1, <1>2, <1>3, <1>4, <1>5, <1>6 DEF WorkerStep

LEMMA CleanInit == Init => CleanInv
<1>. SUFFICES ASSUME Init PROVE StopOrder /\ ProvidersInv /\ StageInv
  BY DEF CleanInv
<1>1. StopOrder
  BY DEF Init, StopOrder, Components
<1>2. ProvidersInv
  BY DEF Init, ProvidersInv, Components, Late
<1>3. StageInv
  BY DEF Init, StageInv
<1>. QED  BY <1>1, <1>2, <1>3

LEMMA CleanNext == CleanInv /\ [Next]_vars => CleanInv'
<1>1. SUFFICES ASSUME CleanInv, [Next]_vars, Running' PROVE (StopOrder /\ ProvidersInv /\ StageInv)'
  BY DEF CleanInv
<1>2. StopOrder /\ ProvidersInv /\ StageInv
  BY <1>1, KilledIsOver DEF CleanInv
<1>3. CASE UNCHANGED vars
  BY <1>2, <1>3 DEF vars, main, stop, store, stage, worker, StopOrder, ProvidersInv, StageInv
<1>4. CASE MainStep \/ Quit \/ Cancel
  BY <1>2, <1>4, MainKeepsOrder, MainKeepsProviders, MainKeepsStage
<1>5. CASE StopStep \/ CancelStop
  BY <1>2, <1>5, StopKeepsOrder, StopKeepsProviders, StopKeepsStage
<1>6. CASE WorkerStep \/ Accept \/ Save \/ ChildExits
  BY <1>2, <1>6, ProcessKeepsOrder, ProcessKeepsProviders, ProcessKeepsStage
<1>7. ~Kill
  BY <1>1 DEF Kill, Running
<1>. QED  BY <1>1, <1>3, <1>4, <1>5, <1>6, <1>7 DEF Next

(* A stop that counts as clean has closed every component and provider,    *)
(* saved what the bus accepted, and the stage has ended by itself, however *)
(* the stop was cancelled, timed out or failed before (__main__.py,        *)
(* _stop_components).                                                      *)
THEOREM CleanStopClosed == Spec => []CleanMeansClosed
<1>1. ASSUME CleanInv PROVE CleanMeansClosed
  <2>1. SUFFICES ASSUME clean, Running
        PROVE  /\ \A c \in Components : op[c] = "closed"
               /\ \A p \in DOMAIN provider : provider[p] = "closed"
               /\ ~unsaved
               /\ child \notin {"running", "exit1"}
    BY DEF CleanMeansClosed
  <2>2. StopOrder /\ ProvidersInv /\ StageInv
    BY <1>1, <2>1 DEF CleanInv
  <2>3. (\A c \in Components : op[c] = "closed") /\ ~failed /\ stageClean
    BY <2>1, <2>2 DEF StopOrder
  <2>4. op["bus"] = "closed" /\ op["orchestrator"] = "closed"
    BY <2>3 DEF Components, Late
  <2>5. \A p \in DOMAIN provider : provider[p] = "closed"
    BY <2>2, <2>3, <2>4 DEF ProvidersInv
  <2>. QED  BY <2>2, <2>3, <2>4, <2>5 DEF StopOrder, StageInv
<1>. QED  BY <1>1, CleanInit, CleanNext, PTL DEF Spec
=============================================================================
