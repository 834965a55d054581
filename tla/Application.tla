----------------------------- MODULE Application -----------------------------
(***************************************************************************)
(* Start and stop of the companion (__main__.py) with the managed avatar   *)
(* stage (services/avatar_stage_supervisor.py) and the sequential shutdown *)
(* of the providers (core/orchestrator.py). The main task starts the stage *)
(* in a kill-on-close job, checks the providers, serves, and at the end    *)
(* waits for a stop task that it shields from one cancellation. The stage  *)
(* is stopped by a worker thread that a cancelled await leaves running.    *)
(* Every await of the main task can be cancelled; the host process can be  *)
(* killed at any step.                                                     *)
(***************************************************************************)
EXTENDS Naturals, Sequences

CONSTANT MaxFaults      \* bound on operations that raise

ASSUME FaultsAssumption == MaxFaults \in Nat

Early == {"audio", "pipeline"}          \* stopped side by side, first
Late  == {"orchestrator", "audit"}      \* side by side, after the event bus
Components == Early \cup {"bus"} \cup Late
Providers  == <<"model", "memory", "avatar">>   \* in the order of _providers()

VARIABLES
  pc,          \* where the main task is
  stopper,     \* where the stop task is
  op,          \* op[c]: what became of the shutdown of component c
  at,          \* the provider that the orchestrator closes next
  provider,    \* provider[p]: open or closed
  failed,      \* a provider raised while it was closed
  unsaved,     \* an accepted event is not in the database yet
  held,        \* the supervisor holds a process and its job
  job, child,  \* the job object and the stage process
  inJob,       \* the process was assigned to the job
  thread,      \* where the thread that stops the stage is
  graceful,    \* what that thread found
  stageClean, clean,    \* _shutdown_clean of the supervisor, of the application
  cancels,     \* cancellations of the main task while it stops
  faults

main  == <<pc, cancels>>
stop  == <<stopper, op, at, failed, clean>>
store == <<provider, unsaved>>
stage == <<held, job, child, inJob, stageClean>>
worker == <<thread, graceful>>
vars  == <<main, stop, store, stage, worker, faults>>

Exited == child \in {"exit0", "exit1"}
(* Closing the job kills what runs in it.                                  *)
KilledByJob == IF inJob /\ child = "suspended" THEN "discarded"
               ELSE IF inJob /\ child = "running" THEN "exit1" ELSE child

Init ==
  /\ pc = "verify" /\ cancels = 0
  /\ stopper = "none" /\ op = [c \in Components |-> "idle"]
  /\ at = 1 /\ failed = FALSE /\ clean = FALSE
  /\ provider = [p \in {"model", "memory", "avatar"} |-> "open"] /\ unsaved = FALSE
  /\ held = FALSE /\ job = "none" /\ child = "none" /\ inJob = FALSE /\ stageClean = TRUE
  /\ thread = "none" /\ graceful = FALSE
  /\ faults = 0

Goto(where) == pc' = where /\ UNCHANGED cancels
Fault == faults < MaxFaults /\ faults' = faults + 1

-----------------------------------------------------------------------------
(* start(): without a valid audit chain nothing is started.                *)
VerifyChain ==
  /\ pc = "verify" /\ (Goto("validate") \/ Goto("stop"))
  /\ UNCHANGED <<stop, store, stage, worker, faults>>

(* The files are validated and the port is probed in a thread.             *)
Validate ==
  /\ pc = "validate"
  /\ (Goto("spawn") /\ UNCHANGED faults) \/ (Goto("cleanAvatar") /\ Fault)
  /\ UNCHANGED <<stop, store, stage, worker>>

(* From here to the resumed thread nothing is awaited, but each call may   *)
(* raise and the host may be killed between two of them.                   *)
Spawn ==
  /\ pc = "spawn"
  /\ \/ Goto("assign") /\ job' = "open" /\ child' = "suspended" /\ UNCHANGED faults
     \/ Goto("cleanAvatar") /\ Fault /\ UNCHANGED <<job, child>>
  /\ UNCHANGED <<stop, store, held, inJob, stageClean, worker>>

(* Mutant: the stage runs before it is assigned to the job.                *)
AssignAndResume ==
  /\ pc = "assign" /\ Goto("resume") /\ child' = "running"
  /\ UNCHANGED <<stop, store, held, job, inJob, stageClean, worker, faults>>

Assign ==
  /\ pc = "assign"
  /\ \/ Goto("resume") /\ inJob' = TRUE /\ UNCHANGED faults
     \/ Goto("abandon") /\ Fault /\ UNCHANGED inJob
  /\ UNCHANGED <<stop, store, held, job, child, stageClean, worker>>

Resume ==
  /\ pc = "resume"
  /\ \/ Goto("settle") /\ child' = "running" /\ held' = TRUE /\ stageClean' = FALSE
        /\ UNCHANGED faults
     \/ Goto("abandon") /\ Fault /\ UNCHANGED <<child, held, stageClean>>
  /\ UNCHANGED <<stop, store, job, inJob, worker>>

Settle ==
  /\ pc = "settle" /\ Goto(IF Exited THEN "abandon" ELSE "wait")
  /\ UNCHANGED <<stop, store, stage, worker, faults>>

(* A failed launch: the process is terminated if that works, and the job   *)
(* is closed.                                                              *)
Abandon ==
  /\ pc = "abandon" /\ Goto("cleanAvatar")
  /\ job' = "closed" /\ held' = FALSE
  /\ child' \in {KilledByJob,
                 CASE child = "suspended" -> "discarded" [] child = "running" -> "exit1"
                   [] OTHER -> child}
  /\ UNCHANGED <<stop, store, inJob, stageClean, worker, faults>>

(* The bridge port is polled until it answers, the process has exited or   *)
(* the time is up.                                                         *)
Wait ==
  /\ pc = "wait" /\ \/ ~Exited /\ Goto("startup")
                    \/ Goto("cleanAvatar")
  /\ UNCHANGED <<stop, store, stage, worker, faults>>

(* Then the providers and the configuration are checked.                   *)
Startup ==
  /\ pc = "startup" /\ (Goto("configure") \/ Goto("cleanAvatar"))
  /\ UNCHANGED <<stop, store, stage, worker, faults>>

Configured ==
  /\ pc = "configure" /\ (Goto("serve") \/ Goto("cleanAvatar"))
  /\ UNCHANGED <<stop, store, stage, worker, faults>>

Quit ==
  /\ pc = "serve" /\ Goto("stop")
  /\ UNCHANGED <<stop, store, stage, worker, faults>>

(* A failed start closes the avatar connection and stops the stage.        *)
CleanAvatar ==
  /\ pc = "cleanAvatar" /\ Goto("cleanStage")
  /\ \/ provider' = [provider EXCEPT !["avatar"] = "closed"]
     \/ UNCHANGED provider
  /\ UNCHANGED <<stop, unsaved, stage, worker, faults>>

(* shutdown() of the supervisor forgets the process and hands it to a      *)
(* thread.                                                                 *)
HandOver ==
  /\ held' = FALSE /\ thread' = "close"
  /\ UNCHANGED <<job, child, inJob, stageClean, graceful>>

CleanStage ==
  /\ pc = "cleanStage"
  /\ IF held THEN Goto("cleanWait") /\ HandOver ELSE Goto("stop") /\ UNCHANGED <<stage, worker>>
  /\ UNCHANGED <<stop, store, faults>>

ThreadEnded == thread \in {"done", "raised"}
Outcome == IF thread = "done" THEN graceful ELSE stageClean

CleanWait ==
  /\ pc = "cleanWait" /\ ThreadEnded /\ Goto("stop")
  /\ stageClean' = Outcome
  /\ UNCHANGED <<stop, store, held, job, child, inJob, worker, faults>>

(* CancelledError at an await of the main task before it stops.            *)
Cancel ==
  /\ \/ pc \in {"validate", "wait", "startup"} /\ Goto("cleanAvatar")
     \/ pc = "settle" /\ Goto("abandon")
     \/ pc = "cleanAvatar" /\ Goto("cleanStage")
     \/ pc \in {"verify", "cleanWait", "serve"} /\ Goto("stop")
  /\ UNCHANGED <<stop, store, stage, worker, faults>>

-----------------------------------------------------------------------------
(* The stage process and the thread that stops it.                         *)
ChildExits ==
  /\ child = "running" /\ child' \in {"exit0", "exit1"}
  /\ UNCHANGED <<main, stop, store, held, job, inJob, stageClean, worker, faults>>

RequestClose ==
  /\ thread = "close"
  /\ \/ Exited /\ thread' = "closeJob" /\ UNCHANGED faults
     \/ ~Exited /\ thread' \in {"wait", "kill"} /\ UNCHANGED faults
     \/ ~Exited /\ thread' = "raise" /\ Fault
  /\ UNCHANGED <<main, stop, store, stage, graceful>>

AwaitExit ==
  /\ thread = "wait"
  /\ \/ Exited /\ graceful' = (child = "exit0") /\ thread' = "closeJob"
     \/ ~Exited /\ thread' = "kill" /\ UNCHANGED graceful
  /\ UNCHANGED <<main, stop, store, stage, faults>>

Terminate ==
  /\ thread = "kill"
  /\ \/ thread' = "closeJob" /\ child' \in (IF Exited THEN {child} ELSE {child, "exit1"})
        /\ UNCHANGED faults
     \/ ~Exited /\ thread' = "raise" /\ Fault /\ UNCHANGED child
  /\ UNCHANGED <<main, stop, store, held, job, inJob, stageClean, graceful>>

CloseJob ==
  /\ thread \in {"closeJob", "raise"}
  /\ thread' = (IF thread = "raise" THEN "raised" ELSE "done")
  /\ job' = "closed" /\ child' = KilledByJob
  /\ UNCHANGED <<main, stop, store, held, inJob, stageClean, graceful, faults>>

-----------------------------------------------------------------------------
(* stop() starts the stop task.                                            *)
Ask(group) == op' = [c \in Components |-> IF c \in group THEN "asked" ELSE op[c]]

Stop ==
  /\ pc = "stop" /\ Goto("stopping")
  /\ stopper' = "early" /\ Ask(Early)
  /\ UNCHANGED <<at, failed, clean, store, stage, worker, faults>>

(* _stop_component(): the shutdown returns, raises, or is given up.        *)
End(c, how) == op[c] = "asked" /\ op' = [op EXCEPT ![c] = how]

ComponentClosed(c) ==
  /\ End(c, "closed")
  /\ c = "bus" => ~unsaved
  /\ c = "orchestrator" => at > Len(Providers)
  /\ UNCHANGED <<main, stopper, at, failed, clean, store, stage, worker, faults>>

ComponentRaised(c) ==
  /\ End(c, "raised") /\ c # "orchestrator" /\ Fault
  /\ UNCHANGED <<main, stopper, at, failed, clean, store, stage, worker>>

ComponentTimedOut(c) ==
  /\ End(c, "gaveUp")
  /\ UNCHANGED <<main, stopper, at, failed, clean, store, stage, worker, faults>>

(* The orchestrator closes one provider after the other.                   *)
CloseProvider ==
  /\ op["orchestrator"] = "asked" /\ at <= Len(Providers) /\ at' = at + 1
  /\ \/ provider' = [provider EXCEPT ![Providers[at]] = "closed"] /\ UNCHANGED <<failed, faults>>
     \/ failed' = TRUE /\ Fault /\ UNCHANGED provider
  /\ UNCHANGED <<main, stopper, op, clean, unsaved, stage, worker>>

Settled(group) == \A c \in group : op[c] # "asked"

(* Mutant: the bus is not awaited before the memory provider is closed.    *)
EarlyAndBusEnded ==
  /\ stopper = "early" /\ Settled(Early) /\ stopper' = "late" /\ Ask(Late \cup {"bus"})
  /\ UNCHANGED <<main, at, failed, clean, store, stage, worker, faults>>

EarlyEnded ==
  /\ stopper = "early" /\ Settled(Early) /\ stopper' = "bus" /\ Ask({"bus"})
  /\ UNCHANGED <<main, at, failed, clean, store, stage, worker, faults>>

BusEnded ==
  /\ stopper = "bus" /\ Settled({"bus"}) /\ stopper' = "late" /\ Ask(Late)
  /\ UNCHANGED <<main, at, failed, clean, store, stage, worker, faults>>

LateEnded ==
  /\ stopper = "late" /\ Settled(Late \cup {"bus"})
  /\ \/ held /\ HandOver /\ stopper' = "stage"
     \/ ~held /\ stopper' = "finish" /\ UNCHANGED <<stage, worker>>
  /\ UNCHANGED <<main, op, at, failed, clean, store, faults>>

StageEnded ==
  /\ stopper = "stage" /\ ThreadEnded /\ stopper' = "finish"
  /\ stageClean' = Outcome
  /\ UNCHANGED <<main, op, at, failed, clean, store, held, job, child, inJob, worker, faults>>

Finish ==
  /\ stopper = "finish" /\ stopper' = "done"
  /\ clean' = ((\A c \in Components : op[c] = "closed") /\ ~failed /\ stageClean)
  /\ UNCHANGED <<main, op, at, failed, store, stage, worker, faults>>

(* A cancelled stop task: gather() ends it, the bus and the stage are left *)
(* to themselves and the next one follows.                                 *)
CancelStopper ==
  /\ op' = [c \in Components |-> IF op[c] = "asked" THEN "gaveUp" ELSE op[c]]
  /\ stopper' = CASE stopper \in {"early", "late"} -> "aborted"
                  [] stopper = "stage" -> "done"
                  [] OTHER -> stopper
  /\ UNCHANGED <<at, failed, clean>>

(* Mutant: the stop task is not shielded.                                  *)
CancelStopAtOnce ==
  /\ pc = "stopping" /\ cancels < 2 /\ stopper \notin {"done", "aborted"}
  /\ cancels' = cancels + 1 /\ CancelStopper
  /\ UNCHANGED <<pc, store, stage, worker, faults>>

(* stop() awaits its task through a shield, and after a CancelledError     *)
(* without one.                                                            *)
CancelStop ==
  /\ pc = "stopping" /\ cancels < 2 /\ stopper \notin {"done", "aborted"}
  /\ cancels' = cancels + 1
  /\ IF cancels = 0 THEN UNCHANGED stop ELSE CancelStopper
  /\ UNCHANGED <<pc, store, stage, worker, faults>>

Stopped ==
  /\ pc = "stopping" /\ stopper \in {"done", "aborted"} /\ Goto("stopped")
  /\ UNCHANGED <<stop, store, stage, worker, faults>>

-----------------------------------------------------------------------------
(* The event bus accepts an event of the running pipeline and saves it,    *)
(* which opens the database again if it was closed.                        *)
Accept ==
  /\ op["bus"] # "closed" /\ ~unsaved /\ unsaved' = TRUE
  /\ pc = "serve" \/ op["pipeline"] \in {"asked", "gaveUp"}
  /\ UNCHANGED <<main, stop, provider, stage, worker, faults>>

Save ==
  /\ unsaved /\ unsaved' = FALSE
  /\ provider' = [provider EXCEPT !["memory"] = "open"]
  /\ UNCHANGED <<main, stop, stage, worker, faults>>

(* The host is killed: its threads end and its handles close.              *)
Kill ==
  /\ pc \notin {"stopped", "killed"} /\ pc' = "killed"
  /\ stopper' = "none" /\ thread' = "none" /\ op' = [c \in Components |-> "idle"]
  /\ job' = "closed" /\ child' = KilledByJob
  /\ UNCHANGED <<cancels, at, failed, clean, store, held, inJob, stageClean, graceful, faults>>

Running == pc # "killed"

MainStep ==
  \/ VerifyChain \/ Validate \/ Spawn \/ Assign \/ Resume \/ Settle \/ Abandon \/ Wait
  \/ Startup \/ Configured \/ CleanAvatar \/ CleanStage \/ CleanWait \/ Stop \/ Stopped

StopStep ==
  \/ EarlyEnded \/ BusEnded \/ LateEnded \/ StageEnded \/ Finish \/ CloseProvider
  \/ \E c \in Components : ComponentClosed(c) \/ ComponentRaised(c) \/ ComponentTimedOut(c)

WorkerStep == RequestClose \/ AwaitExit \/ Terminate \/ CloseJob

Next == \/ MainStep \/ Quit \/ Cancel \/ CancelStop \/ StopStep \/ WorkerStep
        \/ (Running /\ (Accept \/ Save))
        \/ ChildExits \/ Kill

(* The event loop runs the tasks that can go on, the threads run, and      *)
(* timers expire.                                                          *)
Fairness == WF_vars(MainStep) /\ WF_vars(StopStep) /\ WF_vars(WorkerStep)

Spec == Init /\ [][Next]_vars /\ Fairness

-----------------------------------------------------------------------------
(* A stop that counts as clean, after which the crash marker is removed,   *)
(* has closed every component and provider, has every accepted event in    *)
(* the database, and the stage has ended by itself or never ran.           *)
CleanMeansClosed ==
  clean /\ Running =>
    /\ \A c \in Components : op[c] = "closed"
    /\ \A p \in DOMAIN provider : provider[p] = "closed"
    /\ ~unsaved
    /\ child \notin {"running", "exit1"}

(* The stage process never runs outside a job that kills it: not when a    *)
(* launch fails half way, not when the stop is cancelled, and not when the *)
(* host is killed between two calls.                                       *)
StageNeverOrphaned == child = "running" => inJob /\ job = "open"

(* "Release every runtime resource once, even if the caller is cancelled": *)
(* a stop ends, and unless it was cancelled twice every component was      *)
(* asked to close and the stage is gone.                                   *)
StopComesThrough ==
  (pc = "stop") ~> \/ pc = "killed"
                   \/ /\ pc = "stopped"
                      /\ cancels < 2 => /\ \A c \in Components : op[c] # "idle"
                                        /\ child # "running"

(* The inductive invariant: until the stage has been resumed in its job    *)
(* nobody is there to close the job.                                       *)
Launching == pc \in {"verify", "validate", "spawn", "assign", "resume"}
JobInv ==
  /\ Launching => thread = "none" /\ stopper = "none"
  /\ pc \in {"assign", "resume"} => job = "open"
  /\ pc = "resume" => inJob
  /\ StageNeverOrphaned

(* The inductive invariant for a clean stop: components are asked in the   *)
(* order early, bus, late; the memory provider is closed when the bus has  *)
(* nothing left to save; and a stage that counts as clean has ended by     *)
(* itself or never ran.                                                    *)
StopOrder ==
  /\ op \in [Components -> {"idle", "asked", "closed", "raised", "gaveUp"}]
  /\ stopper \in {"none", "early", "bus", "late", "stage", "finish", "done", "aborted"}
  /\ stopper # "none" => pc \in {"stopping", "stopped"}
  /\ stopper = "none" => \A c \in Components : op[c] = "idle"
  /\ stopper \in {"early", "bus"} => op["orchestrator"] = "idle"
  /\ op["bus"] = "asked" => stopper = "bus"
  /\ stopper = "early" => op["bus"] = "idle"
  /\ op["bus"] = "closed" => ~unsaved
  /\ clean => /\ stopper = "done" /\ ~failed /\ stageClean
              /\ \A c \in Components : op[c] = "closed"

ProvidersInv ==
  /\ at \in 1..4
  /\ provider \in [{"model", "memory", "avatar"} -> {"open", "closed"}]
  /\ op["orchestrator"] = "idle" => at = 1
  /\ op["orchestrator"] = "closed" => at = 4
  /\ op["bus"] = "closed" /\ ~failed =>
       /\ at > 1 => provider["model"] = "closed"
       /\ at > 2 => provider["memory"] = "closed"
       /\ at > 3 => provider["avatar"] = "closed"

StageInv ==
  /\ pc \in {"verify", "validate", "spawn"} => child = "none"
  /\ pc \in {"assign", "resume"} => child = "suspended"
  /\ Launching => ~graceful /\ thread = "none"
  /\ held => ~stageClean /\ thread = "none"
  /\ thread \in {"close", "wait", "kill", "closeJob", "raise"} => ~stageClean
  /\ graceful => child = "exit0"
  /\ stageClean => child \notin {"running", "exit1"}

CleanInv == Running => StopOrder /\ ProvidersInv /\ StageInv
=============================================================================
