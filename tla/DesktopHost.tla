----------------------------- MODULE DesktopHost -----------------------------
(***************************************************************************)
(* The host of the desktop client (desktop/host.py): what it believes of   *)
(* the conversation, against the turns of the voice pipeline whose ledger  *)
(* events it hears over the event bus, and what the client is told.        *)
(*                                                                         *)
(* The pipeline is here what the host can tell of it: a turn task that     *)
(* waits for the turn lock, publishes its start, runs, publishes its       *)
(* terminal and ends, and an interruption that settles the turn on its own *)
(* after the task is gone. VoiceTurn has the detail. The bus takes one     *)
(* event at a time and a publisher waits until its event was handled.      *)
(* Snapshots, which repeat what is told otherwise, are left out.           *)
(***************************************************************************)
EXTENDS Naturals, Sequences

CONSTANTS
  Texts,      \* turns that the client asks for
  Voices,     \* turns of the voice loop
  None,       \* no turn
  MaxFaults   \* bound on events that the store refuses

Turns == Texts \cup Voices

ASSUME TurnsAssumption == Texts \cap Voices = {} /\ None \notin Turns
ASSUME BoundsAssumption == MaxFaults \in Nat

VARIABLES
  active,     \* _active_turn_id
  task,       \* whose task _turn_task is
  fallback,   \* fallback[t]: _publish_unexpected_turn_failure
  main,       \* where run() is, and whether _quit is set
  mic,        \* the voice controller is enabled
  connected,  \* the server has an authenticated client
  shown,      \* shown[t]: what the client was told of turn t
  turn,       \* turn[t]: where the task of turn t is
  interruption,   \* interruption[t]: where _finish_interruption is
  cur,        \* the turn manager's current turn
  cancelled,  \* turns whose task was asked to end
  bus,        \* published events, the first being appended or handled
  head,       \* how far the first one is
  log,        \* durable events of each turn
  faults

belief   == <<active, task>>
service  == <<main, mic, connected>>
pipeline == <<turn, interruption, cur, cancelled>>
ledger   == <<bus, head, log, faults>>
vars     == <<belief, fallback, service, shown, pipeline, ledger>>

Terminals == {"Completed", "Failed"}

-----------------------------------------------------------------------------
(* server.publish(): the send lock is fair, so each message is written in  *)
(* the order of the calls; its sender goes on in a later step.             *)
Tell(t, e) == shown' = IF connected THEN [shown EXCEPT ![t] = Append(@, e)] ELSE shown

(* event_bus.publish().                                                    *)
Publish(t, e, b) == bus' = Append(bus, [turn |-> t, event |-> e, by |-> b])

Ended(t) == turn[t] \in {"done", "stranded"}

(* The turn record is active: it may be interrupted or cancelled. A turn   *)
(* whose start was refused stays active without a task.                    *)
IsActive(t) == turn[t] \in {"starting", "running", "stranded"} /\ interruption[t] = "idle"

UnderWay(ts) == {t \in ts : turn[t] # "none" /\ ~Ended(t)}

Init ==
  /\ active = None /\ task = None /\ fallback = [t \in Turns |-> "none"]
  /\ main = "connect" /\ mic = FALSE
  /\ connected = FALSE /\ shown = [t \in Turns |-> <<>>]
  /\ turn = [t \in Turns |-> "none"] /\ interruption = [t \in Turns |-> "idle"]
  /\ cur = None /\ cancelled = {}
  /\ bus = <<>> /\ head = "queued" /\ log = [t \in Turns |-> <<>>] /\ faults = 0

-----------------------------------------------------------------------------
(* run(): the client connects, or does not in time; then the order to quit *)
(* is awaited. Whether the providers are ready is the choice whether a     *)
(* request is accepted; a check that is under way goes on during a turn.   *)
Connect ==
  /\ main = "connect"
  /\ main' = "serve" /\ connected' = TRUE
  /\ UNCHANGED <<belief, fallback, mic, shown, pipeline, ledger>>

NotConnected ==
  /\ main = "connect" /\ main' = "stopped"
  /\ UNCHANGED <<belief, fallback, mic, connected, shown,
                 pipeline, ledger>>

Cleanup ==
  /\ main = "quit" /\ main' = "cancelTurn"
  /\ cancelled' = cancelled \cup (UnderWay(Texts) \cap {task})
  /\ UNCHANGED <<belief, fallback, mic, connected, shown, turn,
                 interruption, cur, ledger>>

(* _voice.stop() cancels the task of the voice turn while the current turn *)
(* of the pipeline, whichever it is, has not got to its answer.            *)
Early == IF cur = None \/ ~IsActive(cur) THEN {FALSE}
         ELSE IF turn[cur] = "running" THEN BOOLEAN ELSE {TRUE}

CancelVoice == \E early \in Early :
                 cancelled' = IF early THEN cancelled \cup UnderWay(Voices) ELSE cancelled

StopVoice ==
  /\ main = "cancelTurn" /\ UnderWay(cancelled) = {}
  /\ main' = "stopVoice" /\ mic' = FALSE
  /\ CancelVoice
  /\ UNCHANGED <<belief, fallback, connected, shown, turn,
                 interruption, cur, ledger>>

StopServer ==
  /\ main = "stopVoice" /\ UnderWay(cancelled) = {}
  /\ main' = "stopped" /\ connected' = FALSE
  /\ UNCHANGED <<belief, fallback, mic, shown, pipeline,
                 ledger>>

Quit ==
  /\ main = "serve" /\ main' = "quit"
  /\ UNCHANGED <<belief, fallback, mic, connected, shown, pipeline, ledger>>

(* _on_disconnected(): the voice is stopped, then the host.                *)
Disconnect ==
  /\ connected /\ connected' = FALSE
  /\ main' = (IF main = "serve" THEN "quit" ELSE main) /\ mic' = FALSE
  /\ CancelVoice
  /\ UNCHANGED <<belief, fallback, shown, turn, interruption, cur, ledger>>

-----------------------------------------------------------------------------
(* conversation.send: only while no turn is active and no accepted one is  *)
(* under way, as far as the host knows.                                    *)
SendConversation(t) ==
  /\ connected /\ turn[t] = "none"
  /\ active = None /\ UnderWay({task} \cap Turns) = {}
  /\ active' = t /\ task' = t
  /\ turn' = [turn EXCEPT ![t] = "queued"]
  /\ UNCHANGED <<fallback, service, shown, interruption, cur, cancelled, ledger>>

(* conversation.cancel, and pipeline.cancel().                             *)
CancelConversation(t) ==
  /\ connected /\ t = active /\ t = cur
  /\ IsActive(t) /\ ~Ended(t) /\ t \notin cancelled
  /\ cancelled' = cancelled \cup {t}
  /\ UNCHANGED <<belief, fallback, service, shown, turn, interruption, cur, ledger>>

StartVoice ==
  /\ connected /\ ~mic /\ active = None
  /\ mic' = TRUE
  /\ UNCHANGED <<belief, fallback, main, connected, shown,
                 pipeline, ledger>>

StopVoiceRequest ==
  /\ connected /\ mic /\ mic' = FALSE
  /\ CancelVoice
  /\ UNCHANGED <<belief, fallback, main, connected, shown,
                 turn, interruption, cur, ledger>>

-----------------------------------------------------------------------------
(* The pipeline.                                                           *)

(* The voice loop has heard an utterance.                                  *)
Speak(t) ==
  /\ mic /\ turn[t] = "none" /\ UnderWay(Voices) = {}
  /\ turn' = [turn EXCEPT ![t] = "queued"]
  /\ UNCHANGED <<belief, fallback, service, shown, interruption, cur, cancelled, ledger>>

(* The turn lock is held by one task.                                      *)
Begin(t) ==
  /\ turn[t] = "queued" /\ t \notin cancelled
  /\ \A s \in Turns : turn[s] \in {"none", "queued", "done", "stranded"}
  /\ turn' = [turn EXCEPT ![t] = "starting"] /\ cur' = t
  /\ Publish(t, "Started", "task")
  /\ UNCHANGED <<belief, fallback, service, shown, interruption, cancelled, head, log, faults>>

(* Mutant: no callback is added to the task.                               *)
TaskForgotten(t, how) == turn' = [turn EXCEPT ![t] = how] /\ UNCHANGED fallback

(* _turn_done, the callback of a text turn's task: when the host thinks    *)
(* that the turn is active it schedules a failure of its own.              *)
TaskDone(t, how) ==
  /\ turn' = [turn EXCEPT ![t] = how]
  /\ fallback' = IF t \in Texts /\ active = t THEN [fallback EXCEPT ![t] = "yield"]
                 ELSE fallback

(* A task that waits for the lock is cancelled at once; the task of an     *)
(* interrupted turn sees that the turn is not active any more and ends,    *)
(* whether or not the interruption has settled it.                         *)
TaskLeaves(t) ==
  /\ \/ turn[t] = "queued" /\ t \in cancelled
     \/ turn[t] = "running" /\ interruption[t] # "idle"
  /\ TaskDone(t, "done")
  /\ UNCHANGED <<belief, service, shown, interruption, cur, cancelled, ledger>>

(* The turn completes or fails, or was cancelled.                          *)
Finish(t) ==
  /\ turn[t] = "running" /\ interruption[t] = "idle"
  /\ turn' = [turn EXCEPT ![t] = "ending"]
  /\ \E e \in Terminals : (t \in cancelled => e = "Failed") /\ Publish(t, e, "task")
  /\ UNCHANGED <<belief, fallback, service, shown, interruption, cur, cancelled, head, log,
                 faults>>

(* The voice loop hears the user speak: the current turn is interrupted,   *)
(* a text turn as well.                                                    *)
Interrupt(t) ==
  /\ mic /\ t = cur /\ IsActive(t)
  /\ interruption' = [interruption EXCEPT ![t] = "stopping"]
  /\ UNCHANGED <<belief, fallback, service, shown, turn, cur, cancelled, ledger>>

(* _finish_interruption: the notice, then the terminal; only what a turn   *)
(* that started has played is a completion.                                *)
Settle(t) ==
  /\ \/ /\ interruption[t] = "stopping"
        /\ interruption' = [interruption EXCEPT ![t] = "noticing"]
        /\ Publish(t, "Interrupted", "interruption")
     \/ /\ interruption[t] = "settling"
        /\ interruption' = [interruption EXCEPT ![t] = "ending"]
        /\ \E e \in Terminals : /\ e = "Completed" => log[t] # <<>> /\ log[t][1] = "Started"
                               /\ Publish(t, e, "interruption")
  /\ UNCHANGED <<belief, fallback, service, shown, turn, cur, cancelled, head, log, faults>>

-----------------------------------------------------------------------------
(* The bus.                                                                *)
First == bus[1]

(* The first event is appended; the host's _on_domain_event marks the turn *)
(* that starts as the active one and sends the event on.                   *)
Record ==
  /\ bus # <<>> /\ head = "queued" /\ head' = "told"
  /\ log' = [log EXCEPT ![First.turn] = Append(@, First.event)]
  /\ active' = IF First.event = "Started" THEN First.turn ELSE active
  /\ Tell(First.turn, First.event)
  /\ UNCHANGED <<task, fallback, service, pipeline, bus, faults>>

(* _finish_active_turn.                                                    *)
FinishActive(t) ==
  /\ active' = IF active = t THEN None ELSE active
  /\ task' = IF active = t THEN None ELSE task

(* The event was told: a terminal ends its turn's being active. Then its   *)
(* publisher goes on.                                                      *)
Handled ==
  /\ bus # <<>> /\ head = "told" /\ head' = "queued"
  /\ bus' = Tail(bus)
  /\ LET e == First IN
       /\ IF e.event \in Terminals THEN FinishActive(e.turn) ELSE UNCHANGED belief
       /\ IF e.by = "interruption"
          THEN /\ interruption' = [interruption EXCEPT ![e.turn] =
                                     IF e.event = "Interrupted" THEN "settling" ELSE "done"]
               /\ UNCHANGED <<turn, fallback>>
          ELSE /\ turn' = [turn EXCEPT ![e.turn] =
                             IF e.event = "Started" THEN "running" ELSE "done"]
               /\ UNCHANGED <<interruption, fallback>>
  /\ UNCHANGED <<service, shown, cur, cancelled, log, faults>>

(* The append is refused. A refused completion or notice is followed by a  *)
(* failure; a refused start or failure ends its task with the error.       *)
Refuse ==
  /\ bus # <<>> /\ head = "queued" /\ faults < MaxFaults
  /\ faults' = faults + 1
  /\ LET e == First IN
       IF e.event \in {"Completed", "Interrupted"}
       THEN /\ bus' = Append(Tail(bus), [e EXCEPT !.event = "Failed"])
            /\ interruption' = [interruption EXCEPT ![e.turn] =
                                  IF e.by = "interruption" THEN "ending" ELSE @]
            /\ UNCHANGED <<turn, fallback>>
       ELSE /\ bus' = Tail(bus)
            /\ IF e.by = "interruption"
               THEN /\ interruption' = [interruption EXCEPT ![e.turn] = "done"]
                    /\ UNCHANGED <<turn, fallback>>
               ELSE /\ TaskDone(e.turn, IF e.event = "Started" THEN "stranded" ELSE "done")
                    /\ UNCHANGED interruption
  /\ UNCHANGED <<belief, service, shown, cur, cancelled, head, log>>

(* _publish_unexpected_turn_failure: after one scheduling turn.            *)
Fallback(t) ==
  /\ \/ /\ fallback[t] = "yield"
        /\ IF active # t
           THEN fallback' = [fallback EXCEPT ![t] = "done"] /\ UNCHANGED shown
           ELSE fallback' = [fallback EXCEPT ![t] = "told"] /\ Tell(t, "Failed")
        /\ UNCHANGED belief
     \/ /\ fallback[t] = "told" /\ fallback' = [fallback EXCEPT ![t] = "done"]
        /\ FinishActive(t) /\ UNCHANGED shown
  /\ UNCHANGED <<service, pipeline, ledger>>

-----------------------------------------------------------------------------
HostStep ==
  \/ Cleanup \/ StopVoice \/ StopServer \/ Record \/ Handled
  \/ \E t \in Turns :
       Begin(t) \/ TaskLeaves(t) \/ Finish(t) \/ Settle(t) \/ Fallback(t)

Client ==
  \/ Connect \/ NotConnected \/ Quit \/ Disconnect \/ StartVoice \/ StopVoiceRequest
  \/ \E t \in Texts : SendConversation(t) \/ CancelConversation(t)

User == (\E t \in Voices : Speak(t)) \/ (\E t \in Turns : Interrupt(t))

Next == HostStep \/ Client \/ User \/ Refuse

(* The event loop runs while a task is ready, and providers end or time    *)
(* out. No step of the host leads back to an earlier state.                *)
Fairness == WF_vars(HostStep)

Spec == Init /\ [][Next]_vars /\ Fairness

-----------------------------------------------------------------------------
(* The client was told that the turn ended.                                *)
Answered(t) == \E i \in DOMAIN shown[t] : shown[t][i] \in Terminals

(* A text turn does not keep the host busy for ever: when its start or its *)
(* terminal is refused the fallback ends it.                               *)
TextTurnsEnd == \A t \in Texts : active = t ~> active # t

(* Every text turn that was accepted is told to end while the client and   *)
(* the host are there, also one whose start is refused, unless a voice     *)
(* turn has taken its place as the active one before that.                 *)
Overtaken == faults > 0 /\ \E v \in Voices : turn[v] # "none"

TextTurnsAreAnswered ==
  connected /\ main \in {"serve", "quit"} => \A t \in Texts :
    Ended(t) => \/ Answered(t)
                \/ interruption[t] \notin {"idle", "done"}
                \/ fallback[t] = "yield"
                \/ Overtaken
=============================================================================
