--------------------------- MODULE DesktopHostProofs ---------------------------
(***************************************************************************)
(* Proofs about DesktopHost, for every set of turns and any number of      *)
(* refused events. TLC checks the same formulas on small instances.        *)
(***************************************************************************)
EXTENDS DesktopHost, TLAPS

USE TurnsAssumption, BoundsAssumption DEF Turns

-----------------------------------------------------------------------------
(* Types                                                                   *)
Names == {"Started", "Interrupted", "Completed", "Failed"}

Events ==
  [turn : Turns, event : {"Started", "Completed", "Failed"}, by : {"task"}]
    \cup [turn : Turns, event : {"Interrupted", "Completed", "Failed"}, by : {"interruption"}]

TypeInv ==
  /\ active \in Turns \cup {None}
  /\ fallback \in [Turns -> {"none", "yield", "told", "done"}]
  /\ main \in {"connect", "serve", "quit", "cancelTurn", "stopVoice", "stopped"}
  /\ connected \in BOOLEAN /\ mic \in BOOLEAN
  /\ shown \in [Turns -> Seq(Names)]
  /\ turn \in [Turns -> {"none", "queued", "starting", "running", "ending", "done", "stranded"}]
  /\ interruption \in [Turns -> {"idle", "stopping", "noticing", "settling", "ending", "done"}]
  /\ cancelled \subseteq Turns
  /\ bus \in Seq(Events) /\ head \in {"queued", "told"}
  /\ faults \in Nat

(* The client and the host are there. A client connects once.              *)
Live == connected /\ main \in {"serve", "quit"}

VoiceBegan == \E v \in Voices : turn[v] # "none"

(* Before the client nothing happens.                                      *)
QuietInv ==
  /\ connected => main # "connect"
  /\ main = "connect" =>
       /\ ~mic /\ bus = <<>> /\ head = "queued" /\ cancelled = {} /\ cur = None
       /\ \A t \in Turns : /\ turn[t] = "none" /\ interruption[t] = "idle"
                           /\ fallback[t] = "none" /\ shown[t] = <<>>

(* What has not begun has no events, no failure and no interruption; the   *)
(* client may cancel a text turn only when it has begun.                   *)
NewInv ==
  /\ \A t \in Turns : turn[t] \in {"none", "queued"} =>
       /\ \A i \in 1..Len(bus) : bus[i].turn # t
       /\ interruption[t] = "idle" /\ fallback[t] = "none" /\ ~Answered(t)
       /\ t \in Texts => t \notin cancelled

(* A start on the bus is its turn's first event.                           *)
StartInv ==
  \A i \in 1..Len(bus) : bus[i].event = "Started" /\ (i # 1 \/ head = "queued") =>
    /\ turn[bus[i].turn] = "starting" /\ fallback[bus[i].turn] = "none"
    /\ ~Answered(bus[i].turn)
    /\ \A j \in 1..(i - 1) : bus[j].turn # bus[i].turn

(* Where the client has been told.                                         *)
ToldInv ==
  /\ head = "told" => /\ bus # <<>>
                      /\ bus[1].event \in Terminals => Answered(bus[1].turn)
  /\ \A t \in Turns : fallback[t] = "told" => Answered(t)
  /\ faults = 0 => \A t \in Turns : interruption[t] = "done" => Answered(t)

(* Only a voice turn takes the place of a text turn.                       *)
ActiveInv ==
  \A t \in Texts : turn[t] # "none" => active = t \/ Answered(t) \/ VoiceBegan

EndInv ==
  \A t \in Texts : Ended(t) =>
    /\ Answered(t) \/ fallback[t] = "yield" \/ VoiceBegan
    /\ faults = 0 => Answered(t) \/ interruption[t] \notin {"idle", "done"}

HostInv == Live => NewInv /\ StartInv /\ ToldInv /\ ActiveInv /\ EndInv

-----------------------------------------------------------------------------
(* Sequences                                                               *)
LEMMA AppendTo ==
  ASSUME NEW E, NEW s \in Seq(E), NEW e \in E
  PROVE  /\ Append(s, e) \in Seq(E) /\ Append(s, e) # <<>>
         /\ Len(s) \in Nat /\ Len(Append(s, e)) = Len(s) + 1
         /\ \A i \in 1..Len(s) : Append(s, e)[i] = s[i]
         /\ Append(s, e)[Len(s) + 1] = e
         /\ DOMAIN s = 1..Len(s) /\ DOMAIN Append(s, e) = 1..(Len(s) + 1)
OBVIOUS

LEMMA TailOf ==
  ASSUME NEW E, NEW s \in Seq(E), s # <<>>
  PROVE  /\ Tail(s) \in Seq(E) /\ s[1] \in E
         /\ Len(s) \in Nat /\ Len(s) >= 1 /\ Len(Tail(s)) = Len(s) - 1
         /\ \A i \in 1..(Len(s) - 1) : Tail(s)[i] = s[i + 1]
OBVIOUS

(* Names that are told and events that are published.                      *)
LEMMA EventFields ==
  \A e \in Events :
    /\ e.turn \in Turns /\ e.event \in Names /\ e.by \in {"task", "interruption"}
    /\ e.by = "task" => e.event # "Interrupted"
    /\ e.by = "interruption" => e.event # "Started"
    /\ [e EXCEPT !.event = "Failed"] \in Events
    /\ [e EXCEPT !.event = "Failed"].turn = e.turn
    /\ [e EXCEPT !.event = "Failed"].event = "Failed"
BY DEF Events, Names

LEMMA Types ==
  TypeInv => /\ \A i \in 1..Len(bus) : bus[i] \in Events /\ bus[i].turn \in Turns
             /\ Len(bus) \in Nat /\ (bus # <<>> => Len(bus) >= 1 /\ First \in Events)
<1> SUFFICES ASSUME TypeInv PROVE /\ \A i \in 1..Len(bus) : bus[i] \in Events /\ bus[i].turn \in Turns
                                  /\ Len(bus) \in Nat /\ (bus # <<>> => Len(bus) >= 1 /\ First \in Events)
  OBVIOUS
<1>1. bus \in Seq(Events)
  BY DEF TypeInv
<1>2. \A i \in 1..Len(bus) : bus[i] \in Events
  BY <1>1
<1>3. Len(bus) \in Nat /\ (bus # <<>> => Len(bus) >= 1)
  BY <1>1
<1>4. bus # <<>> => First \in Events
  BY <1>2, <1>3 DEF First
<1>. QED  BY <1>2, <1>3, <1>4, EventFields

LEMMA TypeInit == Init => TypeInv
<1> SUFFICES ASSUME Init PROVE TypeInv
  OBVIOUS
<1>1. shown \in [Turns -> Seq(Names)] /\ bus \in Seq(Events)
  BY DEF Init
<1>. QED  BY <1>1 DEF Init, TypeInv

(* What is told stays told.                                                *)
LEMMA TellShows ==
  ASSUME TypeInv, NEW t \in Turns, NEW e \in Names, Tell(t, e)
  PROVE  /\ shown' \in [Turns -> Seq(Names)]
         /\ \A s \in Turns : Answered(s) => Answered(s)'
         /\ \A s \in Turns : s # t \/ e \notin Terminals => (Answered(s)' => Answered(s))
         /\ connected /\ e \in Terminals => Answered(t)'
<1>1. shown \in [Turns -> Seq(Names)] /\ shown[t] \in Seq(Names)
  BY DEF TypeInv
<1>2. CASE ~connected
  BY <1>1, <1>2 DEF Tell, Answered
<1>3. CASE connected
  <2>1. shown' = [shown EXCEPT ![t] = Append(@, e)]
    BY <1>3 DEF Tell
  <2>2. /\ Append(shown[t], e) \in Seq(Names)
        /\ Len(shown[t]) \in Nat
        /\ DOMAIN shown[t] = 1..Len(shown[t])
        /\ DOMAIN Append(shown[t], e) = 1..(Len(shown[t]) + 1)
        /\ \A i \in 1..Len(shown[t]) : Append(shown[t], e)[i] = shown[t][i]
        /\ Append(shown[t], e)[Len(shown[t]) + 1] = e
    BY <1>1, AppendTo
  <2>3. shown' \in [Turns -> Seq(Names)] /\ shown'[t] = Append(shown[t], e)
    BY <1>1, <2>1, <2>2
  <2>4. \A s \in Turns \ {t} : shown'[s] = shown[s]
    BY <1>1, <2>1
  <2>5. Answered(t) => Answered(t)'
    BY <2>2, <2>3 DEF Answered
  <2>6. e \notin Terminals => (Answered(t)' => Answered(t))
    <3> SUFFICES ASSUME e \notin Terminals, Answered(t)' PROVE Answered(t)
      OBVIOUS
    <3>1. PICK i \in 1..(Len(shown[t]) + 1) : Append(shown[t], e)[i] \in Terminals
      BY <2>2, <2>3 DEF Answered
    <3>2. i # Len(shown[t]) + 1
      BY <2>2, <3>1
    <3>3. i \in 1..Len(shown[t])
      BY <2>2, <3>2
    <3>. QED  BY <2>2, <3>1, <3>3 DEF Answered
  <2>7. e \in Terminals => Answered(t)'
    <3>1. Len(shown[t]) + 1 \in DOMAIN shown'[t]
      BY <2>2, <2>3
    <3>. QED  BY <2>2, <2>3, <3>1 DEF Answered
  <2>8. \A s \in Turns \ {t} : Answered(s)' <=> Answered(s)
    BY <2>4 DEF Answered
  <2>. QED  BY <2>3, <2>5, <2>6, <2>7, <2>8
<1>. QED  BY <1>2, <1>3

LEMMA TypeNext == TypeInv /\ [Next]_vars => TypeInv'
<1> SUFFICES ASSUME TypeInv, [Next]_vars PROVE TypeInv'
  OBVIOUS
<1>. USE DEF belief, service, pipeline, ledger
<1>0. \A t \in Turns, e \in {"Started", "Completed", "Failed"} :
        Publish(t, e, "task") => bus' \in Seq(Events)
  <2> SUFFICES ASSUME NEW t \in Turns, NEW e \in {"Started", "Completed", "Failed"},
                      Publish(t, e, "task")
               PROVE  bus' \in Seq(Events)
    OBVIOUS
  <2>1. [turn |-> t, event |-> e, by |-> "task"] \in Events
    BY DEF Events
  <2>2. bus \in Seq(Events)
    BY DEF TypeInv
  <2>. QED  BY <2>1, <2>2, AppendTo DEF Publish
<1>1. \A t \in Turns, e \in {"Interrupted", "Completed", "Failed"} :
        Publish(t, e, "interruption") => bus' \in Seq(Events)
  <2> SUFFICES ASSUME NEW t \in Turns, NEW e \in {"Interrupted", "Completed", "Failed"},
                      Publish(t, e, "interruption")
               PROVE  bus' \in Seq(Events)
    OBVIOUS
  <2>1. [turn |-> t, event |-> e, by |-> "interruption"] \in Events
    BY DEF Events
  <2>2. bus \in Seq(Events)
    BY DEF TypeInv
  <2>. QED  BY <2>1, <2>2, AppendTo DEF Publish
<1>2. CASE Connect \/ NotConnected \/ Quit \/ StartVoice
  BY <1>2 DEF TypeInv, Connect, NotConnected, Quit, StartVoice
<1>3. CASE Cleanup \/ StopServer
  BY <1>3 DEF TypeInv, Cleanup, UnderWay, StopServer
<1>4. CASE StopVoice \/ Disconnect \/ StopVoiceRequest
  <2>1. cancelled' \subseteq Turns
    BY <1>4 DEF TypeInv, StopVoice, Disconnect, StopVoiceRequest, CancelVoice, UnderWay
  <2>. QED  BY <1>4, <2>1 DEF TypeInv, StopVoice, Disconnect, StopVoiceRequest
<1>5. ASSUME NEW t \in Texts, SendConversation(t) \/ CancelConversation(t) PROVE TypeInv'
  BY <1>5 DEF TypeInv, SendConversation, CancelConversation
<1>6. ASSUME NEW t \in Turns, Speak(t) \/ Interrupt(t) \/ TaskLeaves(t) PROVE TypeInv'
  BY <1>6 DEF TypeInv, Speak, Interrupt, TaskLeaves, TaskDone
<1>7. ASSUME NEW t \in Turns, Begin(t) \/ Finish(t) PROVE TypeInv'
  <2>1. bus' \in Seq(Events)
    BY <1>0, <1>7 DEF Begin, Finish, Terminals
  <2>. QED  BY <1>7, <2>1 DEF TypeInv, Begin, Finish
<1>8. ASSUME NEW t \in Turns, Settle(t) PROVE TypeInv'
  <2>1. bus' \in Seq(Events)
    BY <1>1, <1>8 DEF Settle, Terminals
  <2>. QED  BY <1>8, <2>1 DEF TypeInv, Settle
<1>9. ASSUME NEW t \in Turns, Fallback(t) PROVE TypeInv'
  <2>1. shown' \in [Turns -> Seq(Names)]
    BY <1>9, TellShows DEF TypeInv, Fallback, Names
  <2>. QED  BY <1>9, <2>1 DEF TypeInv, Fallback, FinishActive
<1>10. CASE Record
  <2>1. First.turn \in Turns /\ First.event \in Names
    BY <1>10, Types, EventFields DEF Record
  <2>2. shown' \in [Turns -> Seq(Names)]
    BY <1>10, <2>1, TellShows DEF Record
  <2>. QED  BY <1>10, <2>1, <2>2 DEF TypeInv, Record
<1>11. CASE Handled
  <2>1. First.turn \in Turns /\ bus' \in Seq(Events)
    BY <1>11, Types, EventFields, TailOf DEF Handled, TypeInv
  <2>. QED  BY <1>11, <2>1 DEF TypeInv, Handled, FinishActive
<1>12. CASE Refuse
  <2>1. First \in Events /\ First.turn \in Turns /\ Tail(bus) \in Seq(Events)
    BY <1>12, Types, EventFields, TailOf DEF Refuse, TypeInv
  <2>2. bus' \in Seq(Events)
    BY <1>12, <2>1, EventFields, AppendTo DEF Refuse
  <2>3. turn' \in [Turns -> {"none", "queued", "starting", "running", "ending", "done", "stranded"}]
    BY <1>12, <2>1 DEF TypeInv, Refuse, TaskDone
  <2>4. interruption' \in [Turns -> {"idle", "stopping", "noticing", "settling", "ending", "done"}]
    BY <1>12, <2>1 DEF TypeInv, Refuse
  <2>5. fallback' \in [Turns -> {"none", "yield", "told", "done"}]
    BY <1>12, <2>1 DEF TypeInv, Refuse, TaskDone
  <2>. QED  BY <1>12, <2>2, <2>3, <2>4, <2>5 DEF TypeInv, Refuse
<1>13. CASE UNCHANGED vars
  BY <1>13 DEF TypeInv, vars
<1>. QED  BY <1>2, <1>3, <1>4, <1>5, <1>6, <1>7, <1>8, <1>9, <1>10, <1>11, <1>12, <1>13
     DEF Next, HostStep, Client, User

-----------------------------------------------------------------------------
(* Steps                                                                   *)

(* Once there is a client, there was one before, or it connects.           *)
LEMMA LiveStep == QuietInv /\ Live' /\ [Next]_vars => Live \/ Connect
<1>. USE DEF belief, service, pipeline, ledger, Live, QuietInv
<1>1. ASSUME Live', HostStep PROVE Live
  BY <1>1 DEF HostStep, Cleanup, StopVoice, StopServer, Record, Handled, Begin, TaskLeaves,
     Finish, Settle, Fallback
<1>2. ASSUME QuietInv, Live', Client PROVE Live \/ Connect
  BY <1>2 DEF Client, NotConnected, Quit, Disconnect, StartVoice, StopVoiceRequest,
     SendConversation, CancelConversation
<1>3. ASSUME Live', User \/ Refuse \/ UNCHANGED vars PROVE Live
  BY <1>3 DEF User, Speak, Interrupt, Refuse, vars
<1>. QED  BY <1>1, <1>2, <1>3 DEF Next

(* A handled event moves its turn or the interruption of its turn.         *)
LEMMA HandledMoves ==
  ASSUME TypeInv, Handled
  PROVE  /\ bus # <<>> /\ head = "told" /\ head' = "queued" /\ bus' = Tail(bus)
         /\ First \in Events /\ First.turn \in Turns
         /\ UNCHANGED <<fallback, main, mic, connected, shown, cur, cancelled, faults>>
         /\ \A s \in Turns : turn'[s] = turn[s] \/ (s = First.turn /\ turn'[s] \in {"running", "done"})
         /\ \A s \in Turns : turn'[s] = "done" =>
              turn[s] = "done" \/ (s = First.turn /\ First.event \in Terminals)
         /\ \A s \in Turns :
              \/ interruption'[s] = interruption[s]
              \/ s = First.turn /\ interruption'[s] \in {"settling", "done"}
         /\ \A s \in Turns : interruption'[s] = "done" =>
              interruption[s] = "done" \/ (s = First.turn /\ First.event \in Terminals)
         /\ active' = active \/ (First.event \in Terminals /\ active = First.turn)
<1>. USE DEF belief, service, pipeline, ledger
<1>1. bus # <<>> /\ First \in Events /\ First.turn \in Turns /\ First.event \in Names
  BY Types, EventFields DEF Handled
<1>2. /\ First.by = "task" => First.event # "Interrupted"
      /\ First.by = "interruption" => First.event # "Started"
      /\ First.by \in {"task", "interruption"}
  BY <1>1, EventFields
<1>3. /\ First.event \in Names \ {"Interrupted", "Started"} => First.event \in Terminals
      /\ First.event \notin Terminals => UNCHANGED belief
      /\ First.event \in Terminals => FinishActive(First.turn)
  BY DEF Names, Terminals, Handled
<1>4. CASE First.by = "interruption"
  <2>1. /\ interruption' = [interruption EXCEPT ![First.turn] =
                              IF First.event = "Interrupted" THEN "settling" ELSE "done"]
        /\ turn' = turn
    BY <1>4 DEF Handled
  <2>2. \A s \in Turns : interruption'[s] = IF s = First.turn
                                            THEN IF First.event = "Interrupted" THEN "settling" ELSE "done"
                                            ELSE interruption[s]
    BY <2>1 DEF TypeInv
  <2>. QED  BY <1>1, <1>2, <1>3, <1>4, <2>1, <2>2 DEF Handled, FinishActive
<1>5. CASE First.by = "task"
  <2>1. /\ turn' = [turn EXCEPT ![First.turn] =
                       IF First.event = "Started" THEN "running" ELSE "done"]
        /\ interruption' = interruption
    BY <1>5 DEF Handled
  <2>2. \A s \in Turns : turn'[s] = IF s = First.turn
                                    THEN IF First.event = "Started" THEN "running" ELSE "done"
                                    ELSE turn[s]
    BY <2>1 DEF TypeInv
  <2>. QED  BY <1>1, <1>2, <1>3, <1>5, <2>1, <2>2 DEF Handled, FinishActive
<1>. QED  BY <1>2, <1>4, <1>5

(* A refused event is replaced by a failure, or ends its task or its       *)
(* interruption; the failure of the host follows a text turn's task.       *)
LEMMA RefuseMoves ==
  ASSUME TypeInv, Refuse
  PROVE  /\ bus # <<>> /\ head = "queued" /\ faults' = faults + 1
         /\ First \in Events /\ First.turn \in Turns
         /\ UNCHANGED <<active, main, mic, connected, shown, cur, cancelled, head>>
         /\ bus' = Tail(bus) \/ bus' = Append(Tail(bus), [First EXCEPT !.event = "Failed"])
         /\ \A s \in Turns \ {First.turn} :
              turn'[s] = turn[s] /\ fallback'[s] = fallback[s] /\ interruption'[s] = interruption[s]
         /\ \/ turn'[First.turn] = turn[First.turn] /\ fallback'[First.turn] = fallback[First.turn]
            \/ /\ turn'[First.turn] \in {"done", "stranded"}
               /\ First.turn \in Texts /\ active = First.turn => fallback'[First.turn] = "yield"
               /\ fallback'[First.turn] \in {"yield", fallback[First.turn]}
<1>. USE DEF belief, service, pipeline, ledger
<1>1. bus # <<>> /\ First \in Events /\ First.turn \in Turns
  BY Types, EventFields DEF Refuse
<1>2. CASE First.event \in {"Completed", "Interrupted"} \/ First.by = "interruption"
  <2>1. turn' = turn /\ fallback' = fallback
    BY <1>2 DEF Refuse
  <2>2. \A s \in Turns \ {First.turn} : interruption'[s] = interruption[s]
    BY <1>2 DEF Refuse, TypeInv
  <2>. QED  BY <1>1, <2>1, <2>2 DEF Refuse
<1>3. CASE ~(First.event \in {"Completed", "Interrupted"} \/ First.by = "interruption")
  <2>1. /\ TaskDone(First.turn, IF First.event = "Started" THEN "stranded" ELSE "done")
        /\ interruption' = interruption /\ bus' = Tail(bus)
    BY <1>3 DEF Refuse
  <2>2. /\ turn'[First.turn] \in {"done", "stranded"}
        /\ \A s \in Turns \ {First.turn} : turn'[s] = turn[s] /\ fallback'[s] = fallback[s]
        /\ First.turn \in Texts /\ active = First.turn => fallback'[First.turn] = "yield"
        /\ fallback'[First.turn] \in {"yield", fallback[First.turn]}
    BY <1>1, <2>1 DEF TaskDone, TypeInv
  <2>. QED  BY <1>1, <2>1, <2>2 DEF Refuse
<1>. QED  BY <1>2, <1>3

(* Nothing that was told, refused or begun is taken back.                  *)
LEMMA Monotone ==
  ASSUME TypeInv, [Next]_vars
  PROVE  /\ \A t \in Turns : Answered(t) => Answered(t)'
         /\ \A t \in Turns : turn[t] # "none" => turn'[t] # "none"
         /\ VoiceBegan => VoiceBegan'
         /\ faults' = 0 => faults = 0
<1>. USE DEF belief, service, pipeline, ledger
<1>1. \A t \in Turns : Answered(t) => Answered(t)'
  <2>1. CASE Record
    <3>1. First.turn \in Turns /\ First.event \in Names
      BY <2>1, Types, EventFields DEF Record
    <3>. QED  BY <2>1, <3>1, TellShows DEF Record
  <2>2. ASSUME NEW t \in Turns, Fallback(t) PROVE \A s \in Turns : Answered(s) => Answered(s)'
    <3>1. shown' = shown \/ Tell(t, "Failed")
      BY <2>2 DEF Fallback
    <3>. QED  BY <3>1, TellShows DEF Names, Answered
  <2>3. CASE shown' = shown
    BY <2>3 DEF Answered
  <2>4. ASSUME ~Record, \A t \in Turns : ~Fallback(t) PROVE shown' = shown
    <3>1. HostStep => shown' = shown
      BY <2>4 DEF HostStep, Cleanup, StopVoice, StopServer, Handled, Begin, TaskLeaves, Finish, Settle
    <3>2. Client => shown' = shown
      BY DEF Client, Connect, NotConnected, Quit, Disconnect, StartVoice, StopVoiceRequest,
         SendConversation, CancelConversation
    <3>. QED  BY <3>1, <3>2 DEF Next, User, Speak, Interrupt, Refuse, vars
  <2>. QED  BY <2>1, <2>2, <2>3, <2>4
<1>2. \A t \in Turns : turn[t] # "none" => turn'[t] # "none"
  <2>1. CASE Handled \/ Refuse
    BY <2>1, HandledMoves, RefuseMoves
  <2>2. ASSUME NEW s \in Turns,
               Begin(s) \/ TaskLeaves(s) \/ Finish(s) \/ Settle(s) \/ Fallback(s) \/ Speak(s)
               \/ Interrupt(s)
                 \/ SendConversation(s) \/ CancelConversation(s)
        PROVE  \A t \in Turns : turn[t] # "none" => turn'[t] # "none"
    BY <2>2 DEF TypeInv, Begin, TaskLeaves, TaskDone, Finish, Settle, Fallback, Speak, Interrupt,
       SendConversation, CancelConversation
  <2>3. CASE Cleanup \/ StopVoice \/ StopServer \/ Record \/ Connect \/ NotConnected \/ Quit \/ Disconnect
             \/ StartVoice \/ StopVoiceRequest \/ UNCHANGED vars
    BY <2>3 DEF Cleanup, StopVoice, StopServer, Record, Connect, NotConnected, Quit, Disconnect,
       StartVoice, StopVoiceRequest, vars
  <2>. QED  BY <2>1, <2>2, <2>3 DEF Next, HostStep, Client, User
<1>3. faults' = 0 => faults = 0
  <2>1. Refuse => faults' # 0
    BY DEF Refuse, TypeInv
  <2>2. HostStep => faults' = faults
    BY DEF HostStep, Cleanup, StopVoice, StopServer, Record, Handled, Begin, TaskLeaves, Finish,
       Settle, Fallback
  <2>3. Client => faults' = faults
    BY DEF Client, Connect, NotConnected, Quit, Disconnect, StartVoice, StopVoiceRequest,
       SendConversation, CancelConversation
  <2>. QED  BY <2>1, <2>2, <2>3 DEF Next, User, Speak, Interrupt, vars
<1>. QED  BY <1>1, <1>2, <1>3 DEF VoiceBegan

(* What happens while the client and the host are there.                   *)
LiveTurnStep(t) ==
  \/ Begin(t) \/ TaskLeaves(t) \/ Finish(t) \/ Settle(t) \/ Fallback(t) \/ Interrupt(t)
  \/ t \in Texts /\ (SendConversation(t) \/ CancelConversation(t))
  \/ t \in Voices /\ Speak(t)

LiveNext ==
  \/ Record \/ Handled \/ Refuse
  \/ \E t \in Turns : LiveTurnStep(t)
  \/ StopVoiceRequest
  \/ UNCHANGED <<active, fallback, connected, shown, pipeline, ledger>>

LEMMA LiveSteps == Live /\ Live' /\ [Next]_vars => LiveNext
BY DEF Live, LiveNext, LiveTurnStep, Next, HostStep, Client, User, vars, belief, service, pipeline, ledger,
   Connect, NotConnected, Quit, Cleanup, StopVoice, StopServer, Disconnect, StartVoice

LEMMA PublishAppends ==
  ASSUME TypeInv, NEW t, NEW e, NEW b, Publish(t, e, b)
  PROVE  /\ Len(bus) \in Nat /\ Len(bus') = Len(bus) + 1 /\ bus' # <<>>
         /\ \A i \in 1..Len(bus) : bus'[i] = bus[i]
         /\ bus'[Len(bus) + 1].turn = t /\ bus'[Len(bus) + 1].event = e
         /\ bus # <<>> => bus'[1] = bus[1]
<1>. DEFINE rec == [turn |-> t, event |-> e, by |-> b]
<1>1. bus \in Seq(Events) /\ bus' = Append(bus, rec)
  BY DEF TypeInv, Publish
<1>2. rec.turn = t /\ rec.event = e
  OBVIOUS
<1>. HIDE DEF rec
<1>3. bus' # <<>> /\ Len(bus) \in Nat /\ Len(bus') = Len(bus) + 1 /\ bus'[Len(bus) + 1] = rec
  BY <1>1
<1>4. \A i \in 1..Len(bus) : bus'[i] = bus[i]
  BY <1>1
<1>5. bus # <<>> => 1 \in 1..Len(bus)
  BY <1>1
<1>. QED  BY <1>2, <1>3, <1>4, <1>5

(* The first event leaves the bus; a failure of its turn may come last.    *)
LEMMA BusMoves ==
  ASSUME TypeInv, Handled \/ Refuse
  PROVE  /\ Len(bus) \in Nat /\ Len(bus) >= 1 /\ Len(bus') \in Nat
         /\ \A i \in 1..Len(bus') :
              \/ i < Len(bus) /\ bus'[i] = bus[i + 1]
              \/ i = Len(bus) /\ bus'[i].turn = First.turn /\ bus'[i].event = "Failed"
<1>1. bus \in Seq(Events) /\ bus # <<>> /\ First \in Events
  BY HandledMoves, RefuseMoves DEF TypeInv
<1>2. /\ Tail(bus) \in Seq(Events) /\ Len(bus) \in Nat /\ Len(bus) >= 1 /\ Len(Tail(bus)) = Len(bus) - 1
      /\ \A i \in 1..(Len(bus) - 1) : Tail(bus)[i] = bus[i + 1]
  BY <1>1, TailOf
<1>3. CASE bus' = Tail(bus)
  <2>1. Len(bus') = Len(bus) - 1 /\ \A i \in 1..(Len(bus) - 1) : bus'[i] = bus[i + 1]
    BY <1>2, <1>3
  <2>2. \A i \in 1..Len(bus') : i < Len(bus) /\ bus'[i] = bus[i + 1]
    BY <1>2, <2>1
  <2>3. Len(bus) \in Nat /\ Len(bus) >= 1
    BY <1>2
  <2>4. Len(bus') \in Nat
    BY <2>1, <2>3
  <2>. QED  BY <2>2, <2>3, <2>4
<1>4. CASE bus' = Append(Tail(bus), [First EXCEPT !.event = "Failed"])
  <2>1. PICK f : f = [First EXCEPT !.event = "Failed"]
    OBVIOUS
  <2>2. f \in Events /\ f.turn = First.turn /\ f.event = "Failed"
    BY <1>1, <2>1, EventFields
  <2>3. /\ Len(bus') = Len(Tail(bus)) + 1
        /\ \A i \in 1..Len(Tail(bus)) : bus'[i] = Tail(bus)[i]
        /\ bus'[Len(Tail(bus)) + 1] = f
    BY <1>2, <1>4, <2>1, <2>2, AppendTo
  <2>. QED  BY <1>2, <2>2, <2>3
<1>. QED  BY <1>3, <1>4, HandledMoves, RefuseMoves

-----------------------------------------------------------------------------
(* What has not begun                                                      *)
LEMMA NewNext == TypeInv /\ NewInv /\ LiveNext /\ connected => NewInv'
<1> SUFFICES ASSUME TypeInv, NewInv, LiveNext, connected, NEW t \in Turns, turn'[t] \in {"none", "queued"}
             PROVE  /\ \A i \in 1..Len(bus') : bus'[i].turn # t
                    /\ interruption'[t] = "idle" /\ fallback'[t] = "none" /\ ~Answered(t)'
                    /\ t \in Texts => t \notin cancelled'
  BY DEF NewInv
<1>. USE DEF belief, service, pipeline, ledger
<1>. DEFINE Fresh == /\ \A i \in 1..Len(bus) : bus[i].turn # t
                     /\ interruption[t] = "idle" /\ fallback[t] = "none" /\ ~Answered(t)
                     /\ t \in Texts => t \notin cancelled
<1>0. turn[t] \in {"none", "queued"} => Fresh
  BY DEF NewInv
<1>. HIDE DEF Fresh
<1>1. CASE Record
  <2>1. turn[t] \in {"none", "queued"} /\ UNCHANGED <<interruption, fallback, cancelled, bus>> /\ bus # <<>>
    BY <1>1 DEF Record
  <2>2. Fresh
    BY <1>0, <2>1
  <2>3. First.turn # t /\ First.turn \in Turns /\ First.event \in Names
    <3>1. 1 \in 1..Len(bus) /\ First \in Events
      BY <2>1, Types
    <3>. QED  BY <2>2, <3>1, EventFields DEF Fresh, First
  <2>4. ~Answered(t)'
    BY <1>1, <2>2, <2>3, TellShows DEF Record, Fresh
  <2>. QED  BY <2>1, <2>2, <2>4 DEF Fresh
<1>2. CASE Handled \/ Refuse
  <2>1. First.turn \in Turns /\ turn[t] \in {"none", "queued"} /\ UNCHANGED <<shown, cancelled>>
    BY <1>2, HandledMoves, RefuseMoves
  <2>2. Fresh
    BY <1>0, <2>1
  <2>3. bus[1].turn # t
    BY <1>2, <2>2, BusMoves DEF Fresh
  <2>4. interruption'[t] = interruption[t] /\ fallback'[t] = fallback[t]
    BY <1>2, <2>3, HandledMoves, RefuseMoves DEF First
  <2>5. \A i \in 1..Len(bus') : bus'[i].turn # t
    BY <1>2, <2>2, <2>3, BusMoves DEF Fresh, First
  <2>. QED  BY <2>1, <2>2, <2>4, <2>5 DEF Fresh, Answered
<1>3. ASSUME NEW s \in Turns, Begin(s) \/ Finish(s)
      PROVE  Fresh'
  <2>1. s # t /\ turn[t] \in {"none", "queued"} /\ UNCHANGED <<shown, interruption, fallback, cancelled>>
    BY <1>3 DEF Begin, Finish, TypeInv
  <2>2. Fresh
    BY <1>0, <2>1
  <2>3. \A i \in 1..Len(bus') : bus'[i].turn # t
    <3>1. PICK e : Publish(s, e, "task")
      BY <1>3 DEF Begin, Finish
    <3>. QED  BY <2>1, <2>2, <3>1, PublishAppends DEF Fresh
  <2>. QED  BY <2>1, <2>2, <2>3 DEF Fresh, Answered
<1>4. ASSUME NEW s \in Turns, Settle(s) PROVE Fresh'
  <2>1. turn' = turn /\ interruption[s] # "idle" /\ UNCHANGED <<shown, fallback, cancelled>>
    BY <1>4 DEF Settle
  <2>2. Fresh
    BY <1>0, <2>1
  <2>3. s # t /\ interruption'[t] = interruption[t]
    BY <1>4, <2>1, <2>2 DEF Fresh, Settle, TypeInv
  <2>4. \A i \in 1..Len(bus') : bus'[i].turn # t
    <3>1. PICK e : Publish(s, e, "interruption")
      BY <1>4 DEF Settle
    <3>. QED  BY <2>2, <2>3, <3>1, PublishAppends DEF Fresh
  <2>. QED  BY <2>1, <2>2, <2>3, <2>4 DEF Fresh, Answered
<1>5. ASSUME NEW s \in Turns, Fallback(s) PROVE Fresh'
  <2>1. turn' = turn /\ fallback[s] # "none" /\ UNCHANGED <<interruption, cancelled, bus>>
    BY <1>5 DEF Fallback
  <2>2. Fresh
    BY <1>0, <2>1
  <2>3. s # t /\ fallback'[t] = fallback[t]
    BY <1>5, <2>1, <2>2 DEF Fresh, Fallback, TypeInv
  <2>4. shown' = shown \/ Tell(s, "Failed")
    BY <1>5 DEF Fallback
  <2>5. ~Answered(t)'
    <3>1. CASE shown' = shown
      BY <2>2, <3>1 DEF Fresh, Answered
    <3>. QED  BY <2>2, <2>3, <2>4, <3>1, TellShows DEF Fresh, Names
  <2>. QED  BY <2>1, <2>2, <2>3, <2>5 DEF Fresh
<1>6. ASSUME NEW s \in Turns, TaskLeaves(s) PROVE Fresh'
  <2>1. s # t /\ turn[t] \in {"none", "queued"} /\ fallback'[t] = fallback[t]
        /\ UNCHANGED <<shown, interruption, cancelled, bus>>
    BY <1>6 DEF TaskLeaves, TaskDone, TypeInv
  <2>2. Fresh
    BY <1>0, <2>1
  <2>. QED  BY <2>1, <2>2 DEF Fresh, Answered
<1>7. ASSUME NEW s \in Turns, Interrupt(s) \/ CancelConversation(s) PROVE Fresh'
  <2>1. turn' = turn /\ turn[s] \in {"starting", "running", "stranded"}
        /\ UNCHANGED <<shown, fallback, bus>>
    BY <1>7 DEF Interrupt, CancelConversation, IsActive
  <2>2. Fresh /\ s # t
    BY <1>0, <2>1
  <2>3. interruption'[t] = interruption[t] /\ (t \notin cancelled => t \notin cancelled')
    BY <1>7, <2>2 DEF Interrupt, CancelConversation, TypeInv
  <2>. QED  BY <2>1, <2>2, <2>3 DEF Fresh, Answered
<1>8. ASSUME NEW s \in Turns, SendConversation(s) \/ Speak(s) PROVE Fresh'
  <2>1. turn[t] \in {"none", "queued"} /\ UNCHANGED <<shown, interruption, fallback, cancelled, bus>>
    BY <1>8 DEF SendConversation, Speak, TypeInv
  <2>2. Fresh
    BY <1>0, <2>1
  <2>. QED  BY <2>1, <2>2 DEF Fresh, Answered
<1>9. CASE StopVoiceRequest
  <2>1. turn' = turn /\ UNCHANGED <<shown, interruption, fallback, bus>>
    BY <1>9 DEF StopVoiceRequest
  <2>2. Fresh
    BY <1>0, <2>1
  <2>3. t \in Texts /\ t \notin cancelled => t \notin cancelled'
    BY <1>9 DEF StopVoiceRequest, CancelVoice, UnderWay
  <2>. QED  BY <2>1, <2>2, <2>3 DEF Fresh, Answered
<1>10. CASE UNCHANGED <<active, fallback, connected, shown, pipeline, ledger>>
  BY <1>0, <1>10 DEF Fresh, Answered
<1>11. Fresh' => /\ \A i \in 1..Len(bus') : bus'[i].turn # t
                 /\ interruption'[t] = "idle" /\ fallback'[t] = "none" /\ ~Answered(t)'
                 /\ t \in Texts => t \notin cancelled'
  BY DEF Fresh
<1>. QED  BY <1>1, <1>2, <1>3, <1>4, <1>5, <1>6, <1>7, <1>8, <1>9, <1>10, <1>11 DEF LiveNext, LiveTurnStep

-----------------------------------------------------------------------------
(* The start is a turn's first event                                       *)
LEMMA StartingKeeps ==
  ASSUME TypeInv, LiveNext, NEW s \in Turns,
         turn[s] = "starting", fallback[s] = "none", ~Answered(s),
         Record \/ Handled \/ Refuse => First.turn # s
  PROVE  turn'[s] = "starting" /\ fallback'[s] = "none" /\ ~Answered(s)'
<1>. USE DEF belief, service, pipeline, ledger
<1>1. CASE Record
  <2>1. First.turn \in Turns /\ First.event \in Names
    BY <1>1, Types, EventFields DEF Record
  <2>. QED  BY <1>1, <2>1, TellShows DEF Record
<1>2. CASE Handled \/ Refuse
  <2>1. turn'[s] = turn[s] /\ fallback'[s] = fallback[s] /\ shown' = shown
    BY <1>2, HandledMoves, RefuseMoves
  <2>. QED  BY <2>1 DEF Answered
<1>3. ASSUME NEW t \in Turns, Begin(t) \/ TaskLeaves(t) \/ Finish(t) \/ SendConversation(t) \/ Speak(t)
      PROVE  turn'[s] = "starting" /\ fallback'[s] = "none" /\ shown' = shown
  BY <1>3 DEF TypeInv, Begin, TaskLeaves, TaskDone, Finish, SendConversation, Speak
<1>4. ASSUME NEW t \in Turns, Settle(t) \/ Interrupt(t) \/ CancelConversation(t)
      PROVE  turn' = turn /\ fallback' = fallback /\ shown' = shown
  BY <1>4 DEF Settle, Interrupt, CancelConversation
<1>5. ASSUME NEW t \in Turns, Fallback(t)
      PROVE  turn'[s] = "starting" /\ fallback'[s] = "none" /\ ~Answered(s)'
  <2>1. t # s /\ turn' = turn /\ (shown' = shown \/ Tell(t, "Failed"))
    BY <1>5 DEF Fallback
  <2>2. fallback'[s] = fallback[s]
    BY <1>5, <2>1 DEF Fallback, TypeInv
  <2>3. ~Answered(s)'
    <3>1. CASE shown' = shown
      BY <3>1 DEF Answered
    <3>. QED  BY <2>1, <3>1, TellShows DEF Names
  <2>. QED  BY <2>1, <2>2, <2>3
<1>6. CASE StopVoiceRequest \/ UNCHANGED <<active, fallback, connected, shown, pipeline, ledger>>
  BY <1>6 DEF StopVoiceRequest, Answered
<1>. QED  BY <1>1, <1>2, <1>3, <1>4, <1>5, <1>6 DEF LiveNext, LiveTurnStep, Answered

(* Turns whose events keep their places on the bus, except the first.      *)
LEMMA BusKeeps ==
  ASSUME TypeInv, LiveNext, ~Handled, ~Refuse
  PROVE  /\ Len(bus) \in Nat
         /\ \A i \in 1..Len(bus) : i \in 1..Len(bus') /\ bus'[i] = bus[i]
         /\ \A i \in 1..Len(bus') : i \in 1..Len(bus) \/ i = Len(bus) + 1
         /\ \A i \in 1..Len(bus') : i = Len(bus) + 1 /\ bus'[i].event = "Started" =>
              Begin(bus'[i].turn) /\ bus'[i].turn \in Turns
<1>. USE DEF belief, service, pipeline, ledger
<1>0. Len(bus) \in Nat
  BY Types
<1>1. CASE bus' = bus
  BY <1>0, <1>1
<1>2. ASSUME NEW t \in Turns, NEW e, NEW b, Publish(t, e, b), e = "Started" => Begin(t)
      PROVE  /\ Len(bus') = Len(bus) + 1
             /\ \A i \in 1..Len(bus) : bus'[i] = bus[i]
             /\ bus'[Len(bus) + 1].event = "Started" =>
                  Begin(bus'[Len(bus) + 1].turn) /\ bus'[Len(bus) + 1].turn \in Turns
  BY <1>2, PublishAppends
<1>3. bus' = bus \/ \E t \in Turns, e \in Names, b \in {"task", "interruption"} :
                      Publish(t, e, b) /\ (e = "Started" => Begin(t))
  <2>1. ASSUME NEW t \in Turns, Begin(t)
        PROVE  \E e \in Names, b \in {"task", "interruption"} :
                 Publish(t, e, b) /\ (e = "Started" => Begin(t))
    BY <2>1 DEF Begin, Names
  <2>2. ASSUME NEW t \in Turns, Finish(t)
        PROVE  \E e \in Names, b \in {"task", "interruption"} :
                 Publish(t, e, b) /\ (e = "Started" => Begin(t))
    BY <2>2 DEF Finish, Names, Terminals
  <2>3. ASSUME NEW t \in Turns, Settle(t)
        PROVE  \E e \in Names, b \in {"task", "interruption"} :
                 Publish(t, e, b) /\ (e = "Started" => Begin(t))
    BY <2>3 DEF Settle, Names, Terminals
  <2>4. ASSUME NEW t \in Turns,
               TaskLeaves(t) \/ Fallback(t) \/ Interrupt(t) \/ SendConversation(t)
               \/ CancelConversation(t) \/ Speak(t)
        PROVE  bus' = bus
    BY <2>4 DEF TaskLeaves, Fallback, Interrupt, SendConversation, CancelConversation, Speak
  <2>5. CASE Record \/ StopVoiceRequest
                \/ UNCHANGED <<active, fallback, connected, shown, pipeline, ledger>>
    BY <2>5 DEF Record, StopVoiceRequest
  <2>. QED  BY <2>1, <2>2, <2>3, <2>4, <2>5 DEF LiveNext, LiveTurnStep
<1>4. CASE bus' # bus
  <2>1. PICK t \in Turns, e \in Names, b \in {"task", "interruption"} :
               Publish(t, e, b) /\ (e = "Started" => Begin(t))
    BY <1>3, <1>4
  <2>2. /\ Len(bus') = Len(bus) + 1
        /\ \A i \in 1..Len(bus) : bus'[i] = bus[i]
        /\ bus'[Len(bus) + 1].event = "Started" =>
             Begin(bus'[Len(bus) + 1].turn) /\ bus'[Len(bus) + 1].turn \in Turns
    BY <1>2, <2>1
  <2>. QED  BY <1>0, <2>2
<1>. QED  BY <1>1, <1>4

LEMMA StartNext == TypeInv /\ NewInv /\ StartInv /\ LiveNext => StartInv'
<1> SUFFICES ASSUME TypeInv, NewInv, StartInv, LiveNext,
                    NEW i \in 1..Len(bus'), bus'[i].event = "Started", i # 1 \/ head' = "queued"
             PROVE  /\ turn'[bus'[i].turn] = "starting" /\ fallback'[bus'[i].turn] = "none"
                    /\ ~(\E k \in DOMAIN shown'[bus'[i].turn] : shown'[bus'[i].turn][k] \in Terminals)
                    /\ \A j \in 1..(i - 1) : bus'[j].turn # bus'[i].turn
  BY DEF StartInv, Answered
<1>. USE DEF belief, service, pipeline, ledger
<1>0. ASSUME NEW k \in 1..Len(bus), bus[k].event = "Started", k # 1 \/ head = "queued"
      PROVE  /\ turn[bus[k].turn] = "starting" /\ fallback[bus[k].turn] = "none"
             /\ ~Answered(bus[k].turn) /\ bus[k].turn \in Turns
             /\ \A j \in 1..(k - 1) : bus[j].turn # bus[k].turn
  BY <1>0, Types DEF StartInv
<1>1. CASE Handled \/ Refuse
  <2>1. /\ Len(bus) \in Nat /\ Len(bus') \in Nat /\ i < Len(bus) /\ bus'[i] = bus[i + 1]
    BY <1>1, BusMoves
  <2>2. i + 1 \in 1..Len(bus) /\ i + 1 # 1 /\ bus[i + 1].event = "Started"
    BY <2>1
  <2>3. /\ turn[bus[i + 1].turn] = "starting" /\ fallback[bus[i + 1].turn] = "none"
        /\ ~Answered(bus[i + 1].turn) /\ bus[i + 1].turn \in Turns
        /\ \A j \in 1..i : bus[j].turn # bus[i + 1].turn
    BY <1>0, <2>2
  <2>4. PICK s \in Turns : s = bus[i + 1].turn
    BY <2>3
  <2>5. First.turn # s
    BY <2>1, <2>3, <2>4 DEF First
  <2>6. turn'[s] = "starting" /\ fallback'[s] = "none" /\ ~Answered(s)'
    BY <2>3, <2>4, <2>5, StartingKeeps
  <2>7. \A j \in 1..(i - 1) : bus'[j].turn # s
    <3> SUFFICES ASSUME NEW j \in 1..(i - 1) PROVE bus'[j].turn # s
      OBVIOUS
    <3>1. j \in 1..Len(bus') /\ j < Len(bus) /\ j # Len(bus)
      BY <2>1
    <3>2. bus'[j] = bus[j + 1] /\ j + 1 \in 1..i
      BY <1>1, <3>1, BusMoves
    <3>. QED  BY <2>3, <2>4, <3>2
  <2>. QED  BY <2>1, <2>4, <2>6, <2>7 DEF Answered
<1>2. CASE ~Handled /\ ~Refuse
  <2>1. /\ Len(bus) \in Nat
        /\ \A k \in 1..Len(bus) : k \in 1..Len(bus') /\ bus'[k] = bus[k]
        /\ i \in 1..Len(bus) \/ i = Len(bus) + 1
        /\ i = Len(bus) + 1 => Begin(bus'[i].turn) /\ bus'[i].turn \in Turns
    BY <1>2, BusKeeps
  <2>2. CASE i \in 1..Len(bus)
    <3>1. head' = "queued" => head = "queued"
      <4>1. \A t \in Turns : LiveTurnStep(t) => head' = head
        BY DEF LiveTurnStep, Begin, TaskLeaves, Finish, Settle, Fallback, Interrupt, SendConversation,
           CancelConversation, Speak
      <4>2. Record \/ StopVoiceRequest => head' \in {"told", head}
        BY DEF Record, StopVoiceRequest
      <4>. QED  BY <1>2, <4>1, <4>2 DEF LiveNext
    <3>2. bus'[i] = bus[i] /\ bus[i].event = "Started" /\ (i # 1 \/ head = "queued")
      BY <2>1, <2>2, <3>1
    <3>3. PICK s \in Turns : s = bus[i].turn
      BY <1>0, <2>2, <3>2
    <3>4. /\ turn[s] = "starting" /\ fallback[s] = "none" /\ ~Answered(s)
          /\ \A j \in 1..(i - 1) : bus[j].turn # s
      BY <1>0, <2>2, <3>2, <3>3
    <3>5. Record => First.turn # s
      <4>1. Record => i # 1
        BY DEF Record
      <4>. QED  BY <2>1, <2>2, <3>4, <4>1 DEF First
    <3>6. turn'[s] = "starting" /\ fallback'[s] = "none" /\ ~Answered(s)'
      BY <1>2, <3>4, <3>5, StartingKeeps
    <3>7. \A j \in 1..(i - 1) : bus'[j] = bus[j]
      BY <2>1, <2>2
    <3>. QED  BY <3>2, <3>3, <3>4, <3>6, <3>7 DEF Answered
  <2>3. CASE i = Len(bus) + 1
    <3>1. PICK s \in Turns : s = bus'[i].turn /\ Begin(s)
      BY <2>1, <2>3
    <3>2. /\ turn[s] = "queued" /\ turn'[s] = "starting" /\ fallback' = fallback /\ shown' = shown
      BY <3>1 DEF Begin, TypeInv
    <3>3. /\ fallback[s] = "none" /\ ~Answered(s)
          /\ \A k \in 1..Len(bus) : bus[k].turn # s
      BY <3>2 DEF NewInv
    <3>4. \A j \in 1..(i - 1) : bus'[j].turn # s
      BY <2>1, <2>3, <3>3
    <3>. QED  BY <3>1, <3>2, <3>3, <3>4 DEF Answered
  <2>. QED  BY <2>1, <2>2, <2>3
<1>. QED  BY <1>1, <1>2

-----------------------------------------------------------------------------
(* The client is told                                                      *)
LEMMA LiveMonotone ==
  ASSUME TypeInv, LiveNext
  PROVE  /\ \A t \in Turns : Answered(t) => Answered(t)'
         /\ \A t \in Turns : turn[t] # "none" => turn'[t] # "none"
         /\ VoiceBegan => VoiceBegan'
         /\ faults' = 0 => faults = 0
<1>1. CASE UNCHANGED <<active, fallback, connected, shown, pipeline, ledger>>
  BY <1>1 DEF Answered, VoiceBegan, pipeline, ledger
<1>2. CASE [Next]_vars
  BY <1>2, Monotone
<1>. QED  BY <1>1, <1>2 DEF LiveNext, LiveTurnStep, Next, HostStep, Client, User

LEMMA ToldNext == TypeInv /\ ToldInv /\ LiveNext /\ connected => ToldInv'
<1> SUFFICES ASSUME TypeInv, ToldInv, LiveNext, connected PROVE ToldInv'
  OBVIOUS
<1>. USE DEF belief, service, pipeline, ledger
<1>1. /\ head = "told" => bus # <<>> /\ (bus[1].event \in Terminals => Answered(bus[1].turn))
      /\ \A t \in Turns : fallback[t] = "told" => Answered(t)
      /\ faults = 0 => \A t \in Turns : interruption[t] = "done" => Answered(t)
  BY DEF ToldInv
<1>2. /\ \A t \in Turns : Answered(t) => Answered(t)'
      /\ faults' = 0 => faults = 0
  BY LiveMonotone
<1>3. CASE Record
  <2>1. First \in Events /\ First.turn \in Turns /\ First.event \in Names
    BY <1>3, Types, EventFields DEF Record
  <2>2. PICK s \in Turns : s = First.turn /\ (First.event \in Terminals => Answered(s)')
    BY <1>3, <2>1, TellShows DEF Record
  <2>3. bus' = bus /\ bus # <<>> /\ UNCHANGED <<fallback, interruption, faults>>
    BY <1>3 DEF Record
  <2>4. (bus[1].event \in Terminals => Answered(bus[1].turn))'
    BY <2>2, <2>3 DEF Answered, First
  <2>. QED  BY <1>1, <1>2, <2>3, <2>4 DEF ToldInv
<1>4. CASE Handled
  <2>1. /\ head' = "queued" /\ UNCHANGED <<fallback, faults>>
        /\ First.turn \in Turns
        /\ \A s \in Turns : interruption'[s] = "done" =>
              interruption[s] = "done" \/ (s = First.turn /\ First.event \in Terminals)
        /\ bus # <<>> /\ head = "told"
    BY <1>4, HandledMoves
  <2>2. First.event \in Terminals => Answered(First.turn)
    BY <1>1, <2>1 DEF First
  <2>. QED  BY <1>1, <1>2, <2>1, <2>2 DEF ToldInv
<1>5. CASE Refuse
  <2>1. faults \in Nat /\ faults' = faults + 1 /\ head' = "queued"
    BY <1>5, RefuseMoves DEF TypeInv
  <2>2. faults' # 0
    BY <2>1
  <2>3. \A s \in Turns : fallback'[s] = "told" => fallback[s] = "told"
    BY <1>5, RefuseMoves
  <2>. QED  BY <1>1, <1>2, <2>1, <2>2, <2>3 DEF ToldInv
<1>6. ASSUME NEW t \in Turns, LiveTurnStep(t) PROVE ToldInv'
  <2>1. /\ head' = head /\ faults' = faults
        /\ \A s \in Turns : interruption'[s] = "done" => interruption[s] = "done"
        /\ \A s \in Turns \ {t} : fallback'[s] = fallback[s]
        /\ fallback'[t] = "told" => fallback[t] = "told" \/ Tell(t, "Failed")
    BY <1>6 DEF TypeInv, LiveTurnStep, Begin, TaskLeaves, TaskDone, Finish, Settle, Fallback,
       Interrupt, SendConversation, CancelConversation, Speak
  <2>2. Tell(t, "Failed") => Answered(t)'
    BY TellShows DEF Names, Terminals
  <2>3. \A s \in Turns : fallback'[s] = "told" => Answered(s)'
    BY <1>1, <1>2, <2>1, <2>2
  <2>4. CASE head = "told"
    <3>1. ~Handled /\ ~Refuse
      BY <2>1, <2>4 DEF Handled, Refuse
    <3>2. bus # <<>> /\ 1 \in 1..Len(bus)
      BY <1>1, <2>4, Types
    <3>3. 1 \in 1..Len(bus') /\ bus'[1] = bus[1]
      BY <3>1, <3>2, BusKeeps
    <3>4. bus' # <<>>
      BY <3>3
    <3>5. PICK s \in Turns : s = bus[1].turn /\ (bus[1].event \in Terminals => Answered(s))
      BY <1>1, <2>4, <3>2, Types
    <3>6. bus'[1].event \in Terminals => Answered(s)'
      BY <1>2, <3>3, <3>5
    <3>7. bus'[1].turn = s
      BY <3>3, <3>5
    <3>8. (bus[1].event \in Terminals => Answered(bus[1].turn))'
      BY <3>6, <3>7 DEF Answered
    <3>. QED  BY <1>1, <1>2, <2>1, <2>3, <3>4, <3>8 DEF ToldInv
  <2>5. CASE head # "told"
    BY <1>1, <1>2, <2>1, <2>3, <2>5 DEF ToldInv
  <2>. QED  BY <2>4, <2>5
<1>7. CASE StopVoiceRequest \/ UNCHANGED <<active, fallback, connected, shown, pipeline, ledger>>
  BY <1>7, <1>1 DEF StopVoiceRequest, ToldInv, Answered
<1>. QED  BY <1>3, <1>4, <1>5, <1>6, <1>7 DEF LiveNext

-----------------------------------------------------------------------------
(* The active turn and the end of a turn                                   *)

(* Events on the bus are of turns that began.                              *)
LEMMA HandledBegan ==
  ASSUME TypeInv, NewInv, bus # <<>>
  PROVE  First.turn \in Turns /\ turn[First.turn] \notin {"none", "queued"}
<1>1. 1 \in 1..Len(bus) /\ First \in Events
  BY Types
<1>2. First.turn \in Turns
  BY <1>1, EventFields
<1>. QED  BY <1>1, <1>2 DEF NewInv, First

LEMMA ActiveNext ==
  TypeInv /\ NewInv /\ StartInv /\ ToldInv /\ ActiveInv /\ LiveNext => ActiveInv'
<1> SUFFICES ASSUME TypeInv, NewInv, StartInv, ToldInv, ActiveInv, LiveNext,
                    NEW t \in Texts, turn'[t] # "none", ~Answered(t)', ~VoiceBegan'
             PROVE  active' = t
  BY DEF ActiveInv
<1>. USE DEF belief, service, pipeline, ledger
<1>0. ~Answered(t) /\ ~VoiceBegan
  BY LiveMonotone
<1>1. turn[t] # "none" => active = t
  BY <1>0 DEF ActiveInv
<1>2. CASE Record
  <2>1. active = t /\ bus # <<>> /\ head = "queued"
    BY <1>1, <1>2 DEF Record
  <2>2. CASE First.event # "Started"
    BY <1>2, <2>1, <2>2 DEF Record
  <2>3. CASE First.event = "Started"
    <3>1. First.turn \in Turns /\ 1 \in 1..Len(bus)
      <4>1. First \in Events /\ 1 \in 1..Len(bus)
        BY <2>1, Types
      <4>. QED  BY <4>1, EventFields
    <3>2. PICK s \in Turns : s = First.turn
      BY <3>1
    <3>3. turn[s] = "starting" /\ ~Answered(s)
      BY <2>1, <2>3, <3>1, <3>2 DEF StartInv, First
    <3>4. s \in Texts
      BY <1>0, <3>2, <3>3 DEF VoiceBegan
    <3>5. active = s
      BY <1>0, <3>3, <3>4 DEF ActiveInv
    <3>. QED  BY <2>1, <1>2, <3>2, <3>5 DEF Record
  <2>. QED  BY <2>2, <2>3
<1>3. CASE Handled
  <2>1. bus # <<>> /\ head = "told" /\ (turn'[t] = turn[t] \/ t = First.turn)
    BY <1>3, HandledMoves
  <2>2. active = t
    BY <1>1, <2>1, HandledBegan
  <2>3. First.event \in Terminals => First.turn # t
    BY <1>0, <2>1 DEF ToldInv, First
  <2>. QED  BY <1>3, <2>2, <2>3, HandledMoves
<1>4. CASE Refuse
  <2>1. bus # <<>> /\ active' = active /\ (turn'[t] = turn[t] \/ t = First.turn)
    BY <1>4, RefuseMoves
  <2>. QED  BY <1>1, <2>1, HandledBegan
<1>5. ASSUME NEW s \in Turns, Begin(s) \/ TaskLeaves(s) \/ Finish(s) \/ Settle(s) \/ Interrupt(s)
                              \/ CancelConversation(s)
      PROVE  active' = t
  <2>1. turn[t] # "none" /\ active' = active
    BY <1>5 DEF TypeInv, Begin, TaskLeaves, TaskDone, Finish, Settle, Interrupt, CancelConversation
  <2>. QED  BY <1>1, <2>1
<1>6. ASSUME NEW s \in Texts, SendConversation(s) PROVE active' = t
  <2>1. active = None /\ active' = s /\ turn' = [turn EXCEPT ![s] = "queued"]
    BY <1>6 DEF SendConversation
  <2>2. t # s => turn[t] # "none"
    BY <2>1 DEF TypeInv
  <2>3. active # t
    BY <2>1
  <2>. QED  BY <1>1, <2>1, <2>2, <2>3
<1>7. ASSUME NEW s \in Voices, Speak(s) PROVE active' = t
  <2>1. turn' = [turn EXCEPT ![s] = "queued"] /\ active' = active
    BY <1>7 DEF Speak
  <2>2. t # s /\ turn[t] # "none"
    BY <2>1 DEF TypeInv
  <2>. QED  BY <1>1, <2>1, <2>2
<1>8. ASSUME NEW s \in Turns, Fallback(s) PROVE active' = t
  <2>1. turn' = turn /\ (UNCHANGED belief \/ (fallback[s] = "told" /\ FinishActive(s)))
    BY <1>8 DEF Fallback
  <2>2. active = t
    BY <1>1, <2>1
  <2>3. fallback[s] = "told" => s # t
    BY <1>0 DEF ToldInv
  <2>. QED  BY <2>1, <2>2, <2>3 DEF FinishActive
<1>9. CASE StopVoiceRequest \/ UNCHANGED <<active, fallback, connected, shown, pipeline, ledger>>
  BY <1>1, <1>9 DEF StopVoiceRequest
<1>. QED  BY <1>2, <1>3, <1>4, <1>5, <1>6, <1>7, <1>8, <1>9 DEF LiveNext, LiveTurnStep

LEMMA EndNext ==
  TypeInv /\ NewInv /\ ToldInv /\ ActiveInv /\ EndInv /\ LiveNext /\ connected => EndInv'
<1> SUFFICES ASSUME TypeInv, NewInv, ToldInv, ActiveInv, EndInv, LiveNext, connected,
                    NEW t \in Texts, Ended(t)', ~Answered(t)'
             PROVE  /\ fallback'[t] = "yield" \/ VoiceBegan'
                    /\ faults' = 0 => interruption'[t] \notin {"idle", "done"}
  BY DEF EndInv
<1>. USE DEF belief, service, pipeline, ledger
<1>0. ~Answered(t) /\ (VoiceBegan => VoiceBegan') /\ (faults' = 0 => faults = 0)
  BY LiveMonotone
<1>1. Ended(t) => /\ fallback[t] = "yield" \/ VoiceBegan
                  /\ faults = 0 => interruption[t] \notin {"idle", "done"}
  BY <1>0 DEF EndInv
<1>2. turn[t] # "none" => active = t \/ VoiceBegan
  BY <1>0 DEF ActiveInv
<1>3. faults = 0 => interruption[t] # "done"
  BY <1>0 DEF ToldInv
<1>4. CASE Handled
  <2>1. /\ bus # <<>> /\ head = "told" /\ UNCHANGED <<fallback, faults>>
        /\ turn'[t] = turn[t] \/ (t = First.turn /\ turn'[t] \in {"running", "done"})
        /\ turn'[t] = "done" => turn[t] = "done" \/ (t = First.turn /\ First.event \in Terminals)
        /\ \/ interruption'[t] = interruption[t]
           \/ t = First.turn /\ interruption'[t] \in {"settling", "done"}
        /\ interruption'[t] = "done" =>
             interruption[t] = "done" \/ (t = First.turn /\ First.event \in Terminals)
    BY <1>4, HandledMoves
  <2>2. First.event \in Terminals => First.turn # t
    BY <1>0, <2>1 DEF ToldInv, First
  <2>3. Ended(t)
    BY <2>1, <2>2 DEF Ended
  <2>. QED  BY <1>0, <1>1, <2>1, <2>2, <2>3
<1>5. CASE Refuse
  <2>1. /\ bus # <<>> /\ faults' # 0
        /\ \/ turn'[t] = turn[t] /\ fallback'[t] = fallback[t]
           \/ t = First.turn /\ (active = t => fallback'[t] = "yield")
    <3>1. faults \in Nat /\ faults' = faults + 1
      BY <1>5, RefuseMoves DEF TypeInv
    <3>. QED  BY <1>5, <3>1, RefuseMoves
  <2>2. CASE turn'[t] = turn[t] /\ fallback'[t] = fallback[t]
    BY <1>0, <1>1, <2>1, <2>2 DEF Ended
  <2>3. CASE t = First.turn /\ (active = t => fallback'[t] = "yield")
    <3>1. turn[t] # "none"
      BY <2>1, <2>3, HandledBegan
    <3>. QED  BY <1>0, <1>2, <2>1, <2>3, <3>1
  <2>. QED  BY <2>1, <2>2, <2>3
<1>6. ASSUME NEW s \in Turns, TaskLeaves(s)
      PROVE  /\ fallback'[t] = "yield" \/ VoiceBegan'
             /\ faults' = 0 => interruption'[t] \notin {"idle", "done"}
  <2>1. CASE s # t
    <3>1. Ended(t) /\ fallback'[t] = fallback[t] /\ UNCHANGED <<interruption, faults>>
      BY <1>6, <2>1 DEF TaskLeaves, TaskDone, TypeInv, Ended
    <3>. QED  BY <1>0, <1>1, <3>1
  <2>2. CASE s = t
    <3>1. /\ turn[t] # "none" /\ UNCHANGED <<interruption, faults>>
          /\ active = t => fallback'[t] = "yield"
          /\ \/ turn[t] = "queued" /\ t \in cancelled
             \/ interruption[t] # "idle"
      BY <1>6, <2>2 DEF TaskLeaves, TaskDone, TypeInv
    <3>2. ~(turn[t] = "queued" /\ t \in cancelled)
      BY DEF NewInv
    <3>. QED  BY <1>0, <1>2, <1>3, <3>1, <3>2
  <2>. QED  BY <2>1, <2>2
<1>7. ASSUME NEW s \in Turns, Fallback(s)
      PROVE  /\ fallback'[t] = "yield" \/ VoiceBegan'
             /\ faults' = 0 => interruption'[t] \notin {"idle", "done"}
  <2>1. Ended(t) /\ turn[t] # "none" /\ UNCHANGED <<interruption, faults>>
    BY <1>7 DEF Fallback, Ended
  <2>2. CASE s # t
    <3>1. fallback'[t] = fallback[t]
      BY <1>7, <2>2 DEF Fallback, TypeInv
    <3>. QED  BY <1>0, <1>1, <2>1, <3>1
  <2>3. CASE s = t
    <3>1. fallback[t] # "told"
      BY <1>0 DEF ToldInv
    <3>2. ~Tell(t, "Failed")
      BY TellShows DEF Names, Terminals
    <3>3. active # t
      BY <1>7, <2>3, <3>1, <3>2 DEF Fallback
    <3>. QED  BY <1>0, <1>1, <1>2, <2>1, <3>3
  <2>. QED  BY <2>2, <2>3
<1>8. ASSUME NEW s \in Turns, Begin(s) \/ Finish(s) \/ Settle(s) \/ Interrupt(s) \/ CancelConversation(s)
                              \/ SendConversation(s) \/ Speak(s)
      PROVE  /\ fallback'[t] = "yield" \/ VoiceBegan'
             /\ faults' = 0 => interruption'[t] \notin {"idle", "done"}
  <2>1. /\ Ended(t) /\ UNCHANGED <<fallback, faults>>
        /\ interruption'[t] \in {"idle", "done"} => interruption[t] \in {"idle", "done"}
    BY <1>8 DEF TypeInv, Begin, Finish, Settle, Interrupt, CancelConversation, SendConversation, Speak,
       Ended
  <2>. QED  BY <1>0, <1>1, <2>1
<1>9. CASE Record \/ StopVoiceRequest \/ UNCHANGED <<active, fallback, connected, shown, pipeline, ledger>>
  <2>1. Ended(t) /\ UNCHANGED <<fallback, faults, interruption>>
    BY <1>9 DEF Record, StopVoiceRequest, Ended
  <2>. QED  BY <1>0, <1>1, <2>1
<1>. QED  BY <1>4, <1>5, <1>6, <1>7, <1>8, <1>9 DEF LiveNext, LiveTurnStep

-----------------------------------------------------------------------------
(* Before the client, and the whole invariant                              *)
LEMMA QuietNext == TypeInv /\ QuietInv /\ [Next]_vars => QuietInv'
<1> SUFFICES ASSUME TypeInv, QuietInv, [Next]_vars PROVE QuietInv'
  OBVIOUS
<1>. USE DEF belief, service, pipeline, ledger
<1>1. CASE main # "connect"
  <2>1. main' # "connect"
    <3>1. HostStep => main' # "connect"
      BY <1>1 DEF HostStep, Cleanup, StopVoice, StopServer, Record, Handled, Begin, TaskLeaves, Finish,
         Settle, Fallback
    <3>2. Client => main' # "connect"
      BY <1>1 DEF Client, Connect, NotConnected, Quit, Disconnect, StartVoice, StopVoiceRequest,
         SendConversation, CancelConversation
    <3>. QED  BY <1>1, <3>1, <3>2 DEF Next, User, Speak, Interrupt, Refuse, vars
  <2>. QED  BY <2>1 DEF QuietInv
<1>2. CASE main = "connect"
  <2>1. /\ ~connected /\ ~mic /\ bus = <<>>
        /\ \A t \in Turns : turn[t] = "none" /\ interruption[t] = "idle" /\ fallback[t] = "none"
    BY <1>2 DEF QuietInv, TypeInv
  <2>2. ~HostStep
    BY <1>2, <2>1 DEF HostStep, Cleanup, StopVoice, StopServer, Record, Handled, Begin, TaskLeaves, Finish,
       Settle, Fallback
  <2>3. ~User /\ ~Refuse
    BY <2>1 DEF User, Speak, Interrupt, Refuse
  <2>4. Client => main' # "connect"
    BY <1>2, <2>1 DEF Client, Connect, NotConnected, Quit, Disconnect, StartVoice, StopVoiceRequest,
       SendConversation, CancelConversation
  <2>5. CASE main' # "connect"
    BY <2>5 DEF QuietInv
  <2>6. CASE UNCHANGED vars
    BY <2>6 DEF QuietInv, vars
  <2>. QED  BY <2>2, <2>3, <2>4, <2>5, <2>6 DEF Next
<1>. QED  BY <1>1, <1>2

LEMMA HostInit == Init => TypeInv /\ QuietInv /\ HostInv
<1>1. Init => QuietInv /\ ~Live
  BY DEF Init, QuietInv, Live
<1>. QED  BY <1>1, TypeInit DEF HostInv

LEMMA HostConnects == TypeInv /\ QuietInv /\ Connect => HostInv'
<1> SUFFICES ASSUME TypeInv, QuietInv, Connect PROVE HostInv'
  OBVIOUS
<1>. USE DEF belief, service, pipeline, ledger
<1>1. /\ bus' = <<>> /\ head' = "queued" /\ cancelled' = {}
      /\ \A t \in Turns : /\ turn'[t] = "none" /\ interruption'[t] = "idle"
                          /\ fallback'[t] = "none" /\ shown'[t] = <<>>
  BY DEF QuietInv, Connect
<1>2. \A t \in Turns : ~Answered(t)'
  BY <1>1 DEF Answered
<1>. QED  BY <1>1, <1>2 DEF HostInv, NewInv, StartInv, ToldInv, ActiveInv, EndInv, Ended

LEMMA HostNext == TypeInv /\ QuietInv /\ HostInv /\ [Next]_vars => HostInv'
<1> SUFFICES ASSUME TypeInv, QuietInv, HostInv, [Next]_vars, Live' PROVE HostInv'
  BY DEF HostInv
<1>1. CASE Connect
  BY <1>1, HostConnects
<1>2. CASE Live
  <2>1. LiveNext /\ connected
    BY <1>2, LiveSteps DEF Live
  <2>2. NewInv /\ StartInv /\ ToldInv /\ ActiveInv /\ EndInv
    BY <1>2 DEF HostInv
  <2>. QED  BY <2>1, <2>2, NewNext, StartNext, ToldNext, ActiveNext, EndNext DEF HostInv
<1>. QED  BY <1>1, <1>2, LiveStep

(* Every variable that the host's answers depend on keeps its type; the    *)
(* bus carries events of the pipeline's task and of its interruption only. *)
THEOREM TypeCorrect == Spec => []TypeInv
BY TypeInit, TypeNext, PTL DEF Spec

(* While the client and the host are there, a text turn that has ended was *)
(* told to end, or is about to be: by its interruption or by the failure   *)
(* that _turn_done schedules (desktop/host.py) when the store refused an   *)
(* event. It may go unanswered only when an event was refused and a voice  *)
(* turn has begun. For every set of turns and any number of refusals.      *)
THEOREM TextTurnsGetAnswers == Spec => []TextTurnsAreAnswered
<1>1. TypeInv /\ QuietInv /\ HostInv /\ [Next]_vars => (TypeInv /\ QuietInv /\ HostInv)'
  BY TypeNext, QuietNext, HostNext
<1>2. TypeInv /\ HostInv => TextTurnsAreAnswered
  <2> SUFFICES ASSUME TypeInv, HostInv, Live, NEW t \in Texts, Ended(t)
               PROVE  \/ Answered(t) \/ interruption[t] \notin {"idle", "done"}
                      \/ fallback[t] = "yield" \/ Overtaken
    BY DEF TextTurnsAreAnswered, Live
  <2>1. EndInv /\ faults \in Nat
    BY DEF HostInv, TypeInv
  <2>. QED  BY <2>1 DEF EndInv, Overtaken, VoiceBegan
<1>. QED  BY <1>1, <1>2, HostInit, PTL DEF Spec
=============================================================================
