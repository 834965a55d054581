------------------------------- MODULE EventBus -------------------------------
(***************************************************************************)
(* The event bus (core/event_bus.py) on top of the event store: a publish  *)
(* holds the bus's lock while it has the event appended and while every    *)
(* subscriber handles it. Publishes and other clients of the memory        *)
(* service share the store's connection; the bus is shut down before the   *)
(* store is closed (__main__.py).                                          *)
(*                                                                         *)
(* An event has the name of the append that makes it durable. The first    *)
(* cancellation of a publisher is absorbed by the shield in publish(): it  *)
(* waits for the commit and has no effect here. `Abandon' is the second.   *)
(***************************************************************************)
EXTENDS EventStore, Naturals, Sequences

CONSTANTS
  Handlers,  \* subscribers of every event type
  NoEvent,   \* a handler that does not publish
  NoHolder,  \* nobody holds the publish lock
  MaxFaults  \* statements that raise, abandoned operations, crashes

ASSUME BusAssumption ==
  NoEvent \notin Appends /\ NoHolder \notin Appends /\ MaxFaults \in Nat

VARIABLES
  stage,    \* stage[e]: where the publish of e is suspended
  holder,   \* the publish that holds _publish_lock
  notify,   \* the handlers that the holder read before the event was appended
  sub,      \* sub[h]: whether handler h is subscribed
  due,      \* <<h, e>>: the invocation of h for e that its publish waits for
  nested,   \* nested[h]: the event that handler h publishes and waits for
  log,      \* the replay log
  handed,   \* <<h, e>>: invocations made, ever
  stopping, \* the application's stop has reached the bus
  closed,   \* _closed
  faults

mutex == <<holder, notify>>
calls == <<due, nested>>
history == <<log, handed>>
life == <<stopping, closed>>
busVars == <<stage, mutex, sub, calls, history, life, faults>>
vars == <<storeVars, busVars>>

Stage == {"idle", "queued", "append", "deliver", "published", "refused", "rejected",
          "abandoned", "gone"}
Settled(e) == stage[e] \in {"published", "refused", "rejected", "abandoned", "gone"}
Subscribed == {h \in Handlers : sub[h] = "on"}
Move(e, s) == stage' = [stage EXCEPT ![e] = s]
Due(e) == {h \in Handlers : <<h, e>> \in due}
-----------------------------------------------------------------------------
BusInit ==
  /\ Init
  /\ stage = [e \in Appends |-> "idle"]
  /\ holder = NoHolder
  /\ notify = {}
  /\ sub = [h \in Handlers |-> "new"]
  /\ due = {}
  /\ nested = [h \in Handlers |-> NoEvent]
  /\ log = <<>>
  /\ handed = {}
  /\ stopping = FALSE
  /\ closed = FALSE
  /\ faults = 0

Subscribe(h) ==
  /\ sub[h] = "new"
  /\ ~closed
  /\ sub' = [sub EXCEPT ![h] = "on"]
  /\ UNCHANGED <<storeVars, stage, mutex, calls, history, life, faults>>

Unsubscribe(h) ==
  /\ sub[h] = "on"
  /\ sub' = [sub EXCEPT ![h] = "off"]
  /\ UNCHANGED <<storeVars, stage, mutex, calls, history, life, faults>>

Publish(e) ==
  /\ stage[e] = "idle"
  /\ Move(e, "queued")
  /\ UNCHANGED <<storeVars, mutex, sub, calls, history, life, faults>>

(* A handler publishes and awaits it: the publish queues behind the one    *)
(* that waits for the handler.                                             *)
PublishFrom(h, e) ==
  /\ \E d \in Appends : <<h, d>> \in due
  /\ nested[h] = NoEvent
  /\ stage[e] = "idle"
  /\ Move(e, "queued")
  /\ nested' = [nested EXCEPT ![h] = e]
  /\ UNCHANGED <<storeVars, mutex, sub, due, history, life, faults>>

Begin(e) ==
  /\ stage[e] = "queued"
  /\ holder = NoHolder
  /\ IF closed
     THEN /\ Move(e, "rejected")
          /\ UNCHANGED <<storeVars, mutex>>
     ELSE /\ Move(e, "append")
          /\ holder' = e
          /\ notify' = Subscribed
          /\ Call(e)
  /\ UNCHANGED <<sub, calls, history, life, faults>>

Release == holder' = NoHolder /\ notify' = {}

(* Mutant: a persistence error is logged and the event delivered all       *)
(* the same.                                                               *)
DeliverUnpersisted(e) ==
  /\ stage[e] = "append"
  /\ res[e] \in {"ok", "failed"}
  /\ log' = Append(log, e)
  /\ due' = due \cup (notify \X {e})
  /\ handed' = handed \cup (notify \X {e})
  /\ Move(e, "deliver")
  /\ UNCHANGED <<storeVars, mutex, sub, nested, life, faults>>

(* The append returned: the event enters the log and reaches its handlers. *)
Appended(e) ==
  /\ stage[e] = "append"
  /\ res[e] = "ok"
  /\ log' = Append(log, e)
  /\ due' = due \cup (notify \X {e})
  /\ handed' = handed \cup (notify \X {e})
  /\ IF notify = {}
     THEN Move(e, "published") /\ Release
     ELSE Move(e, "deliver") /\ UNCHANGED mutex
  /\ UNCHANGED <<storeVars, sub, nested, life, faults>>

AppendRefused(e) ==
  /\ stage[e] = "append"
  /\ res[e] = "failed"
  /\ Move(e, "refused")
  /\ Release
  /\ UNCHANGED <<storeVars, sub, calls, history, life, faults>>

(* A handler returns or raises; one that awaits its own publish cannot.    *)
Handled(h, e) ==
  /\ <<h, e>> \in due
  /\ nested[h] # NoEvent => Settled(nested[h])
  /\ due' = due \ {<<h, e>>}
  /\ nested' = [nested EXCEPT ![h] = NoEvent]
  /\ UNCHANGED <<storeVars, stage, mutex, sub, history, life, faults>>

(* Mutant: the timeout does not cover a handler that waits for another     *)
(* publish.                                                                *)
TimeOutIdleOnly(h, e) ==
  /\ <<h, e>> \in due
  /\ nested[h] = NoEvent
  /\ due' = due \ {<<h, e>>}
  /\ sub' = [sub EXCEPT ![h] = IF @ = "on" THEN "quarantined" ELSE @]
  /\ UNCHANGED <<storeVars, stage, mutex, nested, history, life, faults>>

(* handler_timeout_seconds pass: the invocation is cancelled and no longer *)
(* waited for, the handler is quarantined, its own publish goes on.        *)
TimeOut(h, e) ==
  /\ <<h, e>> \in due
  /\ due' = due \ {<<h, e>>}
  /\ sub' = [sub EXCEPT ![h] = IF @ = "on" THEN "quarantined" ELSE @]
  /\ nested' = [nested EXCEPT ![h] = NoEvent]
  /\ UNCHANGED <<storeVars, stage, mutex, history, life, faults>>

(* Mutant: a publish returns without waiting for its handlers.             *)
FireAndForget(e) ==
  /\ stage[e] = "deliver"
  /\ Move(e, "published")
  /\ Release
  /\ UNCHANGED <<storeVars, sub, calls, history, life, faults>>

Delivered(e) ==
  /\ stage[e] = "deliver"
  /\ Due(e) = {}
  /\ Move(e, "published")
  /\ Release
  /\ UNCHANGED <<storeVars, sub, calls, history, life, faults>>

(* A second cancellation reaches the publish itself: its append is         *)
(* cancelled, or the invocations it waits for are.                         *)
AbandonQueued(e) ==
  /\ stage[e] = "queued"
  /\ UNCHANGED <<storeVars, mutex, calls>>

AbandonAppend(e) ==
  /\ stage[e] = "append"
  /\ CancelOperation(e)
  /\ Release
  /\ UNCHANGED calls

AbandonDelivery(e) ==
  /\ stage[e] = "deliver"
  /\ due' = {d \in due : d[2] # e}
  /\ nested' = [h \in Handlers |-> IF h \in Due(e) THEN NoEvent ELSE nested[h]]
  /\ Release
  /\ UNCHANGED storeVars

Abandon(e) ==
  /\ faults < MaxFaults
  /\ faults' = faults + 1
  /\ AbandonQueued(e) \/ AbandonAppend(e) \/ AbandonDelivery(e)
  /\ Move(e, "abandoned")
  /\ UNCHANGED <<sub, history, life>>

Stop ==
  /\ ~stopping
  /\ stopping' = TRUE
  /\ UNCHANGED <<storeVars, stage, mutex, sub, calls, history, closed, faults>>

Shutdown ==
  /\ stopping
  /\ ~closed
  /\ holder = NoHolder
  /\ closed' = TRUE
  /\ sub' = [h \in Handlers |-> "off"]
  /\ UNCHANGED <<storeVars, stage, mutex, calls, history, stopping, faults>>

(* Mutant: facts are stored while the turn's event is still being          *)
(* published.                                                              *)
ClientAhead(t) ==
  /\ t \notin Appends
  /\ t \in Upserts => stage[Source[t]] # "idle"
  /\ t \in Closes => stopping
  /\ Call(t)
  /\ UNCHANGED busVars

(* The other clients of the store: the orchestrator and the voice pipeline *)
(* store the facts of a turn once the publish of its event returned or was *)
(* cancelled for good, and not when it raised; the application closes the  *)
(* store when the bus is shut down or _SHUTDOWN_STEP_TIMEOUT_SECONDS have  *)
(* passed.                                                                 *)
Client(t) ==
  /\ t \notin Appends
  /\ t \in Upserts => stage[Source[t]] \in {"published", "abandoned"}
  /\ t \in Forgets => stage[Source[t]] = "published"
  /\ t \in Closes => stopping
  /\ Call(t)
  /\ UNCHANGED busVars

StoreStep(t) == Step(t) /\ UNCHANGED busVars

StoreFault(t) ==
  /\ faults < MaxFaults
  /\ faults' = faults + 1
  /\ StatementFails(t) \/ (t \notin Appends /\ CancelOperation(t))
  /\ UNCHANGED <<stage, mutex, sub, calls, history, life>>

(* The process ends and starts again with an empty bus.                    *)
Restart ==
  /\ faults < MaxFaults
  /\ faults' = faults + 1
  /\ Crash
  /\ stage' = [e \in Appends |-> IF stage[e] = "idle" \/ Settled(e) THEN stage[e] ELSE "gone"]
  /\ holder' = NoHolder
  /\ notify' = {}
  /\ sub' = [h \in Handlers |-> "new"]
  /\ due' = {}
  /\ nested' = [h \in Handlers |-> NoEvent]
  /\ log' = <<>>
  /\ stopping' = FALSE
  /\ closed' = FALSE
  /\ UNCHANGED handed

PublishStep(e) == Begin(e) \/ Appended(e) \/ AppendRefused(e) \/ Delivered(e)

Next ==
  \/ \E e \in Appends : Publish(e) \/ PublishStep(e) \/ Abandon(e)
  \/ \E h \in Handlers : Subscribe(h) \/ Unsubscribe(h)
  \/ \E h \in Handlers, e \in Appends : PublishFrom(h, e) \/ Handled(h, e) \/ TimeOut(h, e)
  \/ \E t \in Tasks : Client(t) \/ StoreStep(t) \/ StoreFault(t)
  \/ Stop \/ Shutdown
  \/ Restart

-----------------------------------------------------------------------------
(* Type correctness of the bus and of the store under it.                   *)
BusTypeOK ==
  /\ TypeOK
  /\ stage \in [Appends -> Stage]
  /\ holder \in Appends \cup {NoHolder}
  /\ notify \subseteq Handlers
  /\ sub \in [Handlers -> {"new", "on", "off", "quarantined"}]
  /\ due \subseteq Handlers \X Appends
  /\ nested \in [Handlers -> Appends \cup {NoEvent}]
  /\ log \in Seq(Appends)
  /\ handed \subseteq Handlers \X Appends
  /\ stopping \in BOOLEAN
  /\ closed \in BOOLEAN
  /\ faults \in 0..MaxFaults

Durable(e) == e \in disk.events \/ Forgotten(e)

(* "Only committed events enter the replay log or reach subscribers"       *)
(* (event_bus.py:138): what a publisher was told, what a handler was ever  *)
(* called with and what the log holds survives every restart, unless the   *)
(* user had it forgotten.                                                  *)
DeliveredIsDurable ==
  /\ \A e \in Appends : stage[e] = "published" => Durable(e)
  /\ \A d \in handed : Durable(d[2])
  /\ \A i \in DOMAIN log : Durable(log[i])

(* Concurrent publishes are delivered one after the other: the bus waits   *)
(* only for handlers of the event whose publish holds the lock, however    *)
(* handlers publish themselves, time out or are abandoned.                 *)
DeliveryIsSerial == \A d \in due : holder = d[2]

(* "waits for inflight publish and rejects new events": a closed bus has   *)
(* no publish between its append and the end of its delivery.              *)
ClosedBusIsIdle == closed => holder = NoHolder

(* "Timed-out live subscribers are automatically quarantined for the       *)
(* remainder of the process" (docs/deployment_preflight.md), although the  *)
(* list of handlers is read before the append.                             *)
QuarantineHolds ==
  [][\A h \in Handlers, e \in Appends :
       sub[h] = "quarantined" /\ <<h, e>> \in handed' => <<h, e>> \in handed]_vars

(* verify_consistency(): a committed fact cites a committed event, unless  *)
(* the publish of that event was cancelled a second time: its facts are    *)
(* stored whether or not the append went through.                          *)
Abandoned == {e \in Appends : stage[e] = "abandoned"}

FactsCiteEvents == \A row \in disk.facts : Durable(row.src) \/ row.src \in Abandoned

(* The inductive invariant: the publish of an event, its append and the    *)
(* lock agree, and so do the handlers that the publish waits for.          *)
PublishMatchesAppend ==
  \A e \in Appends :
    /\ stage[e] \in {"idle", "queued", "rejected"} => pc[e] = "idle"
    /\ stage[e] \in {"append", "deliver"} <=> holder = e
    /\ stage[e] \in {"deliver", "published"} => res[e] = "ok"

DueInDelivery == \A d \in due : stage[d[2]] = "deliver"

NotifiedAreLive ==
  \A e \in Appends, h \in notify : stage[e] = "append" => sub[h] # "quarantined"

FactsFollowEvents(lost) ==
  \A u \in Upserts : pc[u] # "idle" => Durable(Source[u]) \/ Source[u] \in lost

FactsAreBacked == FactsFollowEvents(Abandoned) /\ CitesEvents(Abandoned)

BusInv == /\ BusTypeOK /\ StoreInv /\ PublishMatchesAppend /\ DueInDelivery
          /\ NotifiedAreLive /\ DeliveredIsDurable /\ ClosedBusIsIdle
          /\ FactsAreBacked

(* A publish returns, also one that a handler of another publish awaits:   *)
(* the handler timeout breaks the circle.                                  *)
PublishesReturn == \A e \in Appends : stage[e] = "queued" ~> Settled(e)

(* The event loop runs what is ready, the worker thread its statements,    *)
(* and the handler timeout is a timer of the loop. Nothing makes a handler *)
(* return, a client call or the application stop.                          *)
Spec ==
  /\ BusInit /\ [][Next]_vars
  /\ \A e \in Appends : WF_vars(PublishStep(e))
  /\ \A h \in Handlers, e \in Appends : WF_vars(TimeOut(h, e))
  /\ \A t \in Tasks : WF_vars(StoreStep(t))
=============================================================================
