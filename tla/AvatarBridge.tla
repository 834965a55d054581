----------------------------- MODULE AvatarBridge -----------------------------
(***************************************************************************)
(* The avatar bridge client (providers/implementations/websocket_avatar.py)*)
(* and the connections it opens to the avatar stage: requests of several   *)
(* tasks, the reader task of each connection, the handshake under the      *)
(* connect lock, health checks that tear a connection down, and shutdown.  *)
(*                                                                         *)
(* A call is an asyncio task suspended at pc[c]; code between two awaits   *)
(* is one action. A message is the pair <<call, kind>>, the request id.    *)
(***************************************************************************)
EXTENDS Naturals, FiniteSets

CONSTANTS
  Requests,  \* tasks that send one command to the stage
  Checks,    \* tasks that call health_check()
  Stops,     \* tasks that call shutdown()
  NoCall,    \* nobody holds the lock
  MaxConns   \* bound: connections that are ever opened

Calls == Requests \cup Checks \cup Stops
Conns == 1..MaxConns
NoConn == 0

ASSUME CallsAssumption == /\ Requests \cap Checks = {}
                          /\ Stops \cap (Requests \cup Checks) = {}
                          /\ NoCall \notin Calls

ASSUME ConnsAssumption == MaxConns \in Nat

VARIABLES
  closed,   \* _closed
  conn,     \* _connection
  reader,   \* the connection that _reader_task reads
  lock,     \* holder of _connect_lock
  opened,   \* number of connections opened so far
  link,     \* link[k]: messages can be sent on connection k
  task,     \* task[k]: the reader task of k
  wire,     \* wire[k]: requests that the stage has yet to answer on k
  auth,     \* auth[k]: what became of the handshake on k
  pc,       \* pc[c]: where call c is suspended
  on,       \* on[c]: the connection call c uses or closes
  answer    \* answer[c]: the future of c's pending request

gate  == <<closed, lock>>
slot  == <<conn, reader>>
links == <<opened, link, task, wire, auth>>
vars  == <<gate, slot, links, pc, on, answer>>

-----------------------------------------------------------------------------
Kinds == {"handshake", "request"}

(* A call that waits for the answer to a request it sent.                  *)
Waiting(c) == pc[c] \in Kinds /\ answer[c] = "none"

Goto(c, p) == pc' = [pc EXCEPT ![c] = p]

(* Leaving _ensure_connected, normally or not, gives the lock back; leaving*)
(* _request_on_connection drops the pending request.                       *)
Ends(c) ==
  /\ Goto(c, "done")
  /\ lock' = IF lock = c THEN NoCall ELSE lock
  /\ on' = [on EXCEPT ![c] = NoConn]
  /\ answer' = [answer EXCEPT ![c] = "none"]

(* _disconnect: the provider forgets its connection and reader at once,    *)
(* then awaits close() of the one and the end of the other. A caller that  *)
(* finds neither goes on without an await.                                 *)
Disconnect(c) ==
  /\ conn' = NoConn /\ reader' = NoConn
  /\ link' = [k \in Conns |-> k # conn /\ link[k]]
  /\ IF conn = NoConn /\ (reader = NoConn \/ task[reader] = "done")
     THEN Ends(c)
     ELSE /\ Goto(c, IF conn = NoConn THEN "join" ELSE "close")
          /\ on' = [on EXCEPT ![c] = reader]
          /\ answer' = [answer EXCEPT ![c] = "none"]
          /\ UNCHANGED lock

(* The request of c failed: a health check disconnects whatever connection *)
(* the provider has now; the others raise to their caller.                 *)
Fails(c) ==
  IF c \in Checks THEN Disconnect(c)
  ELSE Ends(c) /\ UNCHANGED <<slot, link>>

(* _request_on_connection up to its await: a new id, a future, send().     *)
Send(c, k, kind) ==
  IF link[k]
  THEN /\ wire' = [wire EXCEPT ![k] = @ \cup {<<c, kind>>}]
       /\ on' = [on EXCEPT ![c] = k]
       /\ answer' = [answer EXCEPT ![c] = "none"]
       /\ Goto(c, kind)
       /\ lock' = IF kind = "handshake" THEN c ELSE IF lock = c THEN NoCall ELSE lock
       /\ UNCHANGED <<slot, link>>
  ELSE Fails(c) /\ UNCHANGED wire

-----------------------------------------------------------------------------
Init ==
  /\ closed = FALSE /\ lock = NoCall
  /\ conn = NoConn /\ reader = NoConn /\ opened = 0
  /\ link = [k \in Conns |-> FALSE]
  /\ task = [k \in Conns |-> "none"]
  /\ wire = [k \in Conns |-> {}]
  /\ auth = [k \in Conns |-> "none"]
  /\ pc = [c \in Calls |-> "idle"]
  /\ on = [c \in Calls |-> NoConn]
  /\ answer = [c \in Calls |-> "none"]

(* _ensure_connected with the lock: the current connection is used as it   *)
(* is, otherwise one is opened. A missing token or a request beyond the    *)
(* message limit raises.                                                   *)
Locked(c) ==
  \/ /\ conn # NoConn
     /\ Send(c, conn, "request")
     /\ UNCHANGED <<closed, opened, task, auth>>
  \/ /\ conn = NoConn
     /\ lock' = c /\ Goto(c, "open")
     /\ UNCHANGED <<closed, slot, links, on, answer>>
  \/ Fails(c) /\ UNCHANGED <<closed, opened, task, wire, auth>>

Request(c) ==
  /\ pc[c] = "idle" /\ c \notin Stops
  /\ \/ closed /\ Fails(c) /\ UNCHANGED <<closed, opened, task, wire, auth>>
     \/ ~closed /\ lock = NoCall /\ Locked(c)
     \/ /\ ~closed /\ lock # NoCall
        /\ Goto(c, "lock")
        /\ UNCHANGED <<gate, slot, links, on, answer>>

(* Mutant: the connection is not looked at again once the lock is held.    *)
OpenAgain(c) ==
  /\ pc[c] = "lock" /\ lock = NoCall
  /\ lock' = c /\ Goto(c, "open")
  /\ UNCHANGED <<closed, slot, links, on, answer>>

TakeLock(c) == pc[c] = "lock" /\ lock = NoCall /\ Locked(c)

(* connect() returned: the connection and its reader are in place before   *)
(* the handshake is sent.                                                  *)
Connected(c) ==
  /\ pc[c] = "open" /\ opened < MaxConns
  /\ LET k == opened + 1 IN
       /\ opened' = k /\ conn' = k /\ reader' = k
       /\ link' = [link EXCEPT ![k] = TRUE]
       /\ task' = [task EXCEPT ![k] = "reading"]
       /\ wire' = [wire EXCEPT ![k] = {<<c, "handshake">>}]
       /\ on' = [on EXCEPT ![c] = k]
       /\ answer' = [answer EXCEPT ![c] = "none"]
  /\ Goto(c, "handshake")
  /\ UNCHANGED <<gate, auth>>

(* connect() failed or timed out.                                          *)
Unreachable(c) ==
  /\ pc[c] = "open"
  /\ Fails(c)
  /\ UNCHANGED <<closed, opened, task, wire, auth>>

(* The handshake succeeded with protocol version 1: the lock is released   *)
(* and the request goes out on the same connection.                        *)
Shaken(c) ==
  /\ pc[c] = "handshake" /\ answer[c] = "ok"
  /\ auth' = [auth EXCEPT ![on[c]] = "shaken"]
  /\ Send(c, on[c], "request")
  /\ UNCHANGED <<closed, opened, task>>

(* Mutant: a failed handshake leaves its connection in place.              *)
HandshakeForgiven(c) ==
  /\ pc[c] = "handshake"
  /\ Ends(c)
  /\ UNCHANGED <<closed, slot, links>>

(* The handshake failed, timed out or chose another version: _disconnect() *)
(* with the lock held.                                                     *)
HandshakeFails(c) ==
  /\ pc[c] = "handshake"
  /\ Disconnect(c)
  /\ UNCHANGED <<closed, opened, task, wire, auth>>

Answered(c) ==
  /\ pc[c] = "request" /\ answer[c] = "ok"
  /\ Ends(c)
  /\ UNCHANGED <<closed, slot, links>>

(* An error answer, a reader that stopped, or request_timeout_seconds.     *)
RequestFails(c) ==
  /\ pc[c] = "request" /\ answer[c] # "ok"
  /\ Fails(c)
  /\ UNCHANGED <<closed, opened, task, wire, auth>>

(* _disconnect after close() returned: the reader is cancelled and awaited.*)
CloseReturned(c) ==
  /\ pc[c] = "close"
  /\ IF task[on[c]] = "done" THEN Ends(c)
     ELSE Goto(c, "join") /\ UNCHANGED <<lock, on, answer>>
  /\ UNCHANGED <<closed, slot, links>>

Joined(c) ==
  /\ pc[c] = "join" /\ task[on[c]] = "done"
  /\ Ends(c)
  /\ UNCHANGED <<closed, slot, links>>

Shutdown(c) ==
  /\ pc[c] = "idle" /\ c \in Stops
  /\ closed' = TRUE
  /\ Disconnect(c)
  /\ UNCHANGED <<opened, task, wire, auth>>

(* The caller is cancelled. _ensure_connected undoes a handshake only for  *)
(* an Exception, which CancelledError is not; a cancellation during the    *)
(* wait for the reader is suppressed and changes nothing.                  *)
Cancel(c) ==
  /\ pc[c] \notin {"idle", "join", "done"}
  /\ Ends(c)
  /\ auth' = IF pc[c] = "handshake" THEN [auth EXCEPT ![on[c]] = "cancelled"] ELSE auth
  /\ UNCHANGED <<closed, slot, opened, link, task, wire>>

-----------------------------------------------------------------------------
(* The stage's end of a connection.                                        *)

Cancelled(k) == \E c \in Calls : pc[c] = "join" /\ on[c] = k

(* _reader_loop: an answer completes the future of its id, if it has one.  *)
Receive(k) ==
  /\ task[k] = "reading" /\ ~Cancelled(k)
  /\ \E id \in wire[k], a \in {"ok", "error"} :
       /\ wire' = [wire EXCEPT ![k] = @ \ {id}]
       /\ answer' = IF Waiting(id[1]) /\ pc[id[1]] = id[2]
                    THEN [answer EXCEPT ![id[1]] = a] ELSE answer
  /\ UNCHANGED <<gate, slot, opened, link, task, auth, pc, on>>

(* Mutant: only the current connection fails its requests.                 *)
ReaderStopsQuietly(k) ==
  /\ task[k] = "reading"
  /\ task' = [task EXCEPT ![k] = "closing"]
  /\ conn' = IF conn = k THEN NoConn ELSE conn
  /\ link' = [link EXCEPT ![k] = FALSE]
  /\ wire' = [wire EXCEPT ![k] = {}]
  /\ answer' = [c \in Calls |-> IF Waiting(c) /\ conn = k THEN "error" ELSE answer[c]]
  /\ UNCHANGED <<gate, reader, opened, auth, pc, on>>

(* The reader stops: the provider forgets the connection if it is still    *)
(* the current one, every pending request fails, and close() is awaited.   *)
ReaderStops(k) ==
  /\ task[k] = "reading"
  /\ task' = [task EXCEPT ![k] = "closing"]
  /\ conn' = IF conn = k THEN NoConn ELSE conn
  /\ link' = [link EXCEPT ![k] = FALSE]
  /\ wire' = [wire EXCEPT ![k] = {}]
  /\ answer' = [c \in Calls |-> IF Waiting(c) THEN "error" ELSE answer[c]]
  /\ UNCHANGED <<gate, reader, opened, auth, pc, on>>

(* The link is down or the reader was cancelled.                           *)
ReaderEnds(k) == (~link[k] \/ Cancelled(k)) /\ ReaderStops(k)

(* A message that is not a response of the protocol.                       *)
Violation(k) == link[k] /\ ReaderStops(k)

ReaderClosed(k) ==
  /\ task[k] = "closing"
  /\ task' = [task EXCEPT ![k] = "done"]
  /\ UNCHANGED <<gate, slot, opened, link, wire, auth, pc, on, answer>>

(* The stage goes away, or the keepalive ping is not answered.             *)
LinkLost(k) ==
  /\ link[k]
  /\ link' = [link EXCEPT ![k] = FALSE]
  /\ UNCHANGED <<gate, slot, opened, task, wire, auth, pc, on, answer>>

-----------------------------------------------------------------------------
CallStep(c) ==
  \/ TakeLock(c) \/ Connected(c) \/ Unreachable(c) \/ Shaken(c) \/ HandshakeFails(c)
  \/ Answered(c) \/ RequestFails(c) \/ CloseReturned(c) \/ Joined(c)

ReaderStep(k) == ReaderEnds(k) \/ ReaderClosed(k)

ProviderStep == (\E c \in Calls : CallStep(c)) \/ (\E k \in Conns : ReaderStep(k))

Next ==
  \/ ProviderStep
  \/ \E c \in Calls : Request(c) \/ Shutdown(c) \/ Cancel(c)
  \/ \E k \in Conns : Receive(k) \/ Violation(k) \/ LinkLost(k)

(* The event loop runs while a task is ready; connect(), close() and each  *)
(* request have a timeout, so a suspended call always can go on. No step   *)
(* leads back to an earlier state, so no task needs a fairness of its own. *)
Fairness == WF_vars(ProviderStep)

Spec == Init /\ [][Next]_vars /\ Fairness

-----------------------------------------------------------------------------
PCs == Kinds \cup {"idle", "lock", "open", "close", "join", "done"}

TypeOK ==
  /\ closed \in BOOLEAN
  /\ conn \in Conns \cup {NoConn} /\ reader \in Conns \cup {NoConn}
  /\ lock \in Calls \cup {NoCall}
  /\ opened \in 0..MaxConns
  /\ link \in [Conns -> BOOLEAN]
  /\ task \in [Conns -> {"none", "reading", "closing", "done"}]
  /\ wire \in [Conns -> SUBSET (Calls \X Kinds)]
  /\ auth \in [Conns -> {"none", "shaken", "cancelled"}]
  /\ pc \in [Calls -> PCs]
  /\ on \in [Calls -> Conns \cup {NoConn}]
  /\ answer \in [Calls -> {"none", "ok", "error"}]

(* No request waits for an answer that nobody would read: the reader of    *)
(* its connection is running (_reader_loop fails every pending future when *)
(* it stops, and a request is sent only where one runs).                   *)
WaitingIsRead == \A c \in Calls : Waiting(c) => task[on[c]] = "reading"

(* The stage has at most one live client connection, and it is the one the *)
(* provider knows: reconnects, failed handshakes and health checks leave   *)
(* no connection behind.                                                   *)
OneLiveConnection == \A k \in Conns : link[k] => conn = k

(* A connection whose handshake failed, or is still under way, carries no  *)
(* command (_ensure_connected closes it for every Exception). It may carry *)
(* one when the task that made the handshake was cancelled in it: for      *)
(* CancelledError nothing is closed, and the connection is handed out.     *)
ShakenOrCancelled ==
  \A k \in Conns, c \in Calls :
    <<c, "request">> \in wire[k] => auth[k] \in {"shaken", "cancelled"}

(* docs/avatar_bridge_protocol.md:159, of what follows a failure: "A later *)
(* request reconnects and performs a fresh authenticated handshake". With  *)
(* no exception for a cancelled handshake this is refuted.                 *)
NoCommandUnauthenticated ==
  \A k \in Conns, c \in Calls : <<c, "request">> \in wire[k] => auth[k] = "shaken"

-----------------------------------------------------------------------------
(* The inductive invariant. Whoever opens or shakes hands has the lock and *)
(* knows the connection; a link is read; a connection without a handshake  *)
(* has a call that makes it.                                               *)
OnConnection == \A c \in Calls : pc[c] \in Kinds => on[c] \in Conns
LinkIsRead   == \A k \in Conns : link[k] => task[k] = "reading"
LockIsHeld   == \A c \in Calls : /\ pc[c] \in {"open", "handshake"} => lock = c
                                 /\ pc[c] = "open" => conn = NoConn
ShakesHands  == conn # NoConn /\ auth[conn] = "none"
                => \E c \in Calls : pc[c] = "handshake" /\ on[c] = conn

BridgeInv == /\ OnConnection /\ LinkIsRead /\ LockIsHeld /\ ShakesHands
             /\ WaitingIsRead /\ OneLiveConnection /\ ShakenOrCancelled
=============================================================================
