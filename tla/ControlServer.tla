---------------------------- MODULE ControlServer ----------------------------
(***************************************************************************)
(* The control server of the desktop client (desktop/control_server.py):   *)
(* WebSocket connections of which one may be the client, its handshake     *)
(* against a deadline, concurrent request tasks, events that the host      *)
(* publishes, disconnects and stop().                                      *)
(*                                                                         *)
(* conns[w] is where the handler of connection w is suspended, reqs[r] the *)
(* task of request r, pubs[p] a call of publish(); code between two awaits *)
(* is one action. What is written is put on the wire with the send lock    *)
(* held, which is released when the transport has taken it.                *)
(***************************************************************************)
EXTENDS Naturals, Sequences, FiniteSets

CONSTANTS
  Socks,      \* connections
  Reqs,       \* messages that clients send
  Pubs,       \* calls of publish()
  Nobody,     \* no connection, no task
  MaxActive   \* MAX_CONCURRENT_REQUESTS

Tasks == Reqs \cup Pubs \cup Socks

ASSUME TasksAssumption == /\ Nobody \notin Tasks
                          /\ Socks \cap (Reqs \cup Pubs) = {}
                          /\ Reqs \cap Pubs = {}
                          /\ IsFiniteSet(Reqs)
                          /\ MaxActive \in Nat \ {0}

VARIABLES
  client,      \* _client
  authed,      \* _client_authenticated
  stopped,     \* stop() was called
  sequence,    \* _sequence
  conns, reqs, pubs,
  of,          \* of[t]: the connection that task t serves or writes to
  timer,       \* timer[w]: the task that ends an unauthenticated connection
  up,          \* up[w]: connection w is open
  wire,        \* wire[w]: handshake response and events written to w
  clientLock, handshakeLock, sendLock,
  noticed      \* connections whose end on_disconnected() was told

server == <<client, authed, stopped>>
locks  == <<clientLock, handshakeLock, sendLock>>
vars == <<server, sequence, conns, reqs, pubs, of, timer, up, wire, locks, noticed>>

-----------------------------------------------------------------------------
ConnStates == {"none", "lock", "reject", "serve", "refuse", "drain", "leave",
               "leaveAuthenticated", "notify", "done"}
ReqStates  == {"none", "start", "handshake", "welcome", "handler", "reply", "unwind",
               "done"}
PubStates  == {"none", "wait", "sent", "done"}

(* The handshake response on the wire; events are their numbers, from 1.   *)
Welcome == 0

SetConn(w, s) == conns' = [conns EXCEPT ![w] = s]
SetReq(r, s)  == reqs' = [reqs EXCEPT ![r] = s]

(* Leaving a block gives back the locks that task t holds.                 *)
Release(t) ==
  /\ handshakeLock' = IF handshakeLock = t THEN Nobody ELSE handshakeLock
  /\ sendLock' = IF sendLock = t THEN Nobody ELSE sendLock
  /\ UNCHANGED clientLock

Active(w) == {r \in Reqs : of[r] = w /\ reqs[r] \notin {"none", "done"}}

-----------------------------------------------------------------------------
Init ==
  /\ client = Nobody /\ authed = FALSE /\ stopped = FALSE /\ sequence = 0
  /\ conns = [w \in Socks |-> "none"]
  /\ reqs = [r \in Reqs |-> "none"]
  /\ pubs = [p \in Pubs |-> "none"]
  /\ of = [t \in Reqs \cup Pubs |-> Nobody]
  /\ timer = [w \in Socks |-> "none"]
  /\ up = [w \in Socks |-> FALSE]
  /\ wire = [w \in Socks |-> <<>>]
  /\ clientLock = Nobody /\ handshakeLock = Nobody /\ sendLock = Nobody
  /\ noticed = {}

(* _handle_connection.                                                     *)
Connect(w) ==
  /\ conns[w] = "none" /\ ~stopped
  /\ up' = [up EXCEPT ![w] = TRUE]
  /\ SetConn(w, "lock")
  /\ UNCHANGED <<server, sequence, reqs, pubs, of, timer, wire, locks, noticed>>

(* The first connection becomes the client; another one is closed with the *)
(* client lock held.                                                       *)
Admit(w) ==
  /\ conns[w] = "lock" /\ clientLock = Nobody
  /\ IF client # Nobody
     THEN SetConn(w, "reject") /\ clientLock' = w /\ UNCHANGED <<client, authed, timer>>
     ELSE /\ SetConn(w, "serve") /\ client' = w /\ authed' = FALSE
          /\ timer' = [timer EXCEPT ![w] = "armed"]
          /\ UNCHANGED clientLock
  /\ UNCHANGED <<stopped, sequence, reqs, pubs, of, up, wire, handshakeLock, sendLock,
                 noticed>>

Rejected(w) ==
  /\ conns[w] = "reject"
  /\ SetConn(w, "done") /\ up' = [up EXCEPT ![w] = FALSE] /\ clientLock' = Nobody
  /\ UNCHANGED <<server, sequence, reqs, pubs, of, timer, wire, handshakeLock, sendLock,
                 noticed>>

(* A message is a task of its own unless too many are running.             *)
Message(w) ==
  /\ conns[w] = "serve" /\ up[w]
  /\ \E r \in Reqs :
       /\ reqs[r] = "none"
       /\ of' = [of EXCEPT ![r] = w]
       /\ IF Cardinality(Active(w)) >= MaxActive
          THEN SetReq(r, "done") /\ SetConn(w, "refuse")
          ELSE SetReq(r, "start") /\ UNCHANGED conns
  /\ UNCHANGED <<server, sequence, pubs, timer, up, wire, locks, noticed>>

Refused(w) ==
  /\ conns[w] = "refuse" /\ sendLock \in {Nobody, w}
  /\ \/ ~up[w] /\ SetConn(w, "drain") /\ sendLock' = Nobody
     \/ up[w] /\ sendLock = Nobody /\ sendLock' = w /\ UNCHANGED conns
     \/ up[w] /\ sendLock = w /\ sendLock' = Nobody /\ SetConn(w, "serve")
  /\ UNCHANGED <<server, sequence, reqs, pubs, of, timer, up, wire, clientLock,
                 handshakeLock, noticed>>

-----------------------------------------------------------------------------
(* _process_message: an unauthenticated connection may only make its       *)
(* handshake; a malformed message or a second handshake is an error.       *)
Start(r) ==
  /\ reqs[r] = "start"
  /\ \/ SetReq(r, "reply")
     \/ ~authed /\ SetReq(r, "handshake")
     \/ authed /\ SetReq(r, "handler")
  /\ UNCHANGED <<server, sequence, conns, pubs, of, timer, up, wire, locks, noticed>>

(* With the handshake lock: the client authenticated meanwhile, or wrong   *)
(* method, token or version; or the response is written before the client  *)
(* counts as authenticated.                                                *)
Handshake(r) ==
  /\ reqs[r] = "handshake" /\ handshakeLock = Nobody
  /\ \/ SetReq(r, "reply") /\ UNCHANGED handshakeLock
     \/ ~authed /\ SetReq(r, "welcome") /\ handshakeLock' = r
  /\ UNCHANGED <<server, sequence, conns, pubs, of, timer, up, wire, clientLock, sendLock,
                 noticed>>

(* _send up to its await.                                                  *)
Write(r) ==
  /\ reqs[r] \in {"welcome", "reply"} /\ sendLock = Nobody /\ up[of[r]]
  /\ sendLock' = r
  /\ wire' = IF reqs[r] = "welcome" THEN [wire EXCEPT ![of[r]] = Append(@, Welcome)]
             ELSE wire
  /\ UNCHANGED <<server, sequence, conns, reqs, pubs, of, timer, up, clientLock,
                 handshakeLock, noticed>>

(* The connection is gone: the error cannot be sent either.                *)
WriteFails(r) ==
  /\ reqs[r] \in {"welcome", "reply"} /\ ~up[of[r]] /\ sendLock \in {Nobody, r}
  /\ SetReq(r, "done") /\ Release(r)
  /\ UNCHANGED <<server, sequence, conns, pubs, of, timer, up, wire, noticed>>

Replied(r) ==
  /\ reqs[r] = "reply" /\ sendLock = r
  /\ SetReq(r, "done") /\ Release(r)
  /\ UNCHANGED <<server, sequence, conns, pubs, of, timer, up, wire, noticed>>

(* Mutant: the client counts as authenticated before the response is out.  *)
WelcomedEarly(r) ==
  /\ reqs[r] = "welcome"
  /\ authed' = TRUE
  /\ SetReq(r, "reply") /\ Release(r)
  /\ UNCHANGED <<client, stopped, sequence, conns, pubs, of, timer, up, wire, noticed>>

(* on_connected() only creates a task.                                     *)
Welcomed(r) ==
  /\ reqs[r] = "welcome" /\ sendLock = r
  /\ authed' = TRUE
  /\ SetReq(r, "done") /\ Release(r)
  /\ UNCHANGED <<client, stopped, sequence, conns, pubs, of, timer, up, wire, noticed>>

(* The handler returned, raised, or its time was up.                       *)
Handled(r) ==
  /\ reqs[r] = "handler"
  /\ SetReq(r, "reply")
  /\ UNCHANGED <<server, sequence, conns, pubs, of, timer, up, wire, locks, noticed>>

Unwound(r) ==
  /\ reqs[r] = "unwind"
  /\ SetReq(r, "done") /\ Release(r)
  /\ UNCHANGED <<server, sequence, conns, pubs, of, timer, up, wire, noticed>>

-----------------------------------------------------------------------------
(* The handshake deadline.                                                 *)
Expire(w) ==
  /\ timer[w] = "armed"
  /\ timer' = [timer EXCEPT ![w] = "lock"]
  /\ UNCHANGED <<server, sequence, conns, reqs, pubs, of, up, wire, locks, noticed>>

CloseExpired(w) ==
  /\ timer[w] = "lock" /\ handshakeLock = Nobody
  /\ timer' = [timer EXCEPT ![w] = "none"]
  /\ up' = [up EXCEPT ![w] = @ /\ ~(client = w /\ ~authed)]
  /\ UNCHANGED <<server, sequence, conns, reqs, pubs, of, wire, locks, noticed>>

(* The connection ended: its timer and its request tasks are cancelled.    *)
ServeEnds(w) ==
  /\ conns[w] = "serve" /\ ~up[w]
  /\ timer' = [timer EXCEPT ![w] = "none"]
  /\ reqs' = [r \in Reqs |-> IF r \in Active(w) THEN "unwind" ELSE reqs[r]]
  /\ SetConn(w, "drain")
  /\ UNCHANGED <<server, sequence, pubs, of, up, wire, locks, noticed>>

(* Mutant: whether the client was authenticated is asked too late.         *)
GiveBackThenAsk(w, wasAuthenticated) ==
  /\ client' = IF client = w THEN Nobody ELSE client
  /\ authed' = IF client = w THEN FALSE ELSE authed
  /\ SetConn(w, IF authed' THEN "notify" ELSE "done")

(* With the client lock the slot is given back, if it is still this one's. *)
GiveBack(w, wasAuthenticated) ==
  /\ client' = IF client = w THEN Nobody ELSE client
  /\ authed' = IF client = w THEN FALSE ELSE authed
  /\ SetConn(w, IF wasAuthenticated THEN "notify" ELSE "done")

Drained(w) ==
  /\ conns[w] = "drain" /\ Active(w) = {}
  /\ \/ clientLock = Nobody /\ GiveBack(w, authed)
     \/ /\ clientLock # Nobody
        /\ SetConn(w, IF authed THEN "leaveAuthenticated" ELSE "leave")
        /\ UNCHANGED <<client, authed>>
  /\ UNCHANGED <<stopped, sequence, reqs, pubs, of, timer, up, wire, locks, noticed>>

Leave(w) ==
  /\ conns[w] \in {"leave", "leaveAuthenticated"} /\ clientLock = Nobody
  /\ GiveBack(w, conns[w] = "leaveAuthenticated")
  /\ UNCHANGED <<stopped, sequence, reqs, pubs, of, timer, up, wire, locks, noticed>>

Notify(w) ==
  /\ conns[w] = "notify"
  /\ SetConn(w, "done") /\ noticed' = noticed \cup {w}
  /\ UNCHANGED <<server, sequence, reqs, pubs, of, timer, up, wire, locks>>

(* The peer goes away, or the keepalive ping is not answered.              *)
Lost(w) ==
  /\ up[w]
  /\ up' = [up EXCEPT ![w] = FALSE]
  /\ UNCHANGED <<server, sequence, conns, reqs, pubs, of, timer, wire, locks, noticed>>

-----------------------------------------------------------------------------
(* publish(): the client is looked at before the send lock is awaited, the *)
(* number is taken with the lock.                                          *)
Publish(p) ==
  /\ pubs[p] = "none"
  /\ IF client # Nobody /\ authed
     THEN pubs' = [pubs EXCEPT ![p] = "wait"] /\ of' = [of EXCEPT ![p] = client]
     ELSE pubs' = [pubs EXCEPT ![p] = "done"] /\ UNCHANGED of
  /\ UNCHANGED <<server, sequence, conns, reqs, timer, up, wire, locks, noticed>>

(* An event beyond the message limit, or for a connection that is gone,    *)
(* uses up its number.                                                     *)
WriteEvent(p) ==
  /\ pubs[p] = "wait" /\ sendLock = Nobody
  /\ sequence' = sequence + 1
  /\ \/ /\ up[of[p]]
        /\ wire' = [wire EXCEPT ![of[p]] = Append(@, sequence')]
        /\ pubs' = [pubs EXCEPT ![p] = "sent"] /\ sendLock' = p
     \/ pubs' = [pubs EXCEPT ![p] = "done"] /\ UNCHANGED <<wire, sendLock>>
  /\ UNCHANGED <<server, conns, reqs, of, timer, up, clientLock, handshakeLock, noticed>>

Published(p) ==
  /\ pubs[p] = "sent"
  /\ pubs' = [pubs EXCEPT ![p] = "done"] /\ Release(p)
  /\ UNCHANGED <<server, sequence, conns, reqs, of, timer, up, wire, noticed>>

(* stop(): the client is forgotten, then every connection is closed.       *)
Stop ==
  /\ ~stopped /\ stopped' = TRUE
  /\ client' = Nobody /\ authed' = FALSE
  /\ up' = [w \in Socks |-> up[w] /\ w # client]
  /\ UNCHANGED <<sequence, conns, reqs, pubs, of, timer, wire, locks, noticed>>

CloseServer(w) ==
  /\ stopped /\ up[w]
  /\ up' = [up EXCEPT ![w] = FALSE]
  /\ UNCHANGED <<server, sequence, conns, reqs, pubs, of, timer, wire, locks, noticed>>

-----------------------------------------------------------------------------
ConnStep(w) ==
  \/ Admit(w) \/ Rejected(w) \/ Refused(w) \/ ServeEnds(w) \/ Drained(w) \/ Leave(w)
  \/ Notify(w) \/ CloseServer(w)

TimerStep(w) == Expire(w) \/ CloseExpired(w)

ReqStep(r) ==
  \/ Start(r) \/ Handshake(r) \/ Write(r) \/ WriteFails(r) \/ Replied(r) \/ Welcomed(r)
  \/ Handled(r) \/ Unwound(r)

PubStep(p) == WriteEvent(p) \/ Published(p)

Environment == \E w \in Socks : Connect(w) \/ Message(w) \/ Lost(w)

ServerStep ==
  \/ \E w \in Socks : ConnStep(w) \/ TimerStep(w)
  \/ \E r \in Reqs : ReqStep(r)
  \/ \E p \in Pubs : PubStep(p)

Next == Environment \/ ServerStep \/ Stop \/ \E p \in Pubs : Publish(p)

(* The event loop runs while a task is ready. No step of the server leads  *)
(* back to an earlier state, so no single task needs a fairness of its own.*)
Fairness == WF_vars(ServerStep)

Spec == Init /\ [][Next]_vars /\ Fairness

-----------------------------------------------------------------------------
TypeOK ==
  /\ client \in Socks \cup {Nobody} /\ authed \in BOOLEAN /\ stopped \in BOOLEAN
  /\ sequence \in Nat
  /\ conns \in [Socks -> ConnStates]
  /\ reqs \in [Reqs -> ReqStates]
  /\ pubs \in [Pubs -> PubStates]
  /\ of \in [Reqs \cup Pubs -> Socks \cup {Nobody}]
  /\ timer \in [Socks -> {"none", "armed", "lock"}]
  /\ up \in [Socks -> BOOLEAN]
  /\ wire \in [Socks -> Seq(Nat)]
  /\ clientLock \in Socks \cup {Nobody}
  /\ handshakeLock \in Reqs \cup {Nobody}
  /\ sendLock \in Tasks \cup {Nobody}
  /\ noticed \subseteq Socks

(* docs/desktop_client.md: the handshake response is written before any    *)
(* event. On every connection the response comes first and once, and the   *)
(* events after it carry increasing numbers.                               *)
WelcomeThenEvents ==
  ~stopped => \A w \in Socks : \A i \in 1..Len(wire[w]) :
    /\ wire[w][i] = Welcome <=> i = 1
    /\ i > 1 => wire[w][i - 1] < wire[w][i]

(* The end of an authenticated client is told to the host, which stops the *)
(* microphone, unless the server was stopped.                              *)
DisconnectIsNoticed ==
  \A w \in Socks : client = w /\ authed /\ ~up[w] ~> w \in noticed \/ stopped
=============================================================================
