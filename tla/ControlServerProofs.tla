-------------------------- MODULE ControlServerProofs --------------------------
(***************************************************************************)
(* Proofs about ControlServer, for every set of connections, requests and  *)
(* publications. TLC checks the same formulas on small instances.          *)
(***************************************************************************)
EXTENDS ControlServer, TLAPS

USE TasksAssumption DEF Tasks

-----------------------------------------------------------------------------
(* Types                                                                   *)
Locks ==
  /\ timer \in [Socks -> {"none", "armed", "lock"}]
  /\ clientLock \in Socks \cup {Nobody}
  /\ handshakeLock \in Reqs \cup {Nobody}
  /\ sendLock \in Tasks \cup {Nobody}
  /\ noticed \subseteq Socks

TypeInv ==
  /\ client \in Socks \cup {Nobody} /\ authed \in BOOLEAN /\ stopped \in BOOLEAN
  /\ sequence \in Nat
  /\ conns \in [Socks -> ConnStates]
  /\ reqs \in [Reqs -> ReqStates]
  /\ pubs \in [Pubs -> PubStates]
  /\ of \in [Reqs \cup Pubs -> Socks \cup {Nobody}]
  /\ up \in [Socks -> BOOLEAN]
  /\ wire \in [Socks -> Seq(Nat)]
  /\ \A r \in Reqs : reqs[r] # "none" => of[r] \in Socks
  /\ \A p \in Pubs : pubs[p] \in {"wait", "sent"} => of[p] \in Socks

(* Who serves the client, and who makes the handshake.                     *)
Serving == {"serve", "refuse", "drain", "leave", "leaveAuthenticated"}
Busy(r) == reqs[r] \notin {"none", "done"}

(* Until stop() a connection that is served is the client, its requests    *)
(* run only while it is, and one of them at most makes the handshake,      *)
(* before the client is authenticated.                                     *)
HandshakeInv ==
  ~stopped =>
    /\ \A w \in Socks : conns[w] \in Serving => client = w
    /\ client # Nobody => conns[client] \in Serving
    /\ \A r \in Reqs : Busy(r) => of[r] = client /\ conns[client] \in {"serve", "refuse", "drain"}
    /\ \A r \in Reqs : reqs[r] = "welcome" => handshakeLock = r /\ ~authed
    /\ \A r \in Reqs : sendLock = r => reqs[r] \in {"welcome", "reply", "unwind"}
    /\ authed => client # Nobody

(* The response is on the wire of an authenticated client, and on that of  *)
(* another one only while it is being sent or when the connection is lost. *)
WelcomeInv ==
  ~stopped =>
    /\ authed => wire[client] # <<>>
    /\ \A r \in Reqs : reqs[r] = "welcome" /\ sendLock = r => wire[of[r]] # <<>>
    /\ client # Nobody /\ ~authed /\ up[client] /\ wire[client] # <<>> =>
         \E r \in Reqs : reqs[r] = "welcome" /\ sendLock = r
    /\ \A w \in Socks : conns[w] \in {"none", "lock", "reject"} => wire[w] = <<>>
    /\ \A p \in Pubs : pubs[p] = "wait" => wire[of[p]] # <<>>

(* A wire begins with the response and goes up from there; no number on it *)
(* is still to be taken.                                                   *)
Ordered(s, n) ==
  \A i \in 1..Len(s) : /\ s[i] <= n
                       /\ s[i] = Welcome <=> i = 1
                       /\ i > 1 => s[i - 1] < s[i]

NumbersInv == ~stopped => \A w \in Socks : Ordered(wire[w], sequence)

ServerInv == TypeInv /\ HandshakeInv /\ WelcomeInv /\ NumbersInv

LEMMA ServerInit == Init => ServerInv
<1> SUFFICES ASSUME Init PROVE ServerInv
  OBVIOUS
<1>1. TypeInv
  <2>1. wire \in [Socks -> Seq(Nat)] /\ of \in [Reqs \cup Pubs -> Socks \cup {Nobody}]
    BY DEF Init
  <2>. QED  BY <2>1 DEF Init, TypeInv, ConnStates, ReqStates, PubStates
<1>2. HandshakeInv /\ WelcomeInv /\ NumbersInv
  BY DEF Init, HandshakeInv, WelcomeInv, NumbersInv, Ordered, Serving, Busy
<1>. QED  BY <1>1, <1>2 DEF ServerInv

LEMMA TypeNext == TypeInv /\ [Next]_vars => TypeInv'
<1> SUFFICES ASSUME TypeInv, [Next]_vars PROVE TypeInv'
  OBVIOUS
<1>. USE DEF SetConn, SetReq, Release, server, locks, ConnStates, ReqStates, PubStates
<1>1. ASSUME NEW w \in Socks, Connect(w) \/ Admit(w) \/ Rejected(w) \/ Refused(w) PROVE TypeInv'
  BY <1>1 DEF TypeInv, Connect, Admit, Rejected, Refused
<1>2. ASSUME NEW w \in Socks, Message(w) PROVE TypeInv'
  <2>1. PICK r \in Reqs : /\ reqs[r] = "none" /\ of' = [of EXCEPT ![r] = w]
                         /\ \/ SetReq(r, "done") /\ SetConn(w, "refuse")
                            \/ SetReq(r, "start") /\ UNCHANGED conns
    BY <1>2 DEF Message
  <2>2. of' \in [Reqs \cup Pubs -> Socks \cup {Nobody}]
        /\ \A q \in Reqs \cup Pubs : of'[q] = IF q = r THEN w ELSE of[q]
    BY <2>1 DEF TypeInv
  <2>3. conns' \in [Socks -> ConnStates] /\ reqs' \in [Reqs -> ReqStates]
        /\ \A q \in Reqs \ {r} : reqs'[q] = reqs[q]
    BY <2>1 DEF TypeInv
  <2>. QED  BY <1>2, <2>1, <2>2, <2>3 DEF TypeInv, Message
<1>3. ASSUME NEW w \in Socks, ServeEnds(w) PROVE TypeInv'
  BY <1>3 DEF TypeInv, ServeEnds, Active
<1>4. ASSUME NEW w \in Socks, Drained(w) \/ Leave(w) \/ Notify(w) \/ CloseServer(w) \/ Lost(w)
      PROVE TypeInv'
  BY <1>4 DEF TypeInv, Drained, Leave, GiveBack, Notify, CloseServer, Lost
<1>5. ASSUME NEW w \in Socks, Expire(w) \/ CloseExpired(w) PROVE TypeInv'
  BY <1>5 DEF TypeInv, Expire, CloseExpired
<1>6. ASSUME NEW r \in Reqs, Start(r) \/ Handshake(r) \/ Handled(r) \/ Unwound(r) \/ Replied(r)
             \/ WriteFails(r) \/ Welcomed(r)
      PROVE  TypeInv'
  BY <1>6 DEF TypeInv, Start, Handshake, Handled, Unwound, Replied, WriteFails, Welcomed
<1>7. ASSUME NEW r \in Reqs, Write(r) PROVE TypeInv'
  BY <1>7 DEF TypeInv, Write, Welcome
<1>8. ASSUME NEW p \in Pubs, Publish(p) \/ Published(p) PROVE TypeInv'
  <2>1. CASE of' = of /\ pubs' = [pubs EXCEPT ![p] = "done"]
    BY <1>8, <2>1 DEF TypeInv, Publish, Published
  <2>2. CASE pubs' = [pubs EXCEPT ![p] = "wait"] /\ of' = [of EXCEPT ![p] = client] /\ client # Nobody
    <3>1. of' \in [Reqs \cup Pubs -> Socks \cup {Nobody}]
          /\ \A q \in Reqs \cup Pubs : of'[q] = IF q = p THEN client ELSE of[q]
      BY <2>2 DEF TypeInv
    <3>2. pubs' \in [Pubs -> PubStates] /\ \A q \in Pubs \ {p} : pubs'[q] = pubs[q]
      BY <2>2 DEF TypeInv
    <3>. QED  BY <1>8, <2>2, <3>1, <3>2 DEF TypeInv, Publish, Published
  <2>. QED  BY <1>8, <2>1, <2>2 DEF Publish, Published
<1>9. ASSUME NEW p \in Pubs, WriteEvent(p) PROVE TypeInv'
  <2>1. sequence' \in Nat /\ wire' \in [Socks -> Seq(Nat)]
    <3>1. sequence' \in Nat
      BY <1>9 DEF TypeInv, WriteEvent
    <3>2. CASE wire' = wire
      BY <3>1, <3>2 DEF TypeInv
    <3>3. CASE wire' = [wire EXCEPT ![of[p]] = Append(@, sequence')]
      <4>1. \A s \in Seq(Nat) : Append(s, sequence') \in Seq(Nat)
        BY <3>1
      <4>2. wire \in [Socks -> Seq(Nat)] /\ of[p] \in Socks
        BY <1>9 DEF TypeInv, WriteEvent
      <4>. QED  BY <3>3, <4>1, <4>2
    <3>. QED  BY <1>9, <3>1, <3>2, <3>3 DEF WriteEvent
  <2>2. pubs' \in [Pubs -> PubStates] /\ \A q \in Pubs : pubs'[q] \in {"wait", "sent"} =>
        pubs[q] \in {"wait", "sent"}
    BY <1>9 DEF TypeInv, WriteEvent
  <2>. QED  BY <1>9, <2>1, <2>2 DEF TypeInv, WriteEvent
<1>10. CASE Stop
  BY <1>10 DEF TypeInv, Stop
<1>11. CASE UNCHANGED vars
  BY <1>11 DEF TypeInv, vars
<1>. QED  BY <1>1, <1>2, <1>3, <1>4, <1>5, <1>6, <1>7, <1>8, <1>9, <1>10, <1>11
     DEF Next, Environment, ServerStep, ConnStep, TimerStep, ReqStep, PubStep

LEMMA LocksNext == Locks /\ [Next]_vars => Locks'
<1> SUFFICES ASSUME Locks, [Next]_vars PROVE Locks'
  OBVIOUS
<1>. USE DEF SetConn, SetReq, Release, server, locks
<1>1. ASSUME NEW w \in Socks, ConnStep(w) PROVE Locks'
  <2>1. CASE Admit(w) \/ Rejected(w)
    BY <2>1 DEF Locks, Admit, Rejected
  <2>2. CASE Refused(w)
    BY <2>2 DEF Locks, Refused
  <2>3. CASE ServeEnds(w) \/ Drained(w) \/ Leave(w)
    BY <2>3 DEF Locks, ServeEnds, Drained, Leave
  <2>4. CASE Notify(w) \/ CloseServer(w)
    BY <2>4 DEF Locks, Notify, CloseServer
  <2>. QED  BY <1>1, <2>1, <2>2, <2>3, <2>4 DEF ConnStep
<1>2. ASSUME NEW w \in Socks, TimerStep(w) \/ Connect(w) \/ Message(w) \/ Lost(w) PROVE Locks'
  BY <1>2 DEF Locks, TimerStep, Expire, CloseExpired, Connect, Message, Lost
<1>3. ASSUME NEW r \in Reqs, ReqStep(r) PROVE Locks'
  BY <1>3 DEF Locks, ReqStep, Start, Handshake, Write, WriteFails, Replied, Welcomed, Handled,
     Unwound
<1>4. ASSUME NEW p \in Pubs, PubStep(p) \/ Publish(p) PROVE Locks'
  BY <1>4 DEF Locks, PubStep, Publish, WriteEvent, Published
<1>5. CASE Stop \/ UNCHANGED vars
  BY <1>5 DEF Locks, Stop, vars
<1>. QED  BY <1>1, <1>2, <1>3, <1>4, <1>5 DEF Next, Environment, ServerStep

(* Every variable keeps its type; a lock is Nobody's or that of a task     *)
(* which may hold it.                                                      *)
THEOREM TypeCorrect == Spec => []TypeOK
<1>1. Init => TypeInv /\ Locks
  BY ServerInit DEF ServerInv, Init, Locks
<1>2. TypeInv /\ Locks /\ [Next]_vars => (TypeInv /\ Locks)'
  BY TypeNext, LocksNext
<1>3. TypeInv /\ Locks => TypeOK
  BY DEF TypeInv, Locks, TypeOK
<1>. QED  BY <1>1, <1>2, <1>3, PTL DEF Spec

-----------------------------------------------------------------------------
(* The handshake                                                           *)
LEMMA HandshakeNext == TypeInv /\ HandshakeInv /\ [Next]_vars => HandshakeInv'
<1> SUFFICES ASSUME TypeInv, HandshakeInv, [Next]_vars, ~stopped' PROVE HandshakeInv'
  BY DEF HandshakeInv
<1>. USE DEF SetConn, SetReq, Release, server, locks, Serving, Busy
<1>0. ~stopped
  BY DEF Next, Environment, ServerStep, ConnStep, TimerStep, ReqStep, PubStep, vars,
     Connect, Admit, Rejected, Message, Refused, Start, Handshake, Write, WriteFails, Replied, Welcomed,
     Handled, Unwound, Expire, CloseExpired, ServeEnds, Drained, Leave, GiveBack, Notify, Lost,
     Publish, WriteEvent, Published, Stop, CloseServer
<1>1. ASSUME NEW w \in Socks, Connect(w) \/ Rejected(w) \/ Refused(w) PROVE HandshakeInv'
  BY <1>0, <1>1 DEF TypeInv, HandshakeInv, Connect, Rejected, Refused
<1>2. ASSUME NEW w \in Socks, Admit(w) PROVE HandshakeInv'
  BY <1>0, <1>2 DEF TypeInv, HandshakeInv, Admit
<1>3. ASSUME NEW w \in Socks, Message(w) PROVE HandshakeInv'
  BY <1>0, <1>3 DEF TypeInv, HandshakeInv, Message
<1>4. ASSUME NEW w \in Socks, ServeEnds(w) PROVE HandshakeInv'
  BY <1>0, <1>4 DEF TypeInv, HandshakeInv, ServeEnds, Active
<1>5. ASSUME NEW w \in Socks, Drained(w) PROVE HandshakeInv'
  <2>1. client = w /\ conns[w] = "drain"
    BY <1>0, <1>5 DEF HandshakeInv, Drained
  <2>2. ASSUME NEW r \in Reqs PROVE ~Busy(r)
    BY <1>0, <1>5, <2>1, <2>2 DEF HandshakeInv, Drained, Active
  <2>3. \A v \in Socks \ {w} : conns[v] \notin Serving
    BY <1>0, <2>1 DEF HandshakeInv
  <2>4. conns \in [Socks -> ConnStates]
    BY DEF TypeInv
  <2>5. CASE GiveBack(w, authed)
    <3>1. client' = Nobody /\ ~authed' /\ reqs' = reqs /\ sendLock' = sendLock
      BY <1>5, <2>1, <2>5 DEF GiveBack, Drained
    <3>2. \A v \in Socks : conns'[v] \notin Serving
      BY <2>1, <2>3, <2>4, <2>5 DEF GiveBack
    <3>. QED  BY <1>0, <2>2, <3>1, <3>2 DEF HandshakeInv
  <2>6. CASE SetConn(w, IF authed THEN "leaveAuthenticated" ELSE "leave") /\ UNCHANGED <<client, authed>>
    <3>1. client' = w /\ reqs' = reqs /\ sendLock' = sendLock /\ conns'[w] \in Serving
      BY <1>5, <2>1, <2>4, <2>6 DEF Drained
    <3>2. \A v \in Socks \ {w} : conns'[v] \notin Serving
      BY <2>3, <2>4, <2>6
    <3>3. w # Nobody
      OBVIOUS
    <3>. QED  BY <1>0, <2>2, <3>1, <3>2, <3>3 DEF HandshakeInv
  <2>. QED  BY <1>5, <2>5, <2>6 DEF Drained
<1>6. ASSUME NEW w \in Socks, Leave(w) PROVE HandshakeInv'
  BY <1>0, <1>6 DEF TypeInv, HandshakeInv, Leave, GiveBack
<1>7. ASSUME NEW w \in Socks, Notify(w) \/ CloseServer(w) \/ Lost(w) \/ Expire(w) \/ CloseExpired(w)
      PROVE  HandshakeInv'
  BY <1>0, <1>7 DEF TypeInv, HandshakeInv, Notify, CloseServer, Lost, Expire, CloseExpired
<1>8. ASSUME NEW r \in Reqs, Start(r) \/ Handshake(r) PROVE HandshakeInv'
  BY <1>0, <1>8 DEF TypeInv, HandshakeInv, Start, Handshake
<1>9. ASSUME NEW r \in Reqs, Handled(r) \/ Unwound(r) \/ Replied(r) \/ WriteFails(r) \/ Write(r)
      PROVE  HandshakeInv'
  <2>1. CASE Handled(r) \/ Unwound(r)
    BY <1>0, <2>1 DEF TypeInv, HandshakeInv, Handled, Unwound
  <2>2. CASE Replied(r)
    BY <1>0, <2>2 DEF TypeInv, HandshakeInv, Replied
  <2>3. CASE WriteFails(r)
    BY <1>0, <2>3 DEF TypeInv, HandshakeInv, WriteFails
  <2>4. CASE Write(r)
    BY <1>0, <2>4 DEF HandshakeInv, Write
  <2>. QED  BY <1>9, <2>1, <2>2, <2>3, <2>4
<1>10. ASSUME NEW r \in Reqs, Welcomed(r) PROVE HandshakeInv'
  BY <1>0, <1>10 DEF TypeInv, HandshakeInv, Welcomed
<1>11. ASSUME NEW p \in Pubs, Publish(p) \/ WriteEvent(p) \/ Published(p) PROVE HandshakeInv'
  BY <1>0, <1>11 DEF TypeInv, HandshakeInv, Publish, WriteEvent, Published
<1>12. CASE UNCHANGED vars
  BY <1>0, <1>12 DEF TypeInv, HandshakeInv, vars
<1>13. ~Stop
  BY DEF Stop
<1>. QED  BY <1>1, <1>2, <1>3, <1>4, <1>5, <1>6, <1>7, <1>8, <1>9, <1>10, <1>11, <1>12, <1>13
     DEF Next, Environment, ServerStep, ConnStep, TimerStep, ReqStep, PubStep

-----------------------------------------------------------------------------
(* The response on the wire                                                *)
LEMMA WelcomeNext == TypeInv /\ HandshakeInv /\ WelcomeInv /\ [Next]_vars => WelcomeInv'
<1> SUFFICES ASSUME TypeInv, HandshakeInv, WelcomeInv, [Next]_vars, ~stopped' PROVE WelcomeInv'
  BY DEF WelcomeInv
<1>. USE DEF SetConn, SetReq, Release, server, locks, Serving, Busy
<1>0. ~stopped
  BY DEF Next, Environment, ServerStep, ConnStep, TimerStep, ReqStep, PubStep, vars,
     Connect, Admit, Rejected, Message, Refused, Start, Handshake, Write, WriteFails, Replied, Welcomed,
     Handled, Unwound, Expire, CloseExpired, ServeEnds, Drained, Leave, GiveBack, Notify, Lost,
     Publish, WriteEvent, Published, Stop, CloseServer
<1>1. ASSUME NEW w \in Socks, Connect(w) PROVE WelcomeInv'
  <2>1. client # w
    BY <1>0, <1>1 DEF HandshakeInv, Connect
  <2>2. \A v \in Socks \ {w} : up'[v] = up[v] /\ conns'[v] = conns[v]
    BY <1>1 DEF TypeInv, Connect
  <2>3. client \in Socks \cup {Nobody} /\ wire[w] = <<>>
    BY <1>0, <1>1 DEF TypeInv, WelcomeInv, Connect
  <2>. QED  BY <1>0, <1>1, <2>1, <2>2, <2>3 DEF WelcomeInv, Connect
<1>13. ASSUME NEW w \in Socks, Rejected(w) PROVE WelcomeInv'
  BY <1>0, <1>13 DEF TypeInv, HandshakeInv, WelcomeInv, Rejected
<1>14. ASSUME NEW w \in Socks, Refused(w) PROVE WelcomeInv'
  <2>1. \A r \in Reqs : sendLock # r /\ sendLock' # r
    BY <1>14 DEF Refused
  <2>2. \A v \in Socks : conns'[v] = conns[v] \/ conns'[v] \in {"drain", "serve"}
    BY <1>14 DEF TypeInv, Refused
  <2>. QED  BY <1>0, <1>14, <2>1, <2>2 DEF WelcomeInv, Refused
<1>2. ASSUME NEW w \in Socks, Admit(w) PROVE WelcomeInv'
  BY <1>0, <1>2 DEF TypeInv, HandshakeInv, WelcomeInv, Admit
<1>3. ASSUME NEW w \in Socks, Message(w) PROVE WelcomeInv'
  BY <1>0, <1>3 DEF TypeInv, HandshakeInv, WelcomeInv, Message
<1>4. ASSUME NEW w \in Socks, ServeEnds(w) PROVE WelcomeInv'
  BY <1>0, <1>4 DEF TypeInv, HandshakeInv, WelcomeInv, ServeEnds, Active
<1>5. ASSUME NEW w \in Socks, Drained(w) \/ Leave(w) PROVE WelcomeInv'
  <2>1. UNCHANGED <<stopped, reqs, pubs, of, up, wire, locks>>
    BY <1>5 DEF Drained, Leave
  <2>2. client = w
    BY <1>0, <1>5 DEF HandshakeInv, Drained, Leave
  <2>3. \A v \in Socks : conns'[v] \in {"none", "lock", "reject"} => conns[v] \in {"none", "lock", "reject"}
    BY <1>5 DEF TypeInv, Drained, Leave, GiveBack
  <2>4. (client' = Nobody /\ ~authed') \/ UNCHANGED <<client, authed>>
    BY <1>5, <2>2 DEF Drained, Leave, GiveBack
  <2>. QED  BY <1>0, <2>1, <2>3, <2>4 DEF WelcomeInv
<1>6. ASSUME NEW w \in Socks, Notify(w) \/ CloseServer(w) \/ Lost(w) \/ Expire(w) \/ CloseExpired(w)
      PROVE  WelcomeInv'
  BY <1>0, <1>6 DEF TypeInv, HandshakeInv, WelcomeInv, Notify, CloseServer, Lost, Expire, CloseExpired
<1>7. ASSUME NEW r \in Reqs, Start(r) \/ Handshake(r) \/ Handled(r) \/ Unwound(r) \/ Replied(r)
             \/ WriteFails(r)
      PROVE  WelcomeInv'
  <2>1. UNCHANGED <<client, authed, stopped, conns, pubs, of, up, wire>>
    BY <1>7 DEF Start, Handshake, Handled, Unwound, Replied, WriteFails
  <2>2. \A q \in Reqs \ {r} : reqs'[q] = reqs[q]
    BY <1>7 DEF TypeInv, Start, Handshake, Handled, Unwound, Replied, WriteFails
  <2>3. \A q \in Reqs : sendLock' = q => sendLock = q
    BY <1>7 DEF Start, Handshake, Handled, Unwound, Replied, WriteFails
  <2>4. ~(reqs'[r] = "welcome" /\ sendLock' = r)
    BY <1>0, <1>7 DEF TypeInv, HandshakeInv, Start, Handshake, Handled, Unwound, Replied, WriteFails
  <2>5. reqs[r] = "welcome" => ~up[client]
    BY <1>0, <1>7 DEF HandshakeInv, Start, Handshake, Handled, Unwound, Replied, WriteFails
  <2>6. \A q \in Reqs \ {r} : sendLock = q => sendLock' = q
    BY <1>7 DEF Start, Handshake, Handled, Unwound, Replied, WriteFails
  <2>. QED  BY <1>0, <2>1, <2>2, <2>3, <2>4, <2>5, <2>6 DEF WelcomeInv
<1>8. ASSUME NEW r \in Reqs, Welcomed(r) PROVE WelcomeInv'
  BY <1>0, <1>8 DEF TypeInv, HandshakeInv, WelcomeInv, Welcomed
<1>9. ASSUME NEW r \in Reqs, Write(r) PROVE WelcomeInv'
  <2>1. UNCHANGED <<client, authed, stopped, conns, reqs, pubs, of, up>> /\ sendLock' = r
                  /\ sendLock = Nobody
    BY <1>9 DEF Write
  <2>2. /\ of[r] = client /\ client \in Socks
        /\ conns[client] \in {"serve", "refuse", "drain"}
    BY <1>0, <1>9 DEF TypeInv, HandshakeInv, Write
  <2>3. CASE reqs[r] = "reply"
    BY <1>0, <1>9, <2>1, <2>2, <2>3 DEF WelcomeInv, Write
  <2>4. CASE reqs[r] = "welcome"
    <3>1. /\ \A v \in Socks \ {client} : wire'[v] = wire[v]
          /\ wire'[client] # <<>>
      <4>1. wire' = [wire EXCEPT ![client] = Append(@, Welcome)] /\ wire \in [Socks -> Seq(Nat)]
        BY <1>9, <2>2, <2>4 DEF TypeInv, Write
      <4>2. \A s \in Seq(Nat) : Append(s, Welcome) # <<>>
        BY DEF Welcome
      <4>. QED  BY <2>2, <4>1, <4>2
    <3>2. \A q \in Reqs : reqs[q] = "welcome" => q = r
      BY <1>0, <2>4 DEF HandshakeInv
    <3>3. \A p \in Pubs : pubs[p] = "wait" => of[p] \in Socks
      BY DEF TypeInv
    <3>. QED  BY <1>0, <2>1, <2>2, <2>4, <3>1, <3>2, <3>3 DEF WelcomeInv
  <2>. QED  BY <1>9, <2>3, <2>4 DEF Write
<1>10. ASSUME NEW p \in Pubs, Publish(p) \/ WriteEvent(p) \/ Published(p) PROVE WelcomeInv'
  <2>1. UNCHANGED <<client, authed, stopped, conns, reqs, up>>
    BY <1>10 DEF Publish, WriteEvent, Published
  <2>2. \A r \in Reqs : (sendLock' = r <=> sendLock = r) /\ of'[r] = of[r]
    BY <1>10 DEF TypeInv, Publish, WriteEvent, Published
  <2>3. \A v \in Socks : (wire'[v] = <<>> <=> wire[v] = <<>>)
    <3>1. CASE WriteEvent(p) /\ wire' # wire
      <4>1. /\ of[p] \in Socks /\ wire[of[p]] # <<>>
            /\ wire \in [Socks -> Seq(Nat)]
        BY <1>0, <3>1 DEF TypeInv, WelcomeInv, WriteEvent
      <4>2. wire' = [wire EXCEPT ![of[p]] = Append(@, sequence')]
        BY <3>1 DEF WriteEvent
      <4>3. \A s \in Seq(Nat) : Append(s, sequence') # <<>>
        <5>1. sequence' \in Nat
          BY <3>1 DEF TypeInv, WriteEvent
        <5>. QED  BY <5>1
      <4>. QED  BY <4>1, <4>2, <4>3
    <3>. QED  BY <1>10, <3>1 DEF Publish, WriteEvent, Published
  <2>4. \A q \in Pubs : pubs'[q] = "wait" =>
          \/ pubs[q] = "wait" /\ of'[q] = of[q]
          \/ of'[q] = client /\ authed
    BY <1>10 DEF TypeInv, Publish, WriteEvent, Published
  <2>5. \A q \in Pubs : pubs[q] = "wait" => of[q] \in Socks
    BY DEF TypeInv
  <2>6. /\ \A r \in Reqs : reqs[r] = "welcome" => of[r] \in Socks
        /\ authed => client \in Socks
        /\ client \in Socks \cup {Nobody}
    BY <1>0 DEF TypeInv, HandshakeInv
  <2>. QED  BY <1>0, <2>1, <2>2, <2>3, <2>4, <2>5, <2>6 DEF WelcomeInv
<1>11. CASE UNCHANGED vars
  BY <1>0, <1>11 DEF TypeInv, HandshakeInv, WelcomeInv, vars
<1>12. ~Stop
  BY DEF Stop
<1>. QED  BY <1>1, <1>2, <1>3, <1>4, <1>5, <1>6, <1>7, <1>8, <1>9, <1>10, <1>11, <1>12, <1>13, <1>14
     DEF Next, Environment, ServerStep, ConnStep, TimerStep, ReqStep, PubStep

-----------------------------------------------------------------------------
(* The numbers on the wire                                                 *)

(* The response is first on a wire, an event after it.                     *)
LEMMA OrderedAppend ==
  ASSUME NEW s \in Seq(Nat), NEW n \in Nat, Ordered(s, n)
  PROVE  /\ s = <<>> => Ordered(Append(s, Welcome), n)
         /\ s # <<>> => Ordered(Append(s, n + 1), n + 1)
         /\ Ordered(s, n + 1)
<1>1. Ordered(s, n + 1)
  BY DEF Ordered
<1>2. ASSUME s = <<>> PROVE Ordered(Append(s, Welcome), n)
  <2>1. Append(s, Welcome) = <<Welcome>>
    BY <1>2
  <2>. QED  BY <2>1 DEF Ordered, Welcome
<1>3. ASSUME s # <<>>, NEW i \in 1..Len(Append(s, n + 1))
      PROVE  LET a == Append(s, n + 1)
             IN  a[i] <= n + 1 /\ (a[i] = Welcome <=> i = 1) /\ (i > 1 => a[i - 1] < a[i])
  <2>1. Len(s) \in Nat /\ Len(s) >= 1 /\ Len(Append(s, n + 1)) = Len(s) + 1
    BY <1>3
  <2>2. \A j \in 1..Len(s) : Append(s, n + 1)[j] = s[j] /\ s[j] \in Nat
    OBVIOUS
  <2>3. Append(s, n + 1)[Len(s) + 1] = n + 1
    OBVIOUS
  <2>. QED  BY <1>3, <2>1, <2>2, <2>3 DEF Ordered, Welcome
<1>. QED  BY <1>1, <1>2, <1>3 DEF Ordered

LEMMA NumbersNext ==
  TypeInv /\ HandshakeInv /\ WelcomeInv /\ NumbersInv /\ [Next]_vars => NumbersInv'
<1> SUFFICES ASSUME TypeInv, HandshakeInv, WelcomeInv, NumbersInv, [Next]_vars, ~stopped'
             PROVE  \A w \in Socks : Ordered(wire'[w], sequence')
  BY DEF NumbersInv
<1>0. ~stopped
  BY DEF Next, Environment, ServerStep, ConnStep, TimerStep, ReqStep, PubStep, vars, server,
     Connect, Admit, Rejected, Message, Refused, Start, Handshake, Write, WriteFails, Replied,
     Welcomed, Handled, Unwound, Expire, CloseExpired, ServeEnds, Drained, Leave, GiveBack,
     Notify, Lost, Publish, WriteEvent, Published, Stop, CloseServer
<1>5. \/ UNCHANGED <<wire, sequence>>
      \/ \E r \in Reqs : Write(r)
      \/ \E p \in Pubs : WriteEvent(p)
  <2>1. \A w \in Socks :
          ConnStep(w) \/ TimerStep(w) \/ Connect(w) \/ Message(w) \/ Lost(w)
          => UNCHANGED <<wire, sequence>>
    BY DEF ConnStep, TimerStep, Connect, Message, Lost, Admit, Rejected, Refused, ServeEnds,
       Drained, Leave, Notify, CloseServer, Expire, CloseExpired
  <2>2. \A r \in Reqs : ReqStep(r) => Write(r) \/ UNCHANGED <<wire, sequence>>
    BY DEF ReqStep, Start, Handshake, WriteFails, Replied, Welcomed, Handled, Unwound
  <2>3. \A p \in Pubs :
          PubStep(p) \/ Publish(p) => WriteEvent(p) \/ UNCHANGED <<wire, sequence>>
    BY DEF PubStep, Publish, Published
  <2>4. UNCHANGED vars \/ Stop => UNCHANGED <<wire, sequence>>
    BY DEF vars, Stop
  <2>. QED  BY <2>1, <2>2, <2>3, <2>4 DEF Next, Environment, ServerStep
<1>1. /\ \A w \in Socks : wire[w] \in Seq(Nat) /\ Ordered(wire[w], sequence)
      /\ wire \in [Socks -> Seq(Nat)] /\ sequence \in Nat
  BY <1>0 DEF TypeInv, NumbersInv
<1>2. CASE UNCHANGED <<wire, sequence>>
  BY <1>1, <1>2
<1>3. ASSUME NEW r \in Reqs, Write(r) PROVE \A w \in Socks : Ordered(wire'[w], sequence')
  <2>1. sequence' = sequence /\ sendLock = Nobody /\ up[of[r]]
    BY <1>3 DEF Write
  <2>2. CASE wire' = wire
    BY <1>1, <2>1, <2>2
  <2>3. CASE reqs[r] = "welcome" /\ wire' = [wire EXCEPT ![of[r]] = Append(@, Welcome)]
    <3>1. of[r] = client /\ client \in Socks /\ ~authed
      BY <1>0, <2>3 DEF TypeInv, HandshakeInv, Busy
    <3>2. \A q \in Reqs : sendLock # q
      BY <2>1
    <3>3. wire[client] = <<>>
      BY <1>0, <2>1, <3>1, <3>2 DEF WelcomeInv
    <3>4. Ordered(Append(wire[client], Welcome), sequence)
      BY <1>1, <3>1, <3>3, OrderedAppend
    <3>5. wire'[client] = Append(wire[client], Welcome) /\ \A w \in Socks \ {client} : wire'[w] = wire[w]
      BY <1>1, <2>3, <3>1
    <3>. QED  BY <1>1, <2>1, <3>4, <3>5
  <2>. QED  BY <1>3, <2>2, <2>3 DEF Write
<1>4. ASSUME NEW p \in Pubs, WriteEvent(p) PROVE \A w \in Socks : Ordered(wire'[w], sequence')
  <2>1. sequence' = sequence + 1 /\ of[p] \in Socks /\ wire[of[p]] # <<>>
    BY <1>0, <1>4 DEF TypeInv, WelcomeInv, WriteEvent
  <2>2. \A w \in Socks : Ordered(wire[w], sequence')
    BY <1>1, <2>1, OrderedAppend
  <2>3. CASE wire' = [wire EXCEPT ![of[p]] = Append(@, sequence')]
    <3>1. Ordered(Append(wire[of[p]], sequence'), sequence')
      BY <1>1, <2>1, OrderedAppend
    <3>2. wire'[of[p]] = Append(wire[of[p]], sequence') /\ \A w \in Socks \ {of[p]} : wire'[w] = wire[w]
      BY <1>1, <2>1, <2>3
    <3>. QED  BY <2>2, <3>1, <3>2
  <2>. QED  BY <1>4, <2>2, <2>3 DEF WriteEvent
<1>. QED  BY <1>2, <1>3, <1>4, <1>5

(* On every connection the handshake response comes first and once and the *)
(* events after it have increasing numbers, for any number of connections, *)
(* requests and publications: publish() looks at the client before it      *)
(* waits for the send lock and _process_message sends the response before  *)
(* the client counts as authenticated (desktop/control_server.py).         *)
THEOREM EventsFollowTheWelcome == Spec => []WelcomeThenEvents
<1>1. ServerInv /\ [Next]_vars => ServerInv'
  BY TypeNext, HandshakeNext, WelcomeNext, NumbersNext DEF ServerInv
<1>2. ServerInv => WelcomeThenEvents
  BY DEF ServerInv, NumbersInv, Ordered, WelcomeThenEvents
<1>. QED  BY <1>1, <1>2, ServerInit, PTL DEF Spec

=============================================================================
