------------------------ MODULE ServerProcess_proofs ------------------------
(***************************************************************************)
(* StoreOutlivesConnections and SocketsAreTracked for any command lines,   *)
(* any clients and any limit of sessions.                                  *)
(*                                                                         *)
(* The argument: a listener is open only while the process starts or runs  *)
(* (OpenWhileUp), clients of HTTP and IMAP are connected only to a         *)
(* listener that has not settled, and what a connection does tells where   *)
(* it is (Connections).  So when all listeners have settled, which closing *)
(* the store waits for, nobody is left and nobody can come.  A socket gets *)
(* lost only if an upgraded connection were no session: STARTTLS is a      *)
(* command of sessions and a session stays one until it leaves.            *)
(***************************************************************************)
EXTENDS ServerProcess, TLAPS

Connected ==
  [at: Listeners \cup {"none"},
   is: {"gone", "idle", "busy", "handshake", "session", "bye", "refused"},
   upgraded: BOOLEAN]

Typed ==
  /\ listener \in [Listeners -> {"off", "open", "closing", "closed"}]
  /\ peer \in [Peers -> Connected]
  /\ sockets \subseteq Peers

\* store.close() has been called.
Leaving == store \in {"closing", "closed", "unsaved"}

OpenWhileUp ==
  /\ \A l \in Listeners :
       listener[l] = "open" => phase \in {"starting", "running"}
  /\ phase \in {"failing", "stopping"} => ~accepting
  /\ Leaving => phase \in {"failing", "stopping", "ending", "exited"}

Connections ==
  \A p \in Peers :
    /\ peer[p].at \in {"http", "imap"} =>
         listener[peer[p].at] \in {"open", "closing"}
    /\ peer[p].is \in {"handshake", "session", "bye"} => peer[p].at = "imap"
    /\ peer[p].upgraded => peer[p].is \in {"session", "bye"}

IInv ==
  /\ Typed
  /\ OpenWhileUp
  /\ Connections
  /\ SocketsAreTracked
  /\ StoreOutlivesConnections

-----------------------------------------------------------------------------
LEMMA GoneIsTyped == Gone \in Connected
BY DEF Gone, Connected, Listeners

LEMMA InitIInv == Init => IInv
BY GoneIsTyped
DEF Init, IInv, Typed, OpenWhileUp, Connections, SocketsAreTracked,
    StoreOutlivesConnections, Leaving, At, Listeners, Gone

\* The end of the process ends its listeners and connections with it.
LEMMA ExitStep ==
  ASSUME IInv, NEW code, Exit(code), UNCHANGED accepting,
         Leaving' => ~accepting
  PROVE  IInv'
BY GoneIsTyped
DEF Exit, IInv, Typed, OpenWhileUp, Connections, SocketsAreTracked,
    StoreOutlivesConnections, Leaving, At, Listeners, Gone

\* The start of the closing takes nobody off a listener but idle clients of
\* HTTP, and it leaves every listener that was open for the store to wait for.
LEMMA ClosingStep ==
  ASSUME IInv, BeginClosing, phase \in {"starting", "running"},
         phase' \in {"failing", "stopping"}, UNCHANGED <<store, sockets>>
  PROVE  IInv'
<1> USE DEF IInv
<1>1. Typed'
  BY GoneIsTyped DEF Typed, BeginClosing, Connected
<1>2. OpenWhileUp' /\ StoreOutlivesConnections'
  <2>1. ~Leaving' /\ ~accepting'
    BY DEF BeginClosing, OpenWhileUp, Leaving
  <2>2. \A l \in Listeners : listener'[l] # "open"
    BY DEF BeginClosing
  <2>3. OpenWhileUp'
    BY <2>1, <2>2 DEF OpenWhileUp
  <2>4. StoreOutlivesConnections'
    BY <2>1 DEF StoreOutlivesConnections, Leaving
  <2> QED
    BY <2>3, <2>4
<1>3. \A q \in Peers :
        \/ peer'[q] = peer[q] /\ peer[q].is # "session"
        \/ peer'[q] = Gone /\ peer[q].at = "http"
        \/ peer[q].is = "session" /\ peer'[q] = [peer[q] EXCEPT !.is = "bye"]
  BY DEF BeginClosing
<1>4. Connections'
  BY <1>3 DEF Connections, Typed, Connected, Gone, BeginClosing, Listeners
<1>5. SocketsAreTracked'
  <2>1. \A q \in Peers : peer'[q].at = "imap" <=> peer[q].at = "imap"
    <3> TAKE q \in Peers
    <3>1. peer[q] \in Connected
      BY DEF Typed
    <3>2. [peer[q] EXCEPT !.is = "bye"].at = peer[q].at
      BY <3>1 DEF Connected
    <3>3. Gone.at # "imap"
      BY DEF Gone
    <3> QED
      BY <1>3, <3>2, <3>3
  <2> QED
    BY <2>1 DEF SocketsAreTracked, At
<1> QED
  BY <1>1, <1>2, <1>4, <1>5

LEMMA StartupStep ==
  ASSUME IInv, Startup
  PROVE  IInv'
<1> USE DEF IInv
<1>1. ~Leaving
  BY DEF OpenWhileUp, Startup, Parse, OpenStore, LoadCertificate, ListenSmtp,
     ListenHttp, ListenImap, Ready
<1>2. ASSUME Fail, phase = "starting" PROVE IInv'
  BY <1>2, ClosingStep DEF Fail
<1>3. ASSUME UNCHANGED <<listener, peer, sockets>>, ~Leaving',
             phase' \in {"starting", "running"}
      PROVE  IInv'
  BY <1>3
  DEF Typed, OpenWhileUp, Connections, SocketsAreTracked,
      StoreOutlivesConnections, Leaving, At
<1>4. ASSUME NEW l \in Listeners, NEW next, Listen(l, next), phase = "starting"
      PROVE  IInv'
  BY <1>1, <1>4
  DEF Listen, service, clients, Typed, OpenWhileUp, Connections,
      SocketsAreTracked, StoreOutlivesConnections, Leaving, At, Listeners
<1>5. CASE Parse
  BY <1>1, <1>3, <1>5, ExitStep DEF Parse, service, clients, Leaving
<1>6. CASE OpenStore
  BY <1>1, <1>3, <1>6, ExitStep DEF OpenStore, service, clients, Leaving
<1>7. CASE LoadCertificate
  BY <1>1, <1>2, <1>3, <1>7 DEF LoadCertificate, service, net, clients, Leaving
<1>8. CASE ListenSmtp \/ ListenHttp \/ ListenImap
  BY <1>2, <1>4, <1>8 DEF ListenSmtp, ListenHttp, ListenImap, Listeners
<1>9. CASE Ready
  BY <1>1, <1>3, <1>9 DEF Ready, service, net, clients, Leaving
<1> QED
  BY <1>5, <1>6, <1>7, <1>8, <1>9 DEF Startup

\* A client comes only to an open listener, and its socket is forgotten as
\* it leaves, upgraded or not.
LEMMA ClientStep ==
  ASSUME IInv, NEW p \in Peers, Client(p)
  PROVE  IInv'
<1> USE DEF IInv
<1>1. /\ UNCHANGED <<phase, store, accepting, listener>>
      /\ \A q \in Peers \ {p} : peer'[q] = peer[q]
  BY DEF Client, ConnectImap, Connect, Handshake, StartTls, Request, Leave,
     service, net, Typed
<1>2. ASSUME peer'[p] \in Connected, peer' \in [Peers -> Connected],
             sockets' \subseteq Peers,
             peer'[p].at \in {"http", "imap"} =>
               listener[peer'[p].at] \in {"open", "closing"},
             peer'[p].is \in {"handshake", "session", "bye"} =>
               peer'[p].at = "imap",
             peer'[p].upgraded => peer'[p].is \in {"session", "bye"},
             sockets' = {q \in Peers : peer'[q].at = "imap"}
      PROVE  IInv'
  <2>1. Typed' /\ OpenWhileUp' /\ Connections' /\ SocketsAreTracked'
    BY <1>1, <1>2
    DEF Typed, OpenWhileUp, Connections, SocketsAreTracked, Leaving, At
  <2>2. StoreOutlivesConnections'
    BY <1>1, <2>1 DEF StoreOutlivesConnections, Connections, At, Listeners
  <2> QED
    BY <2>1, <2>2
<1> USE DEF Typed, Connections, SocketsAreTracked, At, Connected, Listeners
<1>3. CASE ConnectImap(p)
  BY <1>1, <1>2, <1>3 DEF ConnectImap, Accepted, Gone
<1>4. CASE Connect(p)
  BY <1>1, <1>2, <1>4 DEF Connect, Gone
<1>5. CASE Handshake(p)
  BY <1>1, <1>2, <1>5 DEF Handshake, Accepted
<1>6. CASE StartTls(p)
  BY <1>1, <1>2, <1>6 DEF StartTls
<1>7. CASE Request(p)
  BY <1>1, <1>2, <1>7 DEF Request
<1>8. CASE Leave(p)
  BY <1>1, <1>2, <1>8 DEF Leave, ForgetSocket, ImapSessions, Gone
<1> QED
  BY <1>3, <1>4, <1>5, <1>6, <1>7, <1>8 DEF Client

LEMMA DisconnectStep ==
  ASSUME IInv, NEW ps \in SUBSET Peers, Disconnect(ps),
         sockets' = sockets \ ps,
         UNCHANGED <<phase, store, accepting, listener>>
  PROVE  IInv'
BY GoneIsTyped
DEF IInv, Disconnect, Typed, OpenWhileUp, Connections, SocketsAreTracked,
    StoreOutlivesConnections, Leaving, At, Gone

LEMMA EndStep ==
  ASSUME IInv, Closing
  PROVE  IInv'
<1> USE DEF IInv
<1>1. CASE DestroySockets
  BY <1>1, DisconnectStep DEF DestroySockets, service, net, Typed
<1>2. CASE CloseStore
  <2>1. \A l \in Listeners : listener[l] \in {"off", "closed"}
    BY <1>2 DEF CloseStore, AllSettled
  <2>2. At("http") \cup At("imap") = {}
    BY <2>1 DEF Connections, At, Listeners
  <2> QED
    BY <1>2, <2>1, <2>2
    DEF CloseStore, net, clients, Typed, OpenWhileUp, Connections,
        SocketsAreTracked, StoreOutlivesConnections, Leaving, At
<1>3. CASE StoreClosed
  BY <1>3
  DEF StoreClosed, net, clients, Typed, OpenWhileUp, Connections,
      SocketsAreTracked, StoreOutlivesConnections, Leaving, At
<1>4. CASE Stopped \/ End
  BY <1>4, ExitStep
  DEF Stopped, End, service, StoreOutlivesConnections, Leaving
<1>5. ASSUME NEW l \in Listeners, GraceOver(l) PROVE IInv'
  BY <1>5, DisconnectStep
  DEF GraceOver, service, Typed, OpenWhileUp, Connections, SocketsAreTracked,
      StoreOutlivesConnections, Leaving, At
<1>6. ASSUME NEW l \in Listeners, Closed(l) PROVE IInv'
  BY <1>6
  DEF Closed, service, clients, Typed, OpenWhileUp, Connections,
      SocketsAreTracked, StoreOutlivesConnections, Leaving, At, Listeners
<1> QED
  BY <1>1, <1>2, <1>3, <1>4, <1>5, <1>6 DEF Closing

LEMMA IInvStep == IInv /\ [Next]_vars => IInv'
<1> SUFFICES ASSUME IInv, [Next]_vars PROVE IInv'
  OBVIOUS
<1>1. CASE Stop
  BY <1>1, ClosingStep DEF Stop
<1>2. CASE Kill \/ ExitNow
  BY <1>2, ExitStep DEF Kill, ExitNow, service, IInv, StoreOutlivesConnections, Leaving
<1>3. CASE UNCHANGED vars
  BY <1>3
  DEF vars, service, net, clients, IInv, Typed, OpenWhileUp, Connections,
      SocketsAreTracked, StoreOutlivesConnections, Leaving, At
<1> QED
  BY <1>1, <1>2, <1>3, StartupStep, ClientStep, EndStep DEF Next

LEMMA Inductive == Spec => []IInv
BY InitIInv, IInvStep, PTL DEF Spec

-----------------------------------------------------------------------------
\* StoreOutlivesConnections: from the last snapshot to the exit every listener
\* has settled and every HTTP and IMAP client is gone, for any number of
\* clients, in a shutdown and after a start that failed at any step.
THEOREM StoreClosesLast == Spec => []StoreOutlivesConnections
<1>1. IInv => StoreOutlivesConnections
  BY DEF IInv
<1> QED
  BY <1>1, Inductive, PTL

\* SocketsAreTracked: the sockets that imap-server.ts would destroy are those
\* of the connections there are, whatever limit refuses a session and
\* whoever upgraded before it left.
THEOREM SocketsAreExact == Spec => []SocketsAreTracked
<1>1. IInv => SocketsAreTracked
  BY DEF IInv
<1> QED
  BY <1>1, Inductive, PTL
=============================================================================
