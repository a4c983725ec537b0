--------------------------- MODULE ServerProcess ---------------------------
(***************************************************************************)
(* The server process from its command line to its exit: run-server.ts,    *)
(* startServer() and its close() in runtime.ts, the HTTP listener of       *)
(* api/listener.ts and the sockets of imap-server.ts.                      *)
(*                                                                         *)
(* Startup awaits one step after the other while clients already connect   *)
(* to what is open; the shutdown closes all listeners at once and the      *)
(* store last.  A grace period is over at any time after it began.  Node   *)
(* ends a process by itself only when no listener or connection is left.   *)
(***************************************************************************)
EXTENDS Naturals, FiniteSets, ServerConfig

CONSTANTS
  CommandLines,        \* the command lines the process may be given
  Peers,               \* client connections; a peer may connect again
  MaxSessions          \* most IMAP sessions

ASSUME ProcessAssumption ==
  /\ CommandLines \subseteq CommandLine
  /\ MaxSessions \in Nat

Listeners == {"smtp", "http", "imap"}

VARIABLES
  config,      \* the command line, and what parseServerArgs() made of it
  phase,       \* "starting", "running", "failing", "stopping", "exited"
               \* or "ending": the failed start left the event loop alone
  step,        \* the step startServer() awaits
  exitCode,    \* 0, 1 and 2 as "ok", "failed" and "usage"
  store,       \* "none", "open", "closing" and "closed", or "unsaved": closed
               \* without its last changes
  accepting,   \* MailService.accepting
  listener,    \* per listener "off", "open", "closing", "closed"
  mcp,         \* the endpoint at /mcp
  graceOver,   \* listeners whose grace period has passed
  peer,        \* where each client is connected and what it does
  sockets      \* the set of that name in imap-server.ts

service == <<store, accepting>>
net == <<listener, mcp, graceOver>>
clients == <<peer, sockets>>
vars == <<config, phase, step, exitCode, service, net, clients>>

Gone == [at |-> "none", is |-> "gone", upgraded |-> FALSE]
At(l) == {p \in Peers : peer[p].at = l}

\* imap.connections: ImapKit keeps a session until its socket closes.
ImapSessions == {p \in At("imap") : peer[p].is \in {"session", "bye"}}

\* The HTTP server and its connections end with the process.
Exit(code) ==
  /\ phase' = "exited"
  /\ exitCode' = code
  /\ listener' = [l \in Listeners |-> "off"]
  /\ mcp' = "off"
  /\ peer' = [p \in Peers |-> Gone]
  /\ sockets' = {}

-----------------------------------------------------------------------------
(***************************************************************************)
(* Startup                                                                 *)
(***************************************************************************)
Parse ==
  /\ phase = "starting" /\ step = "parse"
  /\ \/ UsageError(config) /\ Exit("usage") /\ UNCHANGED <<config, step>>
     \/ /\ ~UsageError(config) /\ config.asks # "run"
        /\ Exit("ok") /\ UNCHANGED <<config, step>>
     \/ /\ Runs(config)
        /\ config' = Configured(config)
        /\ step' = "store"
        /\ UNCHANGED <<phase, exitCode, listener, mcp, clients>>
  /\ UNCHANGED <<service, graceOver>>

\* The only step whose failure leaves nothing to close.
OpenStore ==
  /\ phase = "starting" /\ step = "store"
  /\ \/ /\ store' = "open" /\ accepting' = TRUE
        /\ step' = "certificate"
        /\ UNCHANGED <<phase, exitCode, listener, mcp, clients>>
     \/ Exit("failed") /\ UNCHANGED <<step, service>>
  /\ UNCHANGED <<config, graceOver>>

\* What close() and the cleanup of a failed start do up to their await.
BeginClosing ==
  /\ accepting' = FALSE
  /\ mcp' = IF mcp = "open" THEN "closed" ELSE mcp
  /\ listener' = [l \in Listeners |->
                    IF listener[l] = "open" THEN "closing" ELSE listener[l]]
  /\ peer' = [p \in Peers |->
                CASE peer[p].at = "http" /\ peer[p].is = "idle" -> Gone
                  [] peer[p].is = "session" -> [peer[p] EXCEPT !.is = "bye"]
                  [] OTHER -> peer[p]]

Fail ==
  /\ phase' = "failing"
  /\ BeginClosing
  /\ UNCHANGED <<step, store, graceOver, sockets>>

LoadCertificate ==
  /\ phase = "starting" /\ step = "certificate"
  /\ \/ /\ step' = "smtp"
        /\ UNCHANGED <<phase, service, net, clients>>
     \/ config.tls # "none" /\ Fail
  /\ UNCHANGED <<config, exitCode>>

Listen(l, next) ==
  /\ listener' = [listener EXCEPT ![l] = "open"]
  /\ step' = next
  /\ UNCHANGED <<phase, service, graceOver, clients>>

ListenSmtp ==
  /\ phase = "starting" /\ step = "smtp"
  /\ \/ Listen("smtp", "http") /\ UNCHANGED mcp
     \/ Fail
  /\ UNCHANGED <<config, exitCode>>

\* The endpoint for MCP exists before the listener that serves it.
ListenHttp ==
  /\ phase = "starting" /\ step = "http"
  /\ \/ Listen("http", "imap") /\ mcp' = (IF config.mcp THEN "open" ELSE "off")
     \/ Fail
  /\ UNCHANGED <<config, exitCode>>

ListenImap ==
  /\ phase = "starting" /\ step = "imap" /\ config.imap
  /\ \/ Listen("imap", "ready") /\ UNCHANGED mcp
     \/ Fail
  /\ UNCHANGED <<config, exitCode>>

\* startServer() returns and stopOnSignals() takes over.
Ready ==
  /\ phase = "starting"
  /\ step = "ready" \/ (step = "imap" /\ ~config.imap)
  /\ phase' = "running" /\ step' = "ready"
  /\ UNCHANGED <<config, exitCode, service, net, clients>>

-----------------------------------------------------------------------------
(***************************************************************************)
(* Clients                                                                 *)
(***************************************************************************)
Up == phase # "exited"

\* accept(): a session, or BYE when there are too many.
Accepted(p) ==
  [at |-> "imap", upgraded |-> FALSE,
   is |-> IF Cardinality(ImapSessions) >= MaxSessions
          THEN "refused" ELSE "session"]

ConnectImap(p) ==
  /\ listener["imap"] = "open" /\ peer[p] = Gone
  /\ Cardinality(At("imap")) < 2 * MaxSessions
  /\ sockets' = sockets \cup {p}
  /\ peer' = [peer EXCEPT ![p] =
                IF config.tls = "implicit"
                THEN [at |-> "imap", is |-> "handshake", upgraded |-> FALSE]
                ELSE Accepted(p)]
  /\ UNCHANGED <<config, phase, step, exitCode, service, net>>

Connect(p) ==
  /\ peer[p] = Gone
  /\ \E l \in {"smtp", "http"} :
       /\ listener[l] = "open"
       /\ peer' = [peer EXCEPT ![p] =
                     [at |-> l, is |-> "idle", upgraded |-> FALSE]]
  /\ UNCHANGED <<config, phase, step, exitCode, service, net, sockets>>

\* A handshake may finish while the listener is closing.
Handshake(p) ==
  /\ peer[p].is = "handshake"
  /\ peer' = [peer EXCEPT ![p] = Accepted(p)]
  /\ UNCHANGED <<config, phase, step, exitCode, service, net, sockets>>

\* STARTTLS takes the listeners off the socket the connection began with.
StartTls(p) ==
  /\ peer[p].is = "session" /\ config.tls = "starttls"
  /\ ~peer[p].upgraded
  /\ peer' = [peer EXCEPT ![p].upgraded = TRUE]
  /\ UNCHANGED <<config, phase, step, exitCode, service, net, sockets>>

\* A request is answered; a closing server may also close the connection.
Request(p) ==
  /\ peer[p].at = "http"
  /\ \E is \in {"idle", "busy"} \ {peer[p].is} :
       peer' = [peer EXCEPT ![p].is = is]
  /\ UNCHANGED <<config, phase, step, exitCode, service, net, sockets>>

\* Mutant: only the socket itself knows that it closed.
ForgetSocketOnClose(p) ==
  sockets' = IF peer[p].upgraded THEN sockets ELSE sockets \ {p}

\* The socket's 'close' event, and the session's 'close' for an upgraded one.
ForgetSocket(p) ==
  sockets' = IF peer[p].upgraded /\ p \notin ImapSessions
             THEN sockets ELSE sockets \ {p}

\* A client disconnects, or runs into a timeout of its own listener.
Leave(p) ==
  /\ Up /\ peer[p] # Gone
  /\ ForgetSocket(p)
  /\ peer' = [peer EXCEPT ![p] = Gone]
  /\ UNCHANGED <<config, phase, step, exitCode, service, net>>

-----------------------------------------------------------------------------
(***************************************************************************)
(* Closing                                                                 *)
(***************************************************************************)
Stop ==
  /\ phase = "running"
  /\ phase' = "stopping"
  /\ BeginClosing
  /\ UNCHANGED <<config, step, exitCode, store, graceOver, sockets>>

\* Before stopOnSignals() a signal ends the process by default.
Kill ==
  /\ phase \in {"starting", "failing", "ending"}
  /\ Exit("killed")
  /\ UNCHANGED <<config, step, service, graceOver>>

\* A second stop request, or the deadline of the first.
ExitNow ==
  /\ phase = "stopping"
  /\ Exit("failed")
  /\ UNCHANGED <<config, step, service, graceOver>>

Disconnect(ps) == peer' = [p \in Peers |-> IF p \in ps THEN Gone ELSE peer[p]]

\* closeAllConnections() for HTTP; smtp-server hangs up on its clients.
GraceOver(l) ==
  /\ listener[l] = "closing" /\ l \notin graceOver
  /\ graceOver' = graceOver \cup {l}
  /\ IF l = "http" THEN Disconnect(At("http")) ELSE UNCHANGED peer
  /\ UNCHANGED <<config, phase, step, exitCode, service, listener, mcp, sockets>>

\* Mutant: only the sessions ImapKit knows of are destroyed.
DestroySessions ==
  /\ listener["imap"] = "closing"
  /\ "imap" \in graceOver /\ ImapSessions # {}
  /\ Disconnect(ImapSessions)
  /\ sockets' = sockets \ ImapSessions
  /\ UNCHANGED <<config, phase, step, exitCode, service, net>>

\* sessionsGone() resolves, and what is left in sockets is destroyed.
DestroySockets ==
  /\ listener["imap"] = "closing"
  /\ ImapSessions = {} \/ "imap" \in graceOver
  /\ sockets # {}
  /\ Disconnect(sockets)
  /\ sockets' = {}
  /\ UNCHANGED <<config, phase, step, exitCode, service, net>>

\* smtp-server's close() does not wait for the clients it hangs up on.
Closed(l) ==
  /\ listener[l] = "closing"
  /\ At(l) = {} \/ (l = "smtp" /\ l \in graceOver)
  /\ listener' = [listener EXCEPT ![l] = "closed"]
  /\ UNCHANGED <<config, phase, step, exitCode, service, mcp, graceOver,
                 clients>>

\* Mutant: close() does not wait for IMAP, the listener added last.
AllSettledButImap == \A l \in {"smtp", "http"} : listener[l] \in {"off", "closed"}

AllSettled == \A l \in Listeners : listener[l] \in {"off", "closed"}

\* store.close() begins with the snapshot of what is unsaved.
CloseStore ==
  /\ phase \in {"failing", "stopping"} /\ store = "open"
  /\ AllSettled
  /\ store' = "closing"
  /\ UNCHANGED <<config, phase, step, exitCode, accepting, net, clients>>

\* The database is closed whether or not the snapshot could be written; a
\* failed start only logs that.
StoreClosed ==
  /\ store = "closing"
  /\ store' \in IF config.persistent THEN {"closed", "unsaved"} ELSE {"closed"}
  /\ phase' = IF phase = "failing" THEN "ending" ELSE phase
  /\ UNCHANGED <<config, step, exitCode, accepting, net, clients>>

\* closeAndExit() goes on after the await.
Stopped ==
  /\ phase = "stopping" /\ store \in {"closed", "unsaved"}
  /\ Exit(IF store = "closed" THEN "ok" ELSE "failed")
  /\ UNCHANGED <<config, step, service, graceOver>>

\* runServerProgram() has set the exit code and returned.
End ==
  /\ phase = "ending"
  /\ AllSettled /\ \A p \in Peers : peer[p] = Gone
  /\ Exit("failed")
  /\ UNCHANGED <<config, step, service, graceOver>>

-----------------------------------------------------------------------------
Init ==
  /\ config \in CommandLines
  /\ phase = "starting" /\ step = "parse"
  /\ exitCode = "none"
  /\ store = "none" /\ accepting = FALSE
  /\ listener = [l \in Listeners |-> "off"]
  /\ mcp = "off" /\ graceOver = {}
  /\ peer = [p \in Peers |-> Gone]
  /\ sockets = {}

Startup ==
  \/ Parse \/ OpenStore \/ LoadCertificate \/ ListenSmtp \/ ListenHttp
  \/ ListenImap \/ Ready

Client(p) ==
  \/ ConnectImap(p) \/ Connect(p) \/ Handshake(p) \/ StartTls(p)
  \/ Request(p) \/ Leave(p)

Closing ==
  \/ DestroySockets \/ CloseStore \/ StoreClosed \/ Stopped \/ End
  \/ \E l \in Listeners : GraceOver(l) \/ Closed(l)

Next ==
  \/ Startup \/ Closing
  \/ Stop \/ Kill \/ ExitNow
  \/ \E p \in Peers : Client(p)

Spec == Init /\ [][Next]_vars

\* Timers fire, awaited calls return and callbacks run.  Nothing is asked of
\* clients, and neither the deadline nor a second signal is relied on.
FairSpec ==
  /\ Spec
  /\ WF_vars(Startup) /\ WF_vars(DestroySockets) /\ WF_vars(CloseStore)
  /\ WF_vars(StoreClosed) /\ WF_vars(Stopped) /\ WF_vars(End)
  /\ \A l \in Listeners : WF_vars(GraceOver(l)) /\ WF_vars(Closed(l))

-----------------------------------------------------------------------------
\* The store is closed last: from the beginning of its last snapshot until
\* the process exits no listener is open, no HTTP connection or IMAP socket is
\* left and no message is accepted, whichever listener took how long to close,
\* in a shutdown with every listener and after a start that failed at any step.
StoreOutlivesConnections ==
  store \in {"closing", "closed", "unsaved"} =>
    /\ ~accepting
    /\ \A l \in Listeners : listener[l] \in {"off", "closed"}
    /\ At("http") \cup At("imap") = {}

\* imap-server.ts tracks exactly the connections there are, through refused
\* connections, handshakes and STARTTLS: what it forgets keeps the shutdown
\* waiting, what it keeps is a leak.
SocketsAreTracked == sockets = At("imap")

\* A shutdown ends the process without the deadline and without a second
\* signal, whatever clients do: every listener gets rid of the clients that do
\* not leave, or does not wait for them.  A failed start leaves the end to
\* Node, which waits for every connection: it ends for any clients of HTTP, but
\* SMTP clients that were hung up on must let go of their connection.
ProcessEnds ==
  /\ (phase = "stopping") ~> (phase = "exited")
  /\ []<>(At("smtp") = {}) => ((phase = "failing") ~> (phase = "exited"))
=============================================================================
