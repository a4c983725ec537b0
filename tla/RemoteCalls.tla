---------------------------- MODULE RemoteCalls ----------------------------
(***************************************************************************)
(* Calls from other processes: the API client library, the CLI with its    *)
(* wait loop, MCP clients and the stdio bridge on one side; the guards,    *)
(* REST routes, MCP request slots, wait slots and tools on the other.      *)
(*                                                                         *)
(* A call and its HTTP request are two pieces of state: the caller may     *)
(* give up, time out or lose the connection at any moment and the server   *)
(* learns of it later, or not at all.  The mailbox keeps what these calls  *)
(* see of it: identity, last id, stored ids, and those that match the one  *)
(* filter all waits use.                                                   *)
(***************************************************************************)
EXTENDS Integers, FiniteSets, Functions, HttpApi, Invocation

CONSTANTS
  Calls,
  Asks,            \* what each call may ask for, and how
  BridgeLines,     \* command lines of the bridge
  Policy,          \* an HttpPolicy
  MaxMcpRequests,  \* MAX_MCP_REQUESTS
  MaxMcpWaits,     \* MAX_MCP_WAITS
  MaxActiveWaits,  \* MAX_ACTIVE_WAITS
  MaxWaitMs,
  Arrivals,        \* whether new mail matches the filter, per kind of mail
  MaxId, MaxFaults    \* bounds of the model

Vias == {"http", "library", "cli", "mcp", "legacy", "bridge"}

ASSUME RemoteAssumption ==
  /\ IsFiniteSet(Calls) /\ MaxId \in Nat \ {0} /\ Arrivals \subseteq BOOLEAN
  /\ \A c \in Calls : \A a \in Asks[c] :
       a.via \in Vias /\ a.after \in Int /\ a.mailbox \in Int
  /\ MaxMcpWaits \in Nat /\ MaxActiveWaits \in Nat /\ MaxMcpRequests \in Nat

VARIABLES
  up,          \* the server: "up", "stopping", "down"
  stops,       \* how often it was stopped
  mutations,   \* --mcp-allow-mutations
  box,         \* the mailbox
  active,      \* MCP requests in progress, as http.ts counts them
  waits,       \* WaitSlots.used
  bridge,      \* "starting", "serving", "closing" or its exit status
  call,        \* each call at its caller
  request,     \* each call's request at the server
  removed      \* history: the mail each call removed

server == <<up, stops, mutations>>
slots == <<active, waits>>
vars == <<server, box, slots, bridge, call, request, removed>>

Ask(c) == call[c].ask
\* What went wrong so far: stops of the server, and troubles of the calls.
Faults ==
  stops + Cardinality({t \in Calls \X {"aborted", "timedOut", "lost", "proxied"} :
                 call[t[1]][t[2]]})
Mcp(c) == Ask(c).via \in {"mcp", "legacy", "bridge"}
CliWait(c) == Ask(c).via = "cli" /\ Ask(c).op = "wait"
Open(c) == call[c].is = "open"

\* What the current request asks: the wait command lists first, for a cursor.
Op(c) == IF CliWait(c) /\ call[c].after = Absent THEN "read" ELSE Ask(c).op

Idle ==
  [is |-> "idle", ask |-> [via |-> "none", op |-> "none"],
   aborted |-> FALSE, timedOut |-> FALSE, lost |-> FALSE, proxied |-> FALSE,
   overdue |-> FALSE,
   outcome |-> "none", start |-> Absent, after |-> Absent, mailbox |-> Absent]

NoAnswer == [status |-> 200, code |-> "none", data |-> 0, mailbox |-> 0, mark |-> 0]
Unsent == [is |-> "none", atOnce |-> FALSE, signal |-> FALSE, released |-> FALSE,
           answer |-> NoAnswer]
Sent == [Unsent EXCEPT !.is = "arriving"]

-----------------------------------------------------------------------------
(***************************************************************************)
(* The server                                                              *)
(***************************************************************************)
Answer(code) == [NoAnswer EXCEPT !.code = code, !.status = Status(code)]
Found(data) ==
  [NoAnswer EXCEPT !.code = "OK", !.data = data,
                   !.mailbox = box.id, !.mark = box.last]

\* A failed tool is a result like any other to HTTP.
Answered(c, answer) ==
  [request[c] EXCEPT !.is = "answering",
     !.answer = IF Mcp(c) THEN [answer EXCEPT !.status = 200] ELSE answer]
Waiting == {c \in Calls : request[c].is = "waiting"}
InProgress(c) == request[c].is \in {"fetching", "waiting", "answering"}

MatchesAfter(id) == {m \in box.stored \intersect box.matching : m > id}
First(ids) == CHOOSE m \in ids : \A n \in ids : m <= n

\* Mutant: the loop does not send the identity of the mailbox.
ArgumentsOfAnyMailbox(c) ==
  [afterId |-> call[c].after, mailboxId |-> Absent,
   timeoutMs |-> IF request[c].atOnce THEN 0 ELSE MaxWaitMs]

\* The arguments of a wait; the tool alone may be called without a cursor.
WaitArguments(c) ==
  IF CliWait(c)
  THEN [afterId |-> call[c].after, mailboxId |-> call[c].mailbox,
        timeoutMs |-> IF request[c].atOnce THEN 0 ELSE MaxWaitMs]
  ELSE LET args == ParseWait(Ask(c).query, MaxWaitMs, MaxWaitMs, 100) IN
       IF Mcp(c) /\ Ask(c).query.afterId = <<>>
       THEN [args EXCEPT !.afterId = box.last] ELSE args

\* MailService.waitForEmail() up to its promise.
WaitAnswer(args) ==
  IF ~Readable(args) THEN Answer("INVALID_ARGUMENT")
  ELSE IF up # "up" THEN Answer("SHUTTING_DOWN")
  ELSE IF args.mailboxId \notin {Absent, box.id} \/ args.afterId > box.last
       THEN Answer("INVALID_CURSOR")
  ELSE IF MatchesAfter(args.afterId) # {}
       THEN Found(First(MatchesAfter(args.afterId)))
  ELSE IF args.timeoutMs = 0 THEN Found(0)
  ELSE IF Cardinality(Waiting) >= MaxActiveWaits THEN Answer("LIMIT_EXCEEDED")
  ELSE Answer("PENDING")

\* What a request but a wait does; an expected count comes with clear_emails.
Removes(a) ==
  CASE a.op = "delete" -> {a.id} \intersect box.stored
    [] a.op = "clear" /\ a.expected \in {Absent, Cardinality(box.stored)}
         -> box.stored
    [] OTHER -> {}

Reply(a) ==
  IF a.op = "delete" /\ ParseId(a.id, MaxId) = Fault THEN "INVALID_ARGUMENT"
  ELSE IF a.op = "delete" /\ a.id \notin box.stored THEN "EMAIL_NOT_FOUND"
  ELSE IF a.op = "clear" /\ a.expected \notin {Absent, Cardinality(box.stored)}
       THEN "COUNT_CHANGED"
  ELSE "OK"

Perform(c) ==
  LET a == Ask(c)
      reply == IF Op(c) = "read" THEN "OK" ELSE Reply(a)
      gone == IF Op(c) = "read" THEN {} ELSE Removes(a)
  IN  /\ box' = [box EXCEPT !.stored = @ \ gone]
      /\ removed' = [removed EXCEPT ![c] = @ \union gone]
      /\ request' = [request EXCEPT ![c] =
           Answered(c, IF reply = "OK" THEN Found(0) ELSE Answer(reply))]

\* onRequest(): a refusal is the whole answer, before any handler.
Arrived(c) == up # "down" /\ request[c].is = "arriving"

Refused(c) ==
  /\ Arrived(c)
  /\ LET verdict == CheckRequest(Policy, Ask(c).headers) IN
     /\ verdict # "ACCEPTED"
     /\ request' = [request EXCEPT ![c].is = "delivered",
                                   ![c].answer = Answer(verdict)]
  /\ UNCHANGED <<server, box, slots, bridge, call, removed>>

Route(c) ==
  /\ Arrived(c) /\ ~Mcp(c)
  /\ CheckRequest(Policy, Ask(c).headers) = "ACCEPTED"
  /\ IF Op(c) # "wait" THEN Perform(c)
     ELSE LET answer == WaitAnswer(WaitArguments(c)) IN
          /\ request' = [request EXCEPT ![c] =
               IF answer.code = "PENDING"
               THEN [@ EXCEPT !.is = "waiting"] ELSE Answered(c, answer)]
          /\ UNCHANGED <<box, removed>>
  /\ UNCHANGED <<server, slots, bridge, call>>

-----------------------------------------------------------------------------
(***************************************************************************)
(* MCP: fetch() of http.ts and the tools                                   *)
(***************************************************************************)
\* A request whose client is already gone throws before it is counted.
Fetch(c) ==
  /\ Arrived(c) /\ Mcp(c)
  /\ CheckRequest(Policy, Ask(c).headers) = "ACCEPTED"
  /\ IF active >= MaxMcpRequests
     THEN /\ request' = [request EXCEPT ![c].is = "delivered",
                                 ![c].answer = Answer("TOO_MANY_REQUESTS")]
          /\ UNCHANGED active
     ELSE /\ request' = [request EXCEPT ![c].is = "fetching"]
          /\ active' = active + 1
  /\ UNCHANGED <<server, box, waits, bridge, call, removed>>

\* The tools that delete exist only with mutations allowed.
UnknownTool(c) == Ask(c).op \in {"delete", "clear"} /\ ~mutations

CallTool(c) ==
  /\ request[c].is = "fetching"
  /\ IF UnknownTool(c)
     THEN /\ request' = [request EXCEPT ![c] = Answered(c, Answer("UNKNOWN_TOOL"))]
          /\ UNCHANGED <<box, waits, removed>>
     ELSE IF Op(c) # "wait" THEN Perform(c) /\ UNCHANGED waits
     ELSE LET answer ==
                IF ~Readable(WaitArguments(c)) THEN Answer("INVALID_ARGUMENT")
                ELSE IF waits >= MaxMcpWaits THEN Answer("LIMIT_EXCEEDED")
                ELSE IF request[c].signal THEN Answer("CANCELLED")
                ELSE WaitAnswer(WaitArguments(c))
          IN  /\ IF answer.code = "PENDING"
                 THEN /\ request' = [request EXCEPT ![c].is = "waiting"]
                      /\ waits' = waits + 1
                 ELSE /\ request' = [request EXCEPT ![c] = Answered(c, answer)]
                      /\ UNCHANGED waits
              /\ UNCHANGED <<box, removed>>
  /\ UNCHANGED <<server, active, bridge, call>>

\* Mutant: the guard against a second release is missing.
ReleaseAgain(c) == active - 1

\* release(): from the abort, the end of the body or the error.
Release(c) == IF request[c].released THEN active ELSE active - 1

\* handler.fetch() fails before it reaches the tool.
FetchFails(c) ==
  /\ request[c].is = "fetching"
  /\ active' = Release(c)
  /\ request' = [request EXCEPT ![c].is = "delivered", ![c].released = TRUE,
                                ![c].answer = Answer("INTERNAL")]
  /\ UNCHANGED <<server, box, waits, bridge, call, removed>>

\* The body is sent, or given up after the abort; track() then releases.
BodyEnds(c) ==
  /\ request[c].is = "answering"
  /\ active' = IF Mcp(c) THEN Release(c) ELSE active
  /\ request' = [request EXCEPT ![c].is = "delivered", ![c].released = TRUE]
  /\ UNCHANGED <<server, box, waits, bridge, call, removed>>

-----------------------------------------------------------------------------
(***************************************************************************)
(* Pending waits                                                           *)
(***************************************************************************)
\* The finally of the tool frees its slot with whatever ends the wait.
EndWaits(ended, answer) ==
  /\ request' = [c \in Calls |->
                   IF c \in ended THEN Answered(c, answer) ELSE request[c]]
  /\ waits' = waits - Cardinality({c \in ended : Mcp(c)})

\* A message is committed: the waits it matches end in the same moment.
Arrive ==
  /\ up = "up" /\ box.last < MaxId
  /\ \E matching \in Arrivals :
       LET id == box.last + 1
           found == [Found(id) EXCEPT !.mark = id]
       IN  /\ box' = [box EXCEPT !.last = id, !.stored = @ \union {id},
                        !.matching = IF matching THEN @ \union {id} ELSE @]
           /\ EndWaits(IF matching THEN Waiting ELSE {}, found)
  /\ UNCHANGED <<server, active, bridge, call, removed>>

WaitTimer(c) ==
  /\ c \in Waiting
  /\ EndWaits({c}, Found(0))
  /\ UNCHANGED <<server, box, active, bridge, call, removed>>

\* The client's side of the connection is over.  The SDK's 2025 clients
\* cancel by another request, which reaches nothing.
Disconnected(c) ==
  \/ call[c].lost \/ call[c].timedOut
  \/ call[c].aborted /\ Ask(c).via # "legacy"

NoticeDisconnect(c) ==
  /\ InProgress(c) /\ ~request[c].signal /\ Disconnected(c)
  /\ active' = IF Mcp(c) THEN Release(c) ELSE active
  /\ waits' = IF c \in Waiting /\ Mcp(c) THEN waits - 1 ELSE waits
  /\ request' = [request EXCEPT ![c].signal = TRUE, ![c].released = TRUE,
       ![c].is = IF c \in Waiting THEN "answering" ELSE @,
       ![c].answer = IF c \in Waiting THEN Answer("CANCELLED") ELSE @]
  /\ UNCHANGED <<server, box, bridge, call, removed>>

\* stopAccepting() and mcp.close(); the process ends at some later time.
Stop ==
  /\ up = "up" /\ Faults < MaxFaults
  /\ up' = "stopping" /\ stops' = stops + 1
  /\ EndWaits(Waiting, Answer("SHUTTING_DOWN"))
  /\ UNCHANGED <<mutations, box, active, bridge, call, removed>>

Exit ==
  /\ up = "stopping"
  /\ up' = "down"
  /\ active' = 0 /\ waits' = 0
  /\ request' = [c \in Calls |->
                   IF request[c].is = "delivered" THEN request[c] ELSE Unsent]
  /\ call' = [c \in Calls |->
       IF Open(c) /\ request[c].is # "delivered"
       THEN [call[c] EXCEPT !.lost = TRUE] ELSE call[c]]
  /\ UNCHANGED <<stops, mutations, box, bridge, removed>>

\* Without --data-dir the mailbox starts anew; options may have changed.
Start ==
  /\ up = "down"
  /\ up' = "up" /\ mutations' \in BOOLEAN
  /\ \/ UNCHANGED box
     \/ box' = [id |-> box.id + 1, last |-> 0, stored |-> {}, matching |-> {}]
  /\ UNCHANGED <<stops, slots, bridge, call, request, removed>>

-----------------------------------------------------------------------------
(***************************************************************************)
(* Callers                                                                 *)
(***************************************************************************)
\* A request that fails the checks of the library is never sent.
ClientFault(a) ==
  /\ a.via \in {"library", "cli"}
  /\ \/ a.op = "delete" /\ ParseId(a.id, MaxId) = Fault
     \/ a.op = "wait" /\ a.via = "library"
          /\ ~Readable(ParseWait(a.query, MaxWaitMs, MaxWaitMs, 100))

Ended(c, outcome) ==
  [call[c] EXCEPT !.is = "ended", !.outcome = outcome, !.start = Absent]

Begin(c) ==
  /\ call[c].is = "idle"
  /\ \E a \in Asks[c] :
       LET begun == [Idle EXCEPT !.is = "open", !.ask = a,
                       !.start = a.after, !.after = a.after,
                       !.mailbox = IF a.via = "cli" THEN a.mailbox ELSE Absent]
           mode == IF a.via = "cli" THEN CliMode(a.line, FALSE) ELSE "command"
           refused == mode # "command" \/ ClientFault(a)
           outcome == IF mode = "command" THEN "REJECTED" ELSE mode
       IN  /\ a.via = "bridge" => bridge = "serving"
           /\ call' = [call EXCEPT ![c] =
                IF refused THEN [begun EXCEPT !.is = "ended", !.outcome = outcome]
                           ELSE begun]
           /\ request' = [request EXCEPT ![c] = IF refused THEN Unsent ELSE Sent]
  /\ UNCHANGED <<server, box, slots, bridge, removed>>

CallerAborts(c) ==
  /\ Open(c) /\ ~call[c].aborted /\ Faults < MaxFaults
  /\ call' = [call EXCEPT ![c].aborted = TRUE]
  /\ UNCHANGED <<server, box, slots, bridge, request, removed>>

ClientTimer(c) ==
  /\ Open(c) /\ ~call[c].timedOut /\ Faults < MaxFaults
  /\ call' = [call EXCEPT ![c].timedOut = TRUE]
  /\ UNCHANGED <<server, box, slots, bridge, request, removed>>

ConnectionBreaks(c) ==
  /\ Open(c) /\ ~call[c].lost /\ Faults < MaxFaults
  /\ call' = [call EXCEPT ![c].lost = TRUE]
  /\ UNCHANGED <<server, box, slots, bridge, request, removed>>

\* A request on its way never arrives.
Vanish(c) ==
  /\ request[c].is = "arriving" /\ Disconnected(c)
  /\ request' = [request EXCEPT ![c] = Unsent]
  /\ UNCHANGED <<server, box, slots, bridge, call, removed>>

\* A proxy answers in the server's place.
ProxyAnswers(c) ==
  /\ request[c].is = "delivered" /\ Open(c) /\ ~call[c].proxied
  /\ Faults < MaxFaults
  /\ request' = [request EXCEPT ![c].answer = Answer("FOREIGN")]
  /\ call' = [call EXCEPT ![c].proxied = TRUE]
  /\ UNCHANGED <<server, box, slots, bridge, removed>>

\* The catch of request() and of forward(); an abort goes before a timeout.
Failure(c) ==
  IF call[c].aborted THEN "ABORTED"
  ELSE IF Ask(c).via = "bridge" THEN "SERVER_UNAVAILABLE"
  ELSE IF call[c].timedOut THEN "TIMEOUT"
  ELSE "NETWORK"

Broken(c) == call[c].aborted \/ call[c].timedOut \/ call[c].lost

\* Mutant: the bridge sends a call again that found no answer.
FailAndRetry(c) ==
  /\ Open(c) /\ Broken(c)
  /\ IF Failure(c) = "SERVER_UNAVAILABLE" /\ ~InProgress(c)
     THEN /\ call' = [call EXCEPT ![c].timedOut = FALSE, ![c].lost = FALSE]
          /\ request' = [request EXCEPT ![c] = Sent]
     ELSE /\ call' = [call EXCEPT ![c] = Ended(c, Failure(c))]
          /\ UNCHANGED request
  /\ UNCHANGED <<server, box, slots, bridge, removed>>

Fail(c) ==
  /\ Open(c) /\ Broken(c)
  /\ call' = [call EXCEPT ![c] = Ended(c, Failure(c))]
  /\ UNCHANGED <<server, box, slots, bridge, request, removed>>

\* readJson() and toApiError(); forward() passes on all but HTTP errors.
ReadAnswer(c, answer) ==
  IF Ask(c).via = "bridge" /\ answer.status # 200 THEN "SERVER_UNAVAILABLE"
  ELSE IF answer.code = "FOREIGN" THEN "INVALID_RESPONSE"
  ELSE answer.code

Readied(c) == Open(c) /\ ~Broken(c) /\ request[c].is = "delivered"

Receive(c) ==
  /\ Readied(c)
  /\ ~CliWait(c) \/ request[c].answer.code # "OK" \/ request[c].answer.data # 0
  /\ call' = [call EXCEPT ![c] =
                Ended(c, ReadAnswer(c, request[c].answer))]
  /\ request' = [request EXCEPT ![c] = Unsent]
  /\ UNCHANGED <<server, box, slots, bridge, removed>>

\* The cursor of the next request: all mail up to it has been looked at.
GoOn(c, answer) ==
  [call[c] EXCEPT !.after = answer.mark,
     !.start = IF @ = Absent THEN answer.mark ELSE @,
     !.mailbox = IF Op(c) = "read" /\ @ # Absent THEN @ ELSE answer.mailbox]

\* The loop of waitCommand(), with Date.now() < deadline at its end.
WaitOn(c) ==
  /\ Readied(c) /\ CliWait(c)
  /\ LET answer == request[c].answer
         over == Op(c) = "wait" /\ call[c].overdue
     IN  /\ answer.code = "OK" /\ answer.data = 0
         /\ call' = [call EXCEPT ![c] =
              IF over THEN [GoOn(c, answer) EXCEPT !.is = "ended",
                                                   !.outcome = "TIMED_OUT"]
                      ELSE GoOn(c, answer)]
         /\ request' = [request EXCEPT ![c] =
              IF over THEN Unsent ELSE [Sent EXCEPT !.atOnce = call[c].overdue]]
  /\ UNCHANGED <<server, box, slots, bridge, removed>>

DeadlinePasses(c) ==
  /\ Open(c) /\ CliWait(c) /\ ~call[c].overdue
  /\ call' = [call EXCEPT ![c].overdue = TRUE]
  /\ UNCHANGED <<server, box, slots, bridge, request, removed>>

-----------------------------------------------------------------------------
(***************************************************************************)
(* The bridge process                                                      *)
(***************************************************************************)
StartBridge ==
  /\ bridge = "starting"
  /\ \E line \in BridgeLines :
       bridge' = IF BridgeMode(line) # "run" THEN BridgeMode(line)
                 ELSE IF up = "up" /\ line.token = TokenOf(Policy, "mcp")
                 THEN "serving" ELSE "failed"
  /\ UNCHANGED <<server, box, slots, call, request, removed>>

\* stdin closes or a signal comes; serveStdio() tears its calls down.
FinishBridge ==
  /\ bridge = "serving"
  /\ bridge' = "closing"
  /\ call' = [c \in Calls |-> IF Open(c) /\ Ask(c).via = "bridge"
                              THEN [call[c] EXCEPT !.aborted = TRUE] ELSE call[c]]
  /\ UNCHANGED <<server, box, slots, request, removed>>

\* Both sides are closed, or three seconds are over.
ExitBridge ==
  /\ bridge = "closing"
  /\ bridge' = "OK"
  /\ UNCHANGED <<server, box, slots, call, request, removed>>

-----------------------------------------------------------------------------
Init ==
  /\ up = "up" /\ stops = 0 /\ mutations = TRUE
  /\ box = [id |-> 1, last |-> 1, stored |-> {1}, matching |-> {}]
  /\ active = 0 /\ waits = 0
  /\ bridge = "starting"
  /\ call = [c \in Calls |-> Idle]
  /\ request = [c \in Calls |-> Unsent]
  /\ removed = [c \in Calls |-> {}]

ServerStep(c) ==
  Refused(c) \/ Route(c) \/ Fetch(c) \/ CallTool(c) \/ FetchFails(c)
    \/ BodyEnds(c) \/ WaitTimer(c) \/ NoticeDisconnect(c)

ClientStep(c) ==
  Begin(c) \/ CallerAborts(c) \/ ClientTimer(c) \/ ConnectionBreaks(c)
    \/ Vanish(c) \/ ProxyAnswers(c) \/ Fail(c) \/ Receive(c) \/ WaitOn(c)
    \/ DeadlinePasses(c)

Next ==
  \/ Arrive \/ Stop \/ Exit \/ Start
  \/ StartBridge \/ FinishBridge \/ ExitBridge
  \/ \E c \in Calls : ServerStep(c) \/ ClientStep(c)

Spec == Init /\ [][Next]_vars

-----------------------------------------------------------------------------
\* Both counters of the endpoint agree with the calls in progress, whatever
\* ended them: the abort, the end of the body or an error, alone or one
\* after the other (http.ts, WaitSlots).
SlotsAreHeld ==
  /\ active = Cardinality({c \in Calls : /\ Mcp(c) /\ InProgress(c)
                                         /\ ~request[c].signal})
  /\ waits = Cardinality({c \in Waiting : Mcp(c)})
  /\ active <= MaxMcpRequests /\ waits <= MaxMcpWaits

Refusals ==
  {"REJECTED", "usage", "answered", "UNKNOWN_TOOL", "FORBIDDEN_HOST",
   "FORBIDDEN_ORIGIN", "UNAUTHORIZED", "TOO_MANY_REQUESTS", "INVALID_ARGUMENT",
   "EMAIL_NOT_FOUND", "COUNT_CHANGED", "LIMIT_EXCEEDED"}

\* What a caller is told of a deletion is true: success means that the named
\* email, or exactly the expected number of them, is gone through this call,
\* a refusal that the call removed nothing.  Only a call that ended without
\* an answer leaves the caller in doubt (request(), forward()).
HonestOutcome ==
  \A c \in Calls : call[c].is = "ended" =>
    /\ call[c].outcome \in Refusals => removed[c] = {}
    /\ call[c].outcome = "OK" /\ Ask(c).op = "delete" => removed[c] = {Ask(c).id}
    /\ call[c].outcome = "OK" /\ Ask(c).op = "clear" =>
         Ask(c).expected \in {Absent, Cardinality(removed[c])}

\* The wait command never steps over a stored match: while it waits, and when
\* it gives up, every match above its first cursor is above its current one,
\* also when the server was restarted in between (waitCommand()).
NoMatchSkipped ==
  \A c \in Calls :
    CliWait(c) /\ call[c].outcome \in {"none", "TIMED_OUT"}
        /\ call[c].start # Absent /\ call[c].mailbox = box.id =>
      \A m \in MatchesAfter(call[c].start) : m > call[c].after
=============================================================================
