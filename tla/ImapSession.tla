---------------------------- MODULE ImapSession ----------------------------
(***************************************************************************)
(* One IMAP session from its connection to its end: authentication and TLS *)
(* (mailbox-plugin.ts), output limits, paced FETCH and session times       *)
(* (output-control.ts), the command queue (pending-work.ts) and what       *)
(* imap-server.ts does when a limit is reached.                            *)
(*                                                                         *)
(* Octets and time are counted in small units.  Timers are exact: time     *)
(* does not pass while one is due or while the event loop has work left.   *)
(* ImapKit and the socket are external: a socket drains only when all its  *)
(* output is read, announces that only if it was asked to (needDrain), and *)
(* after BYE closes once the rest of the output is read.  ImapKit's        *)
(* response to FETCH is taken to be no larger than estimate() says, "an    *)
(* upper bound of the FETCH response for one message": what ImapKit makes  *)
(* of a message's structure and envelope is not modelled.                  *)
(***************************************************************************)
EXTENDS Integers, SequencesExt, ServerConfig

CONSTANTS
  CommandLines,        \* the command lines the server is started with
  Octets,              \* bound: sizes of the stored messages
  MaxMessageBytes, MiB,
  HighWater,           \* where a socket's write() asks to wait for 'drain'
  Requests,            \* FETCH data items clients ask for
  MaxFetchItems,
  MaxFetched,          \* bound: messages of one FETCH
  MaxChunk,            \* bound: commands in one piece of input
  MaxQueuedCommands,
  PreAuthMs, IdleMs, DrainTimeoutMs

\* outputLimits()
Budget == 2 * MaxMessageBytes + 8 * MiB
MaxResponseBytes == Budget - 4 * MiB
BatchBytes == 4 * MiB
LowWater == MiB

Off == -1

\* A data item of FETCH; partial is Off without "<start.count>".
FetchItem == [of: {"content", "structure", "envelope", "other"},
              partial: Nat \cup {Off}]

ASSUME SessionAssumption ==
  /\ CommandLines \subseteq CommandLine
  /\ {MaxMessageBytes, MiB, HighWater} \subseteq Nat \ {0}
  /\ HighWater <= LowWater
  /\ Octets \subseteq 1..MaxMessageBytes
  /\ Requests \subseteq Seq(FetchItem)
  /\ {PreAuthMs, IdleMs, DrainTimeoutMs} \subseteq Nat \ {0}
  /\ PreAuthMs <= IdleMs
  /\ {MaxQueuedCommands, MaxFetched} \subseteq Nat

VARIABLES
  config,
  socket,      \* "open", "ending" after BYE, "destroyed"
  secure, upgrading,
  state,       \* ImapKit's connection.state
  sasl,        \* the next line answers AUTHENTICATE PLAIN
  pending,     \* socket.writableLength
  needDrain,   \* socket.writableNeedDrain
  drainTimer,  \* time left of drainTimer, or Off
  busy,        \* the asynchronous command in progress
  batches,     \* sizes of the batches a FETCH has left to send
  waiting,     \* in waitForRoom(), with reading paused
  chunk,       \* commands left in the input being handled
  queued,      \* ImapKit's command queue
  age,         \* time since the session opened, while not authenticated
  silent,      \* time since the last input
  timer,       \* time left of the session's timer, or Off
  ended,       \* why the session ended
  exposed      \* history: credentials were compared on a plaintext session

output == <<pending, needDrain, drainTimer>>
work == <<busy, batches, waiting, chunk, queued>>
auth == <<config, secure, upgrading, state, sasl, exposed>>
clock == <<age, silent, timer>>
vars == <<auth, socket, output, work, clock, ended>>

-----------------------------------------------------------------------------
(***************************************************************************)
(* planFetch                                                               *)
(***************************************************************************)
MinOf(a, b) == IF a <= b THEN a ELSE b

\* The header of a message is at most the message.
ItemEstimate(octets, item) ==
  CASE item.of = "content" -> IF item.partial = Off THEN octets
                              ELSE MinOf(item.partial, octets)
    [] item.of \in {"structure", "envelope"} -> 2 * octets
    [] OTHER -> 0

Estimate(octets, items) ==
  FoldLeft(LAMBDA sum, item : sum + ItemEstimate(octets, item), 0, items)

Sum(sizes) == FoldLeft(LAMBDA a, b : a + b, 0, sizes)

Extend(plan, size) ==
  IF plan # <<>> /\ Last(plan) + size <= BatchBytes
  THEN [plan EXCEPT ![Len(plan)] = @ + size]
  ELSE Append(plan, size)

Batches(sizes) == FoldLeft(Extend, <<>>, sizes)

Refused(items, sizes) ==
  \/ Len(items) > MaxFetchItems
  \/ \E i \in DOMAIN sizes : sizes[i] > MaxResponseBytes

-----------------------------------------------------------------------------
(***************************************************************************)
(* Output and the end of the session                                       *)
(***************************************************************************)
Destroy(why) ==
  /\ socket' = "destroyed"
  /\ ended' = IF ended = "no" THEN why ELSE ended
  /\ pending' = 0 /\ needDrain' = FALSE /\ drainTimer' = Off
  /\ busy' = "no" /\ batches' = <<>> /\ waiting' = FALSE
  /\ chunk' = 0 /\ queued' = 0
  /\ timer' = Off

\* The write limitOutput() lets through, with its timer.
Buffer(n) ==
  LET drains == needDrain \/ pending + n >= HighWater
  IN  /\ pending' = pending + n
      /\ needDrain' = drains
      /\ drainTimer' = IF drainTimer = Off /\ drains
                       THEN DrainTimeoutMs ELSE drainTimer

\* writeRaw of a response of n octets; next describes the work after it.
Write(n, why, next) ==
  \/ /\ pending + n > Budget
     /\ Destroy(why)
  \/ /\ pending + n <= Budget
     /\ Buffer(n)
     /\ next
     /\ UNCHANGED <<socket, ended, timer>>

\* connection.bye() and destroySoon(): the rest of the output may still go.
Bye(why) ==
  \/ /\ pending + 1 > Budget
     /\ Destroy(why)
  \/ /\ pending + 1 <= Budget
     /\ Buffer(1)
     /\ socket' = "ending"
     /\ ended' = why
     /\ chunk' = 0 /\ queued' = 0
     /\ timer' = IF timer = 0 THEN Off ELSE timer
     /\ UNCHANGED <<busy, batches, waiting>>

\* A command that was answered leaves the queue.
Done ==
  /\ queued' = queued - 1
  /\ UNCHANGED <<busy, batches, waiting, chunk>>

Answer(n, why) == Write(n, why, Done)

-----------------------------------------------------------------------------
(***************************************************************************)
(* Commands                                                                *)
(***************************************************************************)
MayAuthenticate == secure \/ AllowsPlaintextImapAuth(config)

Unauthenticated == state = "Not Authenticated"

\* The credentials a client sends are compared; logIn() or refuse().
Compare(right) ==
  /\ exposed' = (exposed \/ ~secure)
  /\ state' = IF right THEN "Authenticated" ELSE state

LoginCommand(right) ==
  /\ Unauthenticated
  /\ IF MayAuthenticate THEN Compare(right) ELSE UNCHANGED <<state, exposed>>
  /\ UNCHANGED <<config, secure, upgrading, sasl>>

\* AUTHENTICATE PLAIN without an initial response asks for it with "+ ".
AuthenticateCommand ==
  /\ Unauthenticated
  /\ sasl' = MayAuthenticate
  /\ UNCHANGED <<config, secure, upgrading, state, exposed>>

StartTlsCommand ==
  /\ config.tls = "starttls" /\ ~secure /\ Unauthenticated
  /\ upgrading' = TRUE
  /\ UNCHANGED <<config, secure, state, sasl, exposed>>

FetchCommand(items, sizes) ==
  LET pass == Sum(sizes) <= BatchBytes
  IN  \/ Refused(items, sizes) /\ Answer(1, "unread")
      \/ /\ ~Refused(items, sizes)
         /\ pass /\ pending <= LowWater
         /\ Answer(Sum(sizes), "fetch")
      \/ /\ ~Refused(items, sizes)
         /\ ~pass \/ pending > LowWater
         /\ busy' = "fetch"
         /\ batches' = IF pass THEN <<Sum(sizes)>> ELSE Batches(sizes)
         /\ queued' = queued - 1
         /\ UNCHANGED <<output, socket, ended, waiting, chunk, timer>>

\* CHECK awaits the final snapshot of the mailbox.
CheckCommand ==
  /\ busy' = "check"
  /\ queued' = queued - 1
  /\ UNCHANGED <<output, socket, ended, batches, waiting, chunk, timer>>

Idle == socket = "open" /\ busy = "no" /\ ~upgrading

\* CREATE, DELETE, RENAME, APPEND and COPY are recognised and refused.
InboxOnlyCommand == UNCHANGED auth

\* Any command but FETCH and CHECK is answered in the step that runs it.
Run ==
  /\ Idle /\ ~sasl /\ queued > 0
  /\ \/ /\ \/ \E right \in BOOLEAN : LoginCommand(right)
           \/ AuthenticateCommand
           \/ InboxOnlyCommand
        /\ Answer(1, "unread")
     \/ /\ StartTlsCommand
        /\ Write(1, "unread", chunk' = 0 /\ queued' = 0
                              /\ UNCHANGED <<busy, batches, waiting>>)
     \/ /\ ~Unauthenticated
        /\ \/ CheckCommand
           \/ \E items \in Requests, n \in 1..MaxFetched, octets \in Octets :
                FetchCommand(items, [i \in 1..n |-> Estimate(octets, items)])
        /\ UNCHANGED auth
     \/ Bye("logout") /\ UNCHANGED auth
  /\ UNCHANGED <<age, silent>>

\* The loop of pacedFetch() runs on until it sends its last batch or waits.
Looping == busy = "fetch" /\ ~waiting

Reading == socket = "open" /\ ~upgrading /\ busy # "fetch"

\* onData: one piece of input with up to MaxChunk commands.
Input ==
  /\ Reading /\ chunk = 0
  /\ chunk' \in 1..MaxChunk
  /\ silent' = 0
  /\ UNCHANGED <<auth, socket, output, busy, batches, waiting, queued, age,
                 timer, ended>>

\* scheduleCommand: a queue is left only behind a command in progress.  The
\* octets of commands are not counted: each may be the one that takes the queue
\* beyond MAX_QUEUED_COMMAND_BYTES.
Schedule ==
  /\ socket = "open" /\ chunk > 0 /\ ~sasl /\ ~Looping
  /\ ~(Idle /\ queued > 0)
  /\ \/ /\ queued < MaxQueuedCommands
        /\ chunk' = chunk - 1
        /\ queued' = queued + 1
        /\ UNCHANGED <<socket, output, busy, batches, waiting, timer, ended>>
     \/ Bye("commands")
  /\ UNCHANGED <<auth, age, silent>>

\* The line goes to inputHandler instead: "*", credentials or nonsense.
SaslLine ==
  /\ socket = "open" /\ chunk > 0 /\ sasl
  /\ sasl' = FALSE
  /\ \/ \E right \in BOOLEAN : Compare(right)
     \/ UNCHANGED <<state, exposed>>
  /\ Write(1, "unread", chunk' = chunk - 1
                        /\ UNCHANGED <<queued, busy, batches, waiting>>)
  /\ UNCHANGED <<config, secure, upgrading, age, silent>>

Handshake ==
  /\ socket = "open" /\ upgrading
  /\ upgrading' = FALSE
  /\ \/ secure' = TRUE /\ UNCHANGED <<socket, output, work, timer, ended>>
     \/ secure' = secure /\ Destroy("client")
  /\ UNCHANGED <<config, state, sasl, exposed, age, silent>>

CheckDone ==
  /\ socket = "open" /\ busy = "check"
  /\ Write(1, "unread", busy' = "no"
                        /\ UNCHANGED <<batches, waiting, chunk, queued>>)
  /\ UNCHANGED <<auth, age, silent>>

\* Mutant: the batches of a FETCH are sent without waiting for room.
NextBatchAtOnce ==
  /\ Looping
  /\ \E n \in {1, Head(batches)} :
       Write(n, "fetch",
             /\ batches' = Tail(batches)
             /\ busy' = IF Len(batches) = 1 THEN "no" ELSE busy
             /\ UNCHANGED <<waiting, chunk, queued>>)
  /\ UNCHANGED <<auth, age, silent>>

\* The loop of pacedFetch(): a batch once there is room, else waitForRoom().
\* The response may be smaller than its estimate, and is never larger.
NextBatch ==
  /\ Looping
  /\ IF pending <= LowWater
     THEN \E n \in {1, Head(batches)} :
            Write(n, "fetch",
                  /\ batches' = Tail(batches)
                  /\ busy' = IF Len(batches) = 1 THEN "no" ELSE busy
                  /\ UNCHANGED <<waiting, chunk, queued>>)
     ELSE /\ waiting' = TRUE
          /\ UNCHANGED <<socket, output, busy, batches, chunk, queued, timer,
                         ended>>
  /\ UNCHANGED <<auth, age, silent>>

\* Another surface changes the mailbox while the session is idle.
Notify ==
  /\ Idle /\ ~Unauthenticated
  /\ Write(1, "unread", UNCHANGED work)
  /\ UNCHANGED <<auth, age, silent>>

-----------------------------------------------------------------------------
(***************************************************************************)
(* The client's reads, and the timers                                      *)
(***************************************************************************)
\* Reading the last octet is 'drain' for an open socket that asked for it
\* and 'close' for one that is ending.
ClientReads ==
  /\ socket # "destroyed" /\ pending > 0 /\ ~Looping
  /\ \E n \in 0..(pending - 1) :
       \/ /\ n = 0 /\ socket = "ending"
          /\ Destroy(ended)
       \/ /\ n = 0 /\ socket = "open"
          /\ pending' = 0 /\ needDrain' = FALSE
          /\ IF needDrain
             THEN drainTimer' = Off /\ waiting' = FALSE
             ELSE UNCHANGED <<drainTimer, waiting>>
          /\ UNCHANGED <<socket, busy, batches, chunk, queued, timer, ended>>
       \/ /\ n > 0
          /\ pending' = n
          /\ UNCHANGED <<socket, needDrain, drainTimer, work, timer, ended>>
  /\ UNCHANGED <<auth, age, silent>>

ClientCloses ==
  /\ socket # "destroyed" /\ ~Looping
  /\ Destroy("client")
  /\ UNCHANGED <<auth, age, silent>>

\* Mutant: output below the low water mark counts as drained.
DrainTimeoutAboveLowWater ==
  /\ drainTimer = 0 /\ ~Looping
  /\ IF pending <= LowWater
     THEN /\ drainTimer' = Off
          /\ UNCHANGED <<socket, pending, needDrain, work, timer, ended>>
     ELSE Destroy("drain")
  /\ UNCHANGED <<auth, age, silent>>

DrainTimeout ==
  /\ drainTimer = 0 /\ ~Looping
  /\ IF pending = 0
     THEN /\ drainTimer' = Off
          /\ UNCHANGED <<socket, pending, needDrain, work, timer, ended>>
     ELSE Destroy("drain")
  /\ UNCHANGED <<auth, age, silent>>

\* Mutant: the deadline of authentication is treated as an idle time.
RemainingIdleOnly == IdleMs - silent

Remaining ==
  IF Unauthenticated THEN PreAuthMs - age ELSE IdleMs - silent

\* check() of limitSessionTime, with onTimeout of imap-server.ts.
CheckTime ==
  /\ timer = 0 /\ ~Looping
  /\ \/ /\ socket # "open"
        /\ timer' = Off
        /\ UNCHANGED <<socket, output, work, ended>>
     \/ /\ socket = "open" /\ Remaining > 0
        /\ timer' = Remaining
        /\ UNCHANGED <<socket, output, work, ended>>
     \/ /\ socket = "open" /\ Remaining <= 0
        /\ IF upgrading THEN Destroy("autologout") ELSE Bye("autologout")
  /\ UNCHANGED <<auth, age, silent>>

Later(time) == IF time = Off THEN Off ELSE time - 1

\* Ages are counted to one past their limit.
Tick ==
  /\ socket # "destroyed"
  /\ timer # 0 /\ drainTimer # 0
  /\ chunk = 0 /\ ~(Idle /\ queued > 0) /\ ~Looping
  /\ timer' = Later(timer)
  /\ drainTimer' = Later(drainTimer)
  /\ IF socket = "open"
     THEN /\ age' = IF Unauthenticated THEN MinOf(age + 1, PreAuthMs + 1) ELSE 0
          /\ silent' = MinOf(silent + 1, IdleMs + 1)
     ELSE UNCHANGED <<age, silent>>
  /\ UNCHANGED <<auth, socket, pending, needDrain, work, ended>>

\* A connection of a listener whose command line was accepted.
Init ==
  /\ config \in {Configured(c) : c \in {l \in CommandLines : Runs(l) /\ l.imap}}
  /\ socket = "open"
  /\ secure = (config.tls = "implicit")
  /\ upgrading = FALSE
  /\ state = "Not Authenticated"
  /\ sasl = FALSE /\ exposed = FALSE
  /\ pending = 0 /\ needDrain = FALSE /\ drainTimer = Off
  /\ busy = "no" /\ batches = <<>> /\ waiting = FALSE
  /\ chunk = 0 /\ queued = 0
  /\ age = 0 /\ silent = 0 /\ timer = PreAuthMs
  /\ ended = "no"

Next ==
  \/ Input \/ Schedule \/ SaslLine \/ Run \/ Handshake \/ CheckDone
  \/ NextBatch \/ Notify \/ ClientReads \/ ClientCloses
  \/ DrainTimeout \/ CheckTime \/ Tick

Spec == Init /\ [][Next]_vars

\* The event loop runs what is due and time passes; a client need not act.
FairSpec ==
  /\ Spec
  /\ WF_vars(Tick) /\ WF_vars(DrainTimeout) /\ WF_vars(CheckTime)
  /\ WF_vars(NextBatch) /\ WF_vars(Run) /\ WF_vars(Schedule)
  /\ WF_vars(SaslLine)

-----------------------------------------------------------------------------
\* A password of --auth-user crosses a connection without TLS only where the
\* command line allows it on loopback: the rules of the command line, the
\* plaintext policy and the check before each login together.
PasswordsStayPrivate ==
  exposed => /\ config.host = "loopback"
             /\ config.credentials => config.insecure

\* Sessions are logged out at their deadline: never while there is time left,
\* and never later, although the one timer changes its meaning at login and
\* each input moves it.
DeadlinesKept ==
  /\ socket = "open" =>
       IF Unauthenticated THEN age <= PreAuthMs ELSE silent <= IdleMs
  /\ ended = "autologout" => Remaining <= 0

\* However slowly a client reads, FETCH never costs it the session by going
\* over the output budget: what a batch may add fits on what may be pending,
\* as long as a response is no larger than its estimate.
PacedFetchFits == ended # "fetch"

\* A FETCH that waits for its reader goes on, or ends with the session: the
\* drain event, the drain timer and the close cover every way out.
FetchesEnd == busy = "fetch" ~> busy = "no"

TypeOK ==
  /\ config \in Config
  /\ socket \in {"open", "ending", "destroyed"}
  /\ {secure, upgrading, sasl, needDrain, waiting, exposed} \subseteq BOOLEAN
  /\ state \in {"Not Authenticated", "Authenticated"}
  /\ pending \in 0..Budget
  /\ drainTimer \in -1..DrainTimeoutMs /\ timer \in -1..IdleMs
  /\ busy \in {"no", "fetch", "check"}
  /\ batches \in Seq(0..MaxResponseBytes)
  /\ chunk \in 0..MaxChunk /\ queued \in 0..MaxQueuedCommands
  /\ age \in 0..(PreAuthMs + 1) /\ silent \in 0..(IdleMs + 1)
  /\ ended \in {"no", "unread", "fetch", "drain", "autologout", "commands",
                "logout", "client"}
=============================================================================
