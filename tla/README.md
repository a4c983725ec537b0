# A TLA+ verification of mail-debugger

mail-debugger is a local mail server for development: it catches whatever is
sent over SMTP and shows it over a REST API, a web inbox, a terminal client,
IMAP and MCP. This directory models its core in TLA+, checks the models with
TLC and proves theorems about them with TLAPS.

Paths without a prefix are under `apps/server/src/`.

## 1. The system

### Parts, state, operations

| Part | State it keeps | Operations | Hard behaviour |
| --- | --- | --- | --- |
| `mail/mail-service.ts` canonical mailbox | `accepting`, the pending waits | `receive`, `delete(Many)`, `clear`, `setFlags`, `setInboxSubscribed`, `waitForEmail`, `stopAccepting`, `flush` | the await on the parser, waits against arrivals, timers, aborts and shutdown |
| `db/email-repository.ts`, `metadata.ts`, `schema.ts` | tables `emails` and `meta` (last id, UIDNEXT, identity) of an in-memory sql.js database | one transaction per mutation | keys that are never reused, limits checked in the transaction |
| `mail/mail-events.ts` | listeners | `on`, `emit` after a commit | a change nobody is told of |
| `db/persistence.ts` `SnapshotWriter`, `writeFileAtomic` | `timer`, `dirty`, `writing`, `closed`; file and temporary file | `schedule`, `flush`, `close` | concurrent flushes, failed writes, retries, crashes |
| `db/persistence.ts` lock, `db/store.ts`, `db/migrations.ts` | lock file, data file, backups | `openStore`, `close` | several processes, crashes between system calls, failed starts, migrations |
| `smtp/smtp-server.ts` | per session | MAIL FROM, DATA, delivery | capacity checked long before it is used |
| `imap/mailbox-adapter.ts`, `mailbox-plugin.ts` | ImapKit's in-memory INBOX, a mirror of the mailbox | STORE, FETCH, EXPUNGE, CHECK, SUBSCRIBE; events of other surfaces | echo of changes in both directions, rollback, FETCH in batches |
| `imap/imap-server.ts`, `pending-work.ts`, `output-control.ts`, login in `mailbox-plugin.ts` | sockets, queues, timers of a session | accept, log in, write, drain, time out, close | queues at their limits, clients that do not read, one timer for two deadlines |
| `mcp/http.ts`, `tools.ts`, `server.ts` | request slots, wait slots | one tool call per request | slots freed by abort, end or error |
| `mcp/bridge.ts` | connection to the server | forward a call | a call without an answer, cancellation, shutdown |
| `runtime.ts`, `run-server.ts` | what has been opened, `closing`, `stopping` | start, close, signals | start that fails half way, shutdown with deadline, second signal |
| `api/*` | the listener | REST routes behind Host, Origin and token checks | closing with requests in progress |
| `libs/client`, `apps/cli` | cursor of `wait`, state of the terminal UI | requests, keys, polls | repeated waits over restarts, answers out of order |
| `config.ts` | none | `parseServerArgs` | rules of many settings that together keep credentials private |
| `apps/web`, parser, logger, scripts | none worth modelling | | |

SMTP, REST, MCP and IMAP call the service; nobody else touches the repository.
The service commits one SQL transaction, calls `store.changed()`, which
schedules a snapshot, and emits an event, which IMAP's mirror and the pending
waits hear synchronously. IMAP CHECK, the snapshot timer and the shutdown call
`flush()`. The runtime opens the store first and closes it last.

Node runs one callback at a time, so the interleavings are those at awaits,
timers and finished I/O; between processes they are those at system calls.

### What makes each part correct

- Mailbox: keys are never reused, the limits hold whatever was admitted
  before, nothing is stored after the stop, every commit is announced, no wait
  misses an arrival, and what a wait answers is true.
- Persistence: snapshots do not overlap, no change is forgotten, a successful
  flush has saved what it was asked to save, no write outlives the lock, every
  flush returns.
- Data directory: one process at a time, no unseen mail overwritten, originals
  survive migrations, and a lock stays behind only after a crash or a failure
  of the lock file itself.
- IMAP: the mirror equals the mailbox, a refused handler changes nothing, a
  session hears of every change once. A slow reader neither blocks a FETCH for
  ever nor loses its session to it, deadlines are kept, passwords stay private.
- Server process: nobody is connected any more when the store takes its last
  snapshot, and the shutdown ends by itself.
- Remote calls: slots are counted right, a caller is told the truth about a
  deletion, no match is skipped between two waits.
- Terminal: the screen shows what was asked for last, and `d` deletes the
  focused or opened email once it has been rendered.

`PROJECT.json` lists the hazards behind these at their lines.

## 2. Modules

| Module | Models | Abstract / composes |
| --- | --- | --- |
| `MailService` | service, repository, events, SMTP delivery | |
| `MCMailService` | instance of `MailService` for TLC | |
| `WriteBehind` | what the snapshot writer promises | abstract specification |
| `SnapshotWriter` | writer, file replacement, end of the store | implements `WriteBehind` |
| `DurableMailbox` | transactions, snapshots, processes that end and open the file again | extends `SnapshotWriter` |
| `DataDirectory` | lock, open, backup, migration, close, over several processes and the operator | |
| `ImapMirror` | IMAP's copy of the mailbox, the sessions that use it, FETCH in batches | |
| `MCImapMirror` | instances of `ImapMirror` for TLC | |
| `ServerConfig` | the rules of the server command line | predicates |
| `ImapSession` | one session: login, TLS, output, FETCH pacing, queue, times | extends `ServerConfig` |
| `MCImapSession` | instance of `ImapSession` for TLC | |
| `ServerProcess` | startup, clients of all listeners, shutdown, exit | extends `ServerConfig` |
| `MCServerProcess` | instance of `ServerProcess` for TLC | |
| `HttpApi` | Host, Origin and token checks, parameters, statuses | operators |
| `Invocation` | command lines of the CLI and of the bridge | operators |
| `RemoteCalls` | callers, network, routes, MCP slots, waits, bridge | extends `HttpApi`, `Invocation` |
| `MCRemoteCalls` | instance of `RemoteCalls` for TLC | |
| `Terminal` | the interactive inbox | |
| `X_proofs` for `MailService`, `DurableMailbox`, `DataDirectory`, `ImapMirror`, `ImapSession`, `ServerProcess`, `RemoteCalls`, `Terminal` | | theorems; that of `DurableMailbox` has those of `SnapshotWriter` too |

### MailService

A handler is one action up to its next await. `emails`, `lastId`, `uidNext`
and `subscribed` are the two tables; `accepting` is the field of the service.
`delivery[d]` is one SMTP transaction: `MailFrom` is the capacity check that
reserves nothing, `Receive` is `receive()` up to the parser, `ParserFails`,
`Refuse` and `StoreParsed` are what may follow, each the whole rest of the
handler: checks, transaction, `changed()`, event and the waits it wakes.
`wait[w]` is one `waitForEmail`: `BeginWait` answers at once or registers,
`Timeout`, `Abort`, `StopAccepting` and an arrival settle it. A filter is the
set of message kinds it matches; a message has the sizes of its kind. `heard`
and `noted` are histories: what a listener knows from the events alone, and
the tables as of the last `changed()`.

### SnapshotWriter, WriteBehind, DurableMailbox

`mem`, `disk` and `tmp` hold revision numbers of the mailbox instead of its
bytes; `timer`, `dirty`, `writing` and `closed` are the fields of the class.
Each awaited file operation is an action, and so is each continuation after
an await: when a write settles, its awaiters are queued in `resuming` in the
order they awaited, and nothing but continuations runs until the queue is
empty, as Node's microtasks do. `awaiting` keeps that order.

`DurableMailbox` gives every revision its rows and its id counter, adds crashes
between any two steps and `OpenStore`, the next process reading the file.

### DataDirectory

Each system call is an action: creating the lock file, writing the pid,
reading it, unlinking it, reading the data, creating and writing the backup,
renaming the new data over the file. A process may crash before any of them,
pids are reused, and the operator removes a lock only after checking that no
process uses the directory, as the error message demands; a process may start
between the check and the removal, but then finds the lock still there.
`ReleaseFails` is the reading or the unlinking of the lock failing in
`release()`, which is ignored: the lock stays, and `stranded` remembers whose
it is, as it does for a crash and for a pid that could not be written.

### ImapMirror

`mail`, `uidNext` and `subscription.stored` are the service as IMAP sees it. A
message is its UID, because `MailService` shows that id and UID name the same
message and are never reused. `inbox`, `ghost`, `flags`, `known` and
`subscription.shown` are ImapKit's memory: the list of the mailbox, the mark on
deleted message objects, the flags of the objects (a deleted object lives on
in the views of sessions), `knownFlags`, `subscribed`. A session has its
`view`, what its client was last `told` of each message, and the
`notificationQueue` as three sets (`new`, `flagged`, `gone`) with its length
`queued`; `fetch` is a FETCH whose batches are still to come. `answer` is a
history variable that says whether the step refused a command.

`Insert`, `DeleteElsewhere` and `FlagElsewhere` are the listeners of
`attach()` with the commit that they hear. `Store`, `Fetch` and `SendBatch`
are commands behind `runWithFlags()`: ImapKit's handler changes the objects,
the service stores the changes or refuses them, then `replay()` tells the
client and the other sessions. `Expunge` is `guardExpunge()` around ImapKit's
handler with `persistExpunge()` in it. All of these are synchronous, so each
is one step; only a FETCH gives way, at `waitForRoom()` before each batch.
`Notified` is `queueNotification` with the limits of `pending-work.ts`, at
which the session ends.

ImapKit is a library. What it does is taken from how the adapter and its
tests use it, and from `docs/imap.md:101` on EXPUNGE that is held back during
commands with sequence numbers; where that leaves a choice, such as whether
the other updates are held back with it, the model allows both. Left out:
authentication and the commands that are always refused, which have no state;
EXAMINE; the changes of flags of messages that are already deleted, which the
service skips; `detach()` at the shutdown. `FlagElsewhere` has no caller in
today's server besides tests, but the listener exists for it.

### ServerConfig, ImapSession

`ServerConfig` reduces a command line to what the rules of `parseServerArgs`
tell apart and states the rules: `UsageError` names the lines it refuses, and
`Configured` is the configuration of the others. `ImapSession` starts from
every accepted line it is given and `ServerProcess` from refused ones too, so
that the rules are checked for what they achieve.

`ImapSession` is one connection. `Input` is a piece of input, `Schedule` the
limited command queue (at its limit the session ends, be it for the number of
commands or for their octets, which are not counted), `Run` the command at its head: LOGIN, AUTHENTICATE
PLAIN (with `SaslLine` for the continuation), STARTTLS, FETCH, CHECK, LOGOUT.
`Write` is `limitOutput`: over the budget the session is destroyed, otherwise
the octets are pending in the socket and may arm the drain timer.
`Refused`, `Batches` and `Estimate` are `planFetch` on items and sizes; a FETCH
that does not fit sends its batches with `NextBatch`, which waits while more
than the low water mark is pending. `CheckTime` is the one timer that stands
for the authentication deadline before the login and for the idle time after
it. Time passes in `Tick`, never while something is due. The commands on other
mailboxes are answered and change nothing; the mailbox itself is `ImapMirror`.

### ServerProcess

`step` is what `startServer()` awaits; each may fail with `Fail`, after which
what is open is closed like in `close()`, except that IMAP and HTTP get no
grace: `GraceOver` may happen at once, and in general at any time. Clients
connect to each listener as soon as it is open. IMAP's `sockets` is the set of
that name with its two ways to forget a socket, of which STARTTLS takes one
away. `CloseStore` begins `store.close()`, `StoreClosed` is its return, with or
without a last snapshot, and `Stopped` the exit of `closeAndExit` after it;
meanwhile the process still runs, and a signal or the deadline may end it.
`Exit` is the end of the process in each of these ways; a failed start
(`ending`) only ends when the event loop is empty.

### HttpApi, Invocation, RemoteCalls

`RemoteCalls` keeps a call at its caller (`call`) apart from its request at the
server (`request`): the caller aborts, times out or loses the connection, and
the server notices later (`NoticeDisconnect`), after it has performed the call,
or never. `active` and `waits` are the two counters of MCP. `CheckRequest` of
`HttpApi` guards all requests; `Route` is REST, `Fetch` and `CallTool` are MCP,
`BodyEnds` the end of the response. `Begin` is the check of the command line
(`Invocation`) and of the arguments by the library; `Receive` and `Fail` are the two ends of
`request()` and of the bridge's `forward()`; `GoOn` and `WaitOn` are the loop of
the wait command. The server may stop, and start with the old mailbox or a new
one. The mailbox is what these calls see of `MailService`: identity, last id, ids
and those the filter matches.

### Terminal

`ui` is the state of the app, `history` its routes, and `rendered` the copy of
both that keys and buttons read. `lists` and `loads` are the numbered calls of
`refreshEmails()` and `loadEmailDetail()`, `deletes` the deletions; each takes
effect at the server before its answer arrives, in any order. `table` is a
history: which refresh filled the table.

## 3. Runs

| Run | Shows | Size |
| --- | --- | --- |
| `mail_storage` | `KeysNeverReused`, `CapacityRespected`, `NothingStoredAfterStop`, `CommitsAreAnnounced`, types and the 32-bit UID | 90 thousand states |
| `mail_waits` | `NoArrivalMissed`, `OutcomeMatchesStore`, `EveryCallSettles` | 144 thousand |
| `snapshot_writer` | `SnapshotsNeverOverlap`, `UnsavedIsRemembered`, `LockCoversWrites`, `KeepsPromise` (refinement), `FlushReturns`, `ChangesLand` | 64 thousand |
| `durable_mailbox` | `CheckedMailSurvives`, `CleanCloseKeepsAll`, `OneIdentityUnlessLost` | 2.5 million |
| `killed_process` | counterexample to `OneIdentity` | 4 steps |
| `data_directory` | `AtMostOneOwner`, `NothingUnseenOverwritten`, `OriginalsKept`, `LeftLocksAreExplained` | 339 thousand |
| `imap_flags` | `MirrorMatches`, `RefusedRunChangesNothing` | 89 thousand |
| `imap_sessions` | `UpdatesExplainMailbox`, `ToldWhatIsStored`, `FetchKeepsNumbers`, `BodySentIsSeen` | 469 thousand |
| `imap_session` | `PasswordsStayPrivate`, `DeadlinesKept`, `PacedFetchFits`, `FetchesEnd` | 206 thousand |
| `server_process` | `StoreOutlivesConnections`, `SocketsAreTracked`, `ProcessEnds` | 17 thousand |
| `remote_calls` | `SlotsAreHeld`, `HonestOutcome`, `NoMatchSkipped` | 1.3 million |
| `terminal` | `ShownIsOpened`, `RestingTableIsCurrent`, `DeletesFocusedOrOpened` | 3.5 million |

Every property of a passing run has a mutant in `PROJECT.json`: a plausible
bug of the code under which TLC finds the property violated.

### Bounds

- `mail_storage`: three deliveries compete for two slots and four units of
  storage, with messages of one to three units, so each limit is reached by
  count and by bytes. The older data set starts next to the last UID. Flags
  have one member because flags of different messages do not interact.
  `MaxActiveWaits` is 0 there, so only waits that end at once happen.
- `mail_waits`: two deliveries and two waits are the smallest numbers with one
  arrival for two waits, two arrivals for one wait, and an unread match before
  the call. The limit of 100 pending waits is 2, and the refusal at a limit is
  reached in `mail_storage`.
- `snapshot_writer`: two timer flushes, a CHECK and the final flush, so that
  three callers can await one write and resume in every order; three commits,
  two failing writes, one retried rename (five in the code; the count only
  repeats the same step). `durable_mailbox` has one timer flush, one failure
  and no retry, and two processes that end, so that state of the first reaches
  the third.
- `data_directory`: a lock's life needs a dead owner, a live one and a third
  that meets both. Two originals make the second backup meet the first one.
  One time-stamped name stands for all of them: when it is taken, `wx` fails.
- `imap_flags`: two messages in batches of one, so that a FETCH can be refused
  in its second batch; two keywords with room for one, so that the second is
  refused and a refused first one must be forgotten again; four flags with room
  for two on a message, of which STORE sets one of two sets. Queues are of
  length 0 there: a session hears of what others do only in IDLE and else ends,
  for queued updates are the question of `imap_sessions`. `imap_sessions`: two
  messages (one may be there from the start, marked as deleted), so that
  numbers can shift, in batches of one, so that something comes between; a
  queue of two updates and one retained message, so that either limit ends a
  session first. Two sessions suffice: one acts, the other is told.

- `imap_session`: all combinations of host, TLS, account and override that
  start. MiB, the largest message and the high water mark are one unit each,
  which keeps the order of the code's limits: budget 10, largest response 6,
  batch 4, low water 1. A FETCH of two messages needs no batch, two batches of
  full size or two responses larger than a batch, or has an item or a response
  beyond its limit. Deadlines are 2 and 3 units, the drain time is 1, and two
  commands in one piece of input overflow a queue of one.
- `server_process`: three clients and one session at most (two sockets per
  session as in the code) give a session, a refused connection and a client
  elsewhere. The command lines differ from an accepted one in one setting
  each, so that every rule decides one of them.
- `remote_calls`: two calls, one slot of each kind, so that one call can find
  it taken; two mails, one fault (an abort, a timeout, a lost connection, a
  proxy or a stop) and then a restart at most.
- `terminal`: two refreshes, two loads and one deletion over two mails: a
  newer and an older call of each kind. A poll and a key count alike.

Deadlock is checked in `data_directory`, the two runs of `ImapMirror` and
those of `MailService`, whose mailbox never stops being editable. In the other
runs the system really stops: the store, the session, the process or the
terminal is closed, or the calls are over.

### Fairness

`mail_waits`, `snapshot_writer`, `imap_session` and `server_process` check
liveness. Assumed is weak fairness of steps that Node guarantees: a running parser comes back, a timer
fires, a finished file operation and a queued continuation run. Nothing is
assumed of clients, of commits, of failures (a write need not fail, nor
succeed at the rename: retries are bounded) or of the shutdown. In
`imap_session` time passes and timers fire, but a client need not read, write
or close. In `server_process` grace periods end and callbacks run, and
neither the deadline of the shutdown nor a second signal is relied on. Clients
may stay for ever: a shutdown (`stopping`) ends whatever they do. After a failed
start nothing calls `process.exit()`, and the event loop is kept alive by SMTP
connections that `closeSmtp()` gave up on. Whether such a connection ends
depends on smtp-server and on the client, so `ProcessEnds` promises the end of a
failed start only if the SMTP clients have left again and again.

### Environment

- The runtime closes the listeners before the store (`runtime.ts:194-200`), so
  no transaction and no CHECK starts after `store.close()`.
- A completed `rename` survives the crash of the process; losing power is not
  modelled.
- The operator follows the error message before deleting a lock.
- A FETCH response is never larger than its estimate
  (`output-control.ts:365-387`): `ImapSession` writes an estimated batch as it
  was planned, and `PacedFetchFits` holds under this assumption. That the
  estimate is an upper bound is a question of ImapKit's formatting.

### Finding

`killed_process`: the documentation promises that ids and UIDs are never
reused (`db/schema.ts:14`, `docs/imap.md:65`, `libs/client/src/lib/types.ts:50`).
The counters reach the file only with the next snapshot, so a process killed
before it lets the next process give the same id and UID, under the same
`mailboxId` and UIDVALIDITY, to another message. `README.md:29` admits the
loss of mail in that window. `OneIdentityUnlessLost` says what does hold: ids
keep their meaning as long as no process ended with unsaved changes.

### What the properties do not promise

Two sentences of the repository say more than the code does. The properties
about them say what does hold, and where it ends.

- "The flags could not be stored; nothing was changed"
  (`imap/mailbox-adapter.ts:191`) also answers a FETCH of which a later batch
  could not be stored. Its earlier batches have stored `\Seen` and told it, and
  that stands. `RefusedRunChangesNothing` is about one run of the handler: the
  refused batch, not the whole FETCH, has changed nothing.
- "Delete the focused or opened email" (`packages/cli/README.md:73`):
  `handleDeleteKey()` takes the route of now but the selected email of the last
  render (`tui/delete-handler.ts:25`). Open email 1, go back, open email 2 and
  press `d` before the screen is drawn again: email 1 is deleted.
  `DeletesFocusedOrOpened` therefore asks that the selection of the state has
  been rendered, and then holds whatever is still to be answered.

## 4. Proofs

Every safety property that a passing run checks, invariant or action property,
is a theorem of the specification, and so is the refinement of `WriteBehind`.
The theorems hold for every value of the constants: any number of calls,
sessions, processes, messages and retries, any sizes, limits and times.

### Assumptions

The named assumptions of the modules, which TLC evaluates on each instance:

- Limits, times and counts are natural numbers; a limit that the command line
  forbids to be 0 is positive.
- `MailService`: the opened data set has unique keys below its counters and a
  UIDNEXT within 32 bits, which the schema and every earlier run guarantee.
  Nothing is assumed of its size.
  A stored message takes at least its source's size.
- `ImapMirror`: the mailbox that is opened respects the limits on flags, under
  which every earlier server stored them.
- `ImapSession`, `ServerProcess`: a command line is one that the parser can
  tell apart (`CommandLine`), and sessions may be idle at least as long as they
  may take to authenticate. The data items of a FETCH are sequences of items.
- `RemoteCalls`: finitely many calls, with cursors and mailbox ids that are
  numbers, and a bound on the ids above 0.

### Arguments

`MailService_proofs`

- `TypeCorrect` (`TypeOK`) is inductive as it stands; the only interesting
  conjunct is `uidNext \in 1..MaxImapNumber`, from `RoomFor`.
- `KeysAreForEver` (`KeysNeverReused`) needs `KeysInv`: the keys of the rows
  and those handed out are unique and below the counters. Without the part
  about deleted messages, a reused id could not be excluded.
- `NoSilentCommit` (`CommitsAreAnnounced`) rests on the unique ids of
  `KeysInv`, for the listener removes messages by id.
- `StoppedMeansStopped` needs the types alone: only `StoreParsed` adds a row.
- `LimitsHold` (`CapacityRespected`) needs that the new row is new and the
  mailbox finite, both from `KeysInv`. The sum of the stored octets is a fold
  over the rows; it is the number of pairs of a row and one of its octets
  (`SummingCounts`), and so grows by the size of the new row (`TotalGrows`).
- `ArrivalsAreNoticed`, `WaitsAreDrained` and `OutcomesAreTrue` use `WaitInv`:
  a pending wait has no stored match and began below every later id, and after
  `stopAccepting()` none is pending (`StoppedIsDrained`). It is what makes a
  delivery in one step visible to a wait begun in any other. `FirstAfterIsFirst` shows that the row `firstAfter` selects exists.

`DurableMailbox_proofs`, first part: the snapshot writer

- `OneSnapshotAtATime`, `NothingForgotten` and `UnlockedIsUntouched` follow
  from one invariant. The field `writing` names the only call with a write
  (`OneWriter`), so the temporary file holds its snapshot and snapshots only get
  newer (`WholeSnapshots`). `awaiting` and `resuming` are one queue, which a
  settled write moves from the one to the other (`QueuesAreSets`). The owner of
  the write comes first in it and clears the field before a waiter looks at it
  (`OwnerLeads`): two waiters that resumed earlier would both begin to write.
  The flush of `close()` comes last, and with it the queue runs empty for good
  (`CloseComesLast`).
- `PromiseIsKept`: the writer implements `WriteBehind`. `StepIsPromised` maps
  each action to a step of the promise or a stutter; a flush that returns
  needs `WholeSnapshots` to have saved what it was asked for.

`DurableMailbox_proofs`, second part: over restarts

- The writer's invariant survives a crash and the opening of the file.
  `LogIsHistory` ties each revision to its rows, `FlushesHaveSaved` says what
  a successful flush has in the file, `OnlyDeletionsRemove` that a checked
  message misses in a later revision only if it was deleted. Together they
  give `CheckedMailIsSafe` and `CleanCloseIsComplete`. `IdentitiesLast` needs
  `CounterIsAbove`: unless changes were lost, the counter in the file is above
  every id anyone was told.

`DataDirectory_proofs`

- `OneOwner`, `NoUnseenMailLost`, `OriginalsSurvive` and `LocksAreGivenBack`
  follow from one invariant: whoever is past the lock's creation is its
  creator (`LockHeld`), an operator who has checked finds every process ended
  (`OperatorIsRight`: nobody can get past a lock that is still there), and how
  far a process is tells what its backup and its memory hold (`Progress`). A
  lock that is left belongs to a process that holds it or to one in `stranded`.

`ImapMirror_proofs`

- The properties lean on each other, so the invariant has all of them.
  Rolling a refused batch back restores the flags of the messages it was
  planned for: `MirrorIsTrue` holds only if the numbers of the batch still name
  them (`NumbersAreKept`), which needs that a FETCH in progress keeps the view
  of its session (`FetchesPlanned`). `SessionsCanFollow` and `FlagsReachSessions`
  are one invariant in terms of the mirror (`SessionsHonest`).
- `RefusedRunsAreUndone` and `BatchesAreSeen` are action properties from the same
  invariant: a refused batch puts back the flags it found, an answered one was
  stored. Of the earlier batches of a refused FETCH nothing is claimed.

`ImapSession_proofs`

- `PasswordsArePrivate`: the rules of the command line hold of the
  configuration for ever (`LegalConfig`), and a session asks for credentials or
  compares them only after the check of the policy (`Checked`), for
  AUTHENTICATE one line later.
- `DeadlinesAreExact`: until the login, timer and age add up to `PreAuthMs`.
  The login takes the timer over as it stands, which is early enough for the
  idle time because `silent <= age` and `PreAuthMs <= IdleMs` (`TimerCovers`); it
  may be too early, which is why `CheckTime` sets it again.
- `PacingFits`: no planned batch is larger than the largest response
  (`PlanOf`), and one is sent only over at most `LowWater` (`FetchFits`). It assumes the
  estimates to be upper bounds (see Environment). The
  folds of `planFetch` are defined by a CHOOSE of a function on sets of
  positions; `FoldExists` shows that there is one and `FoldTyped` that its
  values stay in a set that the operation does not leave.

`ServerProcess_proofs`

- `StoreClosesLast` and `SocketsAreExact`: a listener is open only while the
  process starts or runs (`OpenWhileUp`), clients are connected only to a
  listener that has not settled, and what a connection does tells where it is
  (`Connections`). From `CloseStore`, which waits for every listener, to the
  exit, over the steps in which `store.close()` is still awaited, the process is
  on its way out (`Leaving`): no listener can open again and no client connect.

`RemoteCalls_proofs`

- `OutcomesAreHonest`, `WaitMissesNothing` and `SlotsAreReturned`: how far a
  call and its request are (`EachUnderway`), what is known of a deletion at the
  server, on the way back and at the caller (`EachHonest`), and where the cursor
  of a repeated wait lies (`EachCursor`), for each call alone; the slots are
  counted over all of them. A step moves one call and its request; a deletion,
  an arrival, a stop or a start moves all of them alike.

`Terminal_proofs`

- `NoStaleDetail` and `TableComesToRest`: the number of the newest load and
  that of the newest refresh are enough to drop late answers
  (`SelectedIsNewest`, `Spinning`, `Resting`), whatever was rendered and
  wherever the user is by then.
- `DeletesHitTheirTarget` takes from `SelectedIsNewest` that a rendered
  selection that is still the state's was opened last; a step starts at most one
  deletion (`OneIsAppended`).

### Induction

The induction rules of the library take a predicate as a parameter, which the
provers cannot instantiate. Where a theorem depends on recursion, a least
counterexample takes their place, from the well-foundedness of the naturals
(`LeastId`, `LeastNumber`): that a filter has a lowest match, that the sum over
a set of rows counts their octets, and that a fold over a sequence is a function
with values of its type. What else a fold computes is not proved.

Ordered checks (`HttpApi`, `Invocation`, the routes of `RemoteCalls`) are
chains of IF: the arms of a CASE have no order, which TLC hides by taking the
first that is true and the provers do not.

### Only model-checked

- Liveness, which is out of the prover's reach: `EveryCallSettles`,
  `FlushReturns`, `ChangesLand`, `FetchesEnd`, `ProcessEnds`.
- `OneIdentity` is refuted (see Finding); `OneIdentityUnlessLost` is proved.
- That the operators of `ServerConfig`, `HttpApi` and `Invocation` agree with
  the code is a matter of reading; the theorems use them as they stand.

## 5. Plan

The components listed in section 1 are modelled and their safety properties
proved. What may still be added, in this order:

1. Theorems about operators alone: for `planFetch`, that its batches together
   are the estimate of the whole FETCH; for `HttpApi`, which requests pass
   under which policy.
2. The type invariants of `ImapSession` and `DataDirectory` with their bounds on
   every field, as theorems of their own.
3. Safety cores of the liveness properties: that in every state in which a
   flush, a wait or a FETCH is pending one of the steps that fairness assumes
   is possible, stated without ENABLED.

## 6. Not modelled

- `apps/web`: rendering and query caching by a third-party library, with no
  protocol of its own.
- The parser: a third-party parser behind one await. `MailService` lets it
  take any time and fail.
- The release scripts: build tooling that runs in CI.
- Formats, logging, help texts, static files and the OpenAPI document.
- The SMTP session before MAIL FROM and after DATA (authentication, TLS, the
  data stream) is that of smtp-server.
- `detach()` of the IMAP mirror at the shutdown, and EXAMINE.
- The conversion of legacy rows (`db/migrations.ts`); what happens to the files
  around it is in `DataDirectory`.
- The visibility of the terminal's filter bar. Whether polls that answer slower
  than every three seconds starve the table is a question of two times that
  `Terminal` does not measure.
- The limits on flags and keywords are part of `ImapMirror`'s actions; no
  property is about them alone.
