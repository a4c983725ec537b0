---------------------------- MODULE ImapMirror -----------------------------
(***************************************************************************)
(* IMAP's copy of the mailbox: apps/server/src/imap/mailbox-adapter.ts,    *)
(* the keyword check of mailbox-plugin.ts, paced FETCH of output-control.ts *)
(* and the notification queues that pending-work.ts bounds.                *)
(*                                                                         *)
(* ImapKit keeps INBOX as message objects in memory.  The adapter applies  *)
(* changes of other surfaces to it and stores what IMAP sessions change.   *)
(* A command is one step, except a FETCH in batches, which leaves room for *)
(* everything else before each batch.                                      *)
(*                                                                         *)
(* A message is its UID (MailService shows that id and UID name the same   *)
(* message and are never reused); its number in a session is its rank in   *)
(* the session's view.  ImapKit is external: what it does is taken from    *)
(* how the adapter and its tests use it.                                   *)
(***************************************************************************)
EXTENDS Naturals, FiniteSets

CONSTANTS
  Sessions,
  MaxUid,                \* bound: UIDs 1..MaxUid are ever allocated
  Flags, Seen, Deleted,  \* \Seen and \Deleted are flags as keywords are
  Keywords,              \* flags that are keywords
  StoreFlags,            \* the flag lists clients send with STORE
  MaxFlagsPerMessage, MaxKeywords,
  MaxQueuedNotifications,
  MaxRetained,           \* budgetBytes in deleted messages a queue keeps
  BatchSize,             \* batchBytes in messages
  Subscriptions,         \* bound: the values the subscription takes
  OpenedMail             \* the stored flags by UID a data set may begin with

Uids == 1..MaxUid

ASSUME MirrorAssumption ==
  /\ MaxUid \in Nat /\ BatchSize \in Nat \ {0}
  /\ {MaxFlagsPerMessage, MaxKeywords} \subseteq Nat
  /\ {MaxQueuedNotifications, MaxRetained} \subseteq Nat
  /\ IsFiniteSet(Flags)
  /\ {Seen, Deleted} \subseteq Flags \ Keywords
  /\ Keywords \subseteq Flags
  /\ StoreFlags \subseteq SUBSET Flags
  /\ Subscriptions \subseteq BOOLEAN

\* An earlier run kept to the same limits on flags.
ASSUME OpenedMailAssumption ==
  \A m \in OpenedMail :
    /\ DOMAIN m \subseteq Uids
    /\ m \in [DOMAIN m -> SUBSET Flags]
    /\ \A u \in DOMAIN m : Cardinality(m[u]) <= MaxFlagsPerMessage
    /\ Cardinality((UNION {m[u] : u \in DOMAIN m}) \cap Keywords) <= MaxKeywords

VARIABLES
  mail,        \* the service: flags of the stored messages by UID
  uidNext,
  inbox,       \* UIDs in ImapKit's list mailbox.messages
  ghost,       \* UIDs whose message object is marked deleted
  flags,       \* the flags of every message object, ghosts included
  known,       \* keywords in mailbox.knownFlags
  subscription, \* the service's and ImapKit's
  session,     \* per session: view, queued notifications, what it was told
  fetch,       \* per session: its FETCH, while batches are to come
  answer       \* history: "NO" after a step that answered a command so

vars == <<mail, uidNext, inbox, ghost, flags, known, subscription, session,
          fetch, answer>>
mirror == <<inbox, ghost, flags, known>>

-----------------------------------------------------------------------------
(***************************************************************************)
(* Sessions and their notifications (ImapKit, bounded by limitPendingWork) *)
(***************************************************************************)
Away == [phase |-> "away", view |-> {}, told |-> [u \in Uids |-> {}],
         new |-> {}, flagged |-> {}, gone |-> {}, queued |-> 0]

NoFetch == [asked |-> {}, seen |-> FALSE, numbered |-> FALSE, at |-> <<>>]

Selected(s) == session[s].phase = "selected"

\* The messages of a FETCH whose batches are still to come, by UID.
Todo(f) == DOMAIN f.at

\* Every queued update reaches the client: EXISTS, FETCH and EXPUNGE.
Updated(c, objects) ==
  [c EXCEPT
     !.view = (c.view \cup c.new) \ c.gone,
     !.told = [u \in Uids |->
                 CASE u \in c.gone -> {}
                   [] u \in (c.new \cup (c.flagged \cap c.view)) \ c.gone -> objects[u]
                   [] OTHER -> c.told[u]],
     !.new = {}, !.flagged = {}, !.gone = {}, !.queued = 0]

\* EXPUNGE is kept back, so that the numbers of the session stay.
HeldBack(c, objects) ==
  LET later == [Updated([c EXCEPT !.gone = {}], objects) EXCEPT !.gone = c.gone]
  IN  [later EXCEPT !.queued = Cardinality(c.gone)]

\* What the client is told at the end of a command: after a command with
\* sequence numbers no EXPUNGE, and while one is due perhaps nothing.
AfterCommand(c, objects, numbered) ==
  IF ~numbered \/ c.gone = {} THEN {Updated(c, objects)}
  ELSE {c, HeldBack(c, objects)}

Queue(c, new, flagged, gone, count) ==
  [c EXCEPT !.new = @ \cup new, !.flagged = @ \cup flagged,
            !.gone = @ \cup gone, !.queued = @ + count,
            !.told = [u \in Uids |-> IF u \in gone THEN {} ELSE @[u]]]

\* retainedSources(): every deleted message counts once.
Retained(c, ghosts) == Cardinality((c.new \cup c.flagged \cup c.gone) \cap ghosts)

Full(c, ghosts) ==
  \/ c.queued > MaxQueuedNotifications
  \/ Retained(c, ghosts) > MaxRetained

\* Mutant: the update is dropped and the session goes on.
DropUpdate(c) == c

\* refuse(): BYE, and the session is over.
Disconnect(c) == Away

\* queueNotification: IDLE drains at once; at a limit the session ends.
Notified(c, new, flagged, gone, count, objects, ghosts) ==
  LET queue == Queue(c, new, flagged, gone, count)
  IN  CASE c.phase = "away" \/ count = 0 -> c
        [] c.phase = "idle" /\ count # 0 -> Updated(queue, objects)
        [] OTHER -> IF Full(queue, ghosts) THEN Disconnect(c) ELSE queue

\* New messages, changed flags and deletions as every session hears of them.
Arrived(c, u, objects) == Notified(c, {u}, {}, {}, 1, objects, ghost)
Flagged(c, us, objects) ==
  Notified(c, {}, us, {}, IF us = {} THEN 0 ELSE 1, objects, ghost)
Expunged(c, us, ghosts) ==
  Notified(c, {}, {}, us, Cardinality(us), flags, ghosts)

\* A session that ends ends its FETCH: waitForRoom() resolves with false.
Fetching(f) ==
  fetch' = [t \in Sessions |->
              IF session'[t].phase = "away" THEN NoFetch ELSE f[t]]

-----------------------------------------------------------------------------
(***************************************************************************)
(* Changes of other surfaces, heard by the listeners of attach()           *)
(***************************************************************************)
\* 'inserted' -> append(): appendMessage and EXISTS.
Insert ==
  /\ uidNext <= MaxUid
  /\ mail' = [u \in DOMAIN mail \cup {uidNext} |->
                IF u = uidNext THEN {} ELSE mail[u]]
  /\ uidNext' = uidNext + 1
  /\ inbox' = inbox \cup {uidNext}
  /\ UNCHANGED flags
  /\ session' = [t \in Sessions |-> Arrived(session[t], uidNext, flags)]
  /\ Fetching(fetch)
  /\ answer' = "OK"
  /\ UNCHANGED <<ghost, known, subscription>>

\* 'deleted' -> expunge(): the control API, for the messages mirrored.
DeleteElsewhere(us) ==
  LET present == us \cap inbox
      ghosts == ghost \cup present
  IN  /\ us # {} /\ us \subseteq DOMAIN mail
      /\ mail' = [u \in DOMAIN mail \ us |-> mail[u]]
      /\ inbox' = inbox \ present
      /\ ghost' = ghosts
      /\ session' = [t \in Sessions |-> Expunged(session[t], present, ghosts)]
      /\ Fetching(fetch)
      /\ answer' = "OK"
      /\ UNCHANGED <<uidNext, flags, known, subscription>>

\* 'flags' -> control.setFlags() for a message mirrored.  Nothing but IMAP
\* sets flags today; the listener is there for changes of origin 'internal',
\* which are taken to set no keywords.
FlagElsewhere(u, new) ==
  /\ u \in DOMAIN mail
  /\ new \cap Keywords = {}
  /\ Cardinality(new) <= MaxFlagsPerMessage
  /\ mail' = [mail EXCEPT ![u] = new]
  /\ LET after == [flags EXCEPT ![u] = new]
     IN  IF u \in inbox
         THEN /\ flags' = after
              /\ session' = [t \in Sessions |-> Flagged(session[t], {u}, after)]
         ELSE UNCHANGED <<flags, session>>
  /\ Fetching(fetch)
  /\ answer' = "OK"
  /\ UNCHANGED <<uidNext, inbox, ghost, known, subscription>>

-----------------------------------------------------------------------------
(***************************************************************************)
(* STORE and FETCH: runWithFlags()                                         *)
(***************************************************************************)
Changed(op, old) ==
  CASE op.kind = "add"    -> old \cup op.flags
    [] op.kind = "remove" -> old \ op.flags
    [] op.kind = "set"    -> op.flags

\* The message objects after ImapKit's handler, before anything is stored.
\* What it does to deleted ones is left out: the service skips them.
Handled(touched, op) ==
  [u \in Uids |-> IF u \in touched \cap inbox THEN Changed(op, flags[u])
                                             ELSE flags[u]]

KnownAfter(op) ==
  IF op.kind = "remove" THEN known ELSE known \cup (op.flags \cap Keywords)

\* assertFlags() throws for any of them.
TooManyFlags(changed, after) ==
  \E u \in changed : Cardinality(after[u]) > MaxFlagsPerMessage

\* Mutant: the flags are not put back.
Unrestored(tracked, after) == after

\* restore() knows the flags of the tracked messages only.
Restored(tracked, after) ==
  [u \in Uids |-> IF u \in tracked THEN flags[u] ELSE after[u]]

\* Mutant: the keywords are not put back.
RestoreFlagsOnly(restored, op) ==
  /\ flags' = restored
  /\ known' = KnownAfter(op)

Restore(restored, op) ==
  /\ flags' = restored
  /\ known' = known

\* Mutant: the handler is not wrapped, so the service never hears of it.
ChangeMemoryOnly(changed, after, op) ==
  /\ mail' = mail
  /\ flags' = after
  /\ known' = KnownAfter(op)

\* setFlags() skips what is not stored any more; its event is not echoed.
StoreChanges(changed, after, op) ==
  /\ mail' = [u \in DOMAIN mail |-> IF u \in changed THEN after[u] ELSE mail[u]]
  /\ flags' = after
  /\ known' = KnownAfter(op)

Responses(s, touched, after) ==
  [session[s] EXCEPT !.told = [u \in Uids |->
     IF u \in touched \cap inbox THEN after[u] ELSE @[u]]]

\* Mutant: the flag changes held back are not replayed.
ReplayResponses(s, touched, after) ==
  [session EXCEPT ![s] = Responses(s, touched, after)]

\* replay(): responses to the client, notifyFlagChanges() to the others.
Replay(s, touched, after) ==
  [t \in Sessions |->
     IF t = s THEN Responses(s, touched, after)
     ELSE Flagged(session[t], {u \in touched : after[u] # flags[u]}, after)]

\* The command of s is over, with these message objects and sessions.
Finish(s, now, objects, numbered) ==
  IF now[s].phase = "away" THEN session' = now
  ELSE \E c \in AfterCommand(now[s], objects, numbered) :
         session' = [now EXCEPT ![s] = [c EXCEPT !.phase = "selected"]]

\* runWithFlags() and replay().  Storing a change may fail, and does when a
\* message gets too many flags; else the command goes on with its next batch,
\* or is complete.
RunWithFlags(s, touched, tracked, op, numbered, rest) ==
  LET after == Handled(touched, op)
      changed == {u \in tracked : after[u] # flags[u]}
      restored == Restored(tracked, after)
  IN  \/ /\ changed # {}
         /\ Restore(restored, op)
         /\ Finish(s, session, restored, numbered)
         /\ Fetching([fetch EXCEPT ![s] = NoFetch])
         /\ answer' = "NO"
         /\ UNCHANGED <<mail, uidNext, inbox, ghost, subscription>>
      \/ /\ ~TooManyFlags(changed, after)
         /\ StoreChanges(changed, after, op)
         /\ IF rest = NoFetch
            THEN Finish(s, Replay(s, touched, after), after, numbered)
            ELSE session' = Replay(s, touched, after)
         /\ Fetching([fetch EXCEPT ![s] = rest])
         /\ answer' = "OK"
         /\ UNCHANGED <<uidNext, inbox, ghost, subscription>>

\* Refused before it runs: too many keywords, or a response too large.
Refuse(s, numbered) ==
  /\ Finish(s, session, flags, numbered)
  /\ Fetching([fetch EXCEPT ![s] = NoFetch])
  /\ answer' = "NO"
  /\ UNCHANGED <<mail, uidNext, mirror, subscription>>

Addressable(s) == session[s].view \cup inbox

KeywordsFit(op) ==
  op.kind = "remove" \/ Cardinality(KnownAfter(op)) <= MaxKeywords

\* persistFlags() behind checkKeywords().
Store(s, us, op, numbered) ==
  /\ Selected(s)
  /\ us # {} /\ us \subseteq session[s].view
  /\ \/ ~KeywordsFit(op) /\ Refuse(s, numbered)
     \/ /\ KeywordsFit(op)
        /\ RunWithFlags(s, us, Addressable(s), op, numbered, NoFetch)

-----------------------------------------------------------------------------
(***************************************************************************)
(* FETCH: pacedFetch()                                                     *)
(***************************************************************************)
\* Mutant: the numbers of the mailbox instead of those of the session.
NumberInMailbox(s, u) == Cardinality({v \in inbox : v <= u})

Number(s, u) == Cardinality({v \in session[s].view : v <= u})

\* The messages a batch names, by number or by UID, when it runs.
Named(s, batch) ==
  LET f == fetch[s]
  IN  IF f.numbered
      THEN {u \in session[s].view :
              Cardinality({v \in session[s].view : v <= u}) \in
                {f.at[v] : v \in batch}}
      ELSE batch \cap session[s].view

ReadOp(seen) == [kind |-> "add", flags |-> IF seen THEN {Seen} ELSE {}]

\* A response for one message may be too large, or there are too many items.
RefuseFetch(s, numbered) == Selected(s) /\ Refuse(s, numbered)

\* In batches planned now if it is large or output is pending, else at once.
Fetch(s, us, seen, numbered) ==
  LET plan == [asked |-> us, seen |-> seen, numbered |-> numbered,
               at |-> [u \in us |-> IF numbered THEN Number(s, u) ELSE u]]
  IN  /\ Selected(s)
      /\ us # {} /\ us \subseteq session[s].view
      /\ \/ /\ Cardinality(us) <= BatchSize
            /\ RunWithFlags(s, us, Addressable(s), ReadOp(seen), numbered, NoFetch)
         \/ /\ session' = [session EXCEPT ![s].phase = "fetching"]
            /\ fetch' = [fetch EXCEPT ![s] = plan]
            /\ answer' = "OK"
            /\ UNCHANGED <<mail, uidNext, mirror, subscription>>

\* The next batch, once waitForRoom() resolves.
FirstOf(todo) == {u \in todo : Cardinality({v \in todo : v < u}) < BatchSize}

SendBatch(s) ==
  LET f == fetch[s]
      batch == FirstOf(Todo(f))
      rest == Todo(f) \ batch
      touched == Named(s, batch)
      tracked == IF Cardinality(f.asked) <= BatchSize THEN Addressable(s) ELSE batch
  IN  /\ session[s].phase = "fetching"
      /\ RunWithFlags(s, touched, tracked, ReadOp(f.seen), f.numbered,
                      IF rest = {} THEN NoFetch
                      ELSE [f EXCEPT !.at = [u \in rest |-> f.at[u]]])

-----------------------------------------------------------------------------
(***************************************************************************)
(* EXPUNGE, UID EXPUNGE and CLOSE: guardExpunge() and persistExpunge()     *)
(***************************************************************************)
\* The list copied before the handler ran is put back and unmarked.
RestoreInbox(doomed) ==
  /\ inbox' = inbox
  /\ ghost' = (ghost \cup doomed) \ inbox

\* ImapKit takes the messages from the list, then the service deletes them,
\* then the sessions are told; a CLOSE tells the session that closes nothing.
Expunge(s, us, close) ==
  LET doomed == {u \in us : Deleted \in flags[u]}
      now == [t \in Sessions |->
                IF t = s /\ close THEN Away
                ELSE Expunged(session[t], doomed, ghost \cup doomed)]
  IN  /\ Selected(s)
      /\ UNCHANGED <<uidNext, flags, known, subscription>>
      /\ \/ /\ doomed # {}
            /\ RestoreInbox(doomed)
            /\ Finish(s, session, flags, FALSE)
            /\ answer' = "NO"
            /\ UNCHANGED mail
         \/ /\ mail' = [u \in DOMAIN mail \ doomed |-> mail[u]]
            /\ inbox' = inbox \ doomed
            /\ ghost' = ghost \cup doomed
            /\ Finish(s, now, flags, FALSE)
            /\ answer' = "OK"
      /\ Fetching(fetch)

-----------------------------------------------------------------------------
(***************************************************************************)
(* The rest of a session                                                   *)
(***************************************************************************)
Become(s, c) ==
  /\ session' = [session EXCEPT ![s] = c]
  /\ Fetching(fetch)
  /\ answer' = "OK"
  /\ UNCHANGED <<mail, uidNext, mirror, subscription>>

Select(s) ==
  /\ session[s].phase = "away"
  /\ Become(s, [Away EXCEPT !.phase = "selected", !.view = inbox,
                  !.told = [u \in Uids |-> IF u \in inbox THEN flags[u] ELSE {}]])

\* UNSELECT, LOGOUT, a timeout or a lost connection: nothing is expunged.
Leave(s) ==
  /\ session[s].phase # "away"
  /\ Become(s, Away)

\* NOOP, and a CHECK that has flushed.
Noop(s) ==
  /\ Selected(s)
  /\ Become(s, Updated(session[s], flags))

Idle(s) ==
  /\ Selected(s)
  /\ Become(s, [Updated(session[s], flags) EXCEPT !.phase = "idle"])

Done(s) ==
  /\ session[s].phase = "idle"
  /\ Become(s, [session[s] EXCEPT !.phase = "selected"])

\* SUBSCRIBE and UNSUBSCRIBE of INBOX.
Subscribe(value) ==
  /\ \/ /\ subscription' = [stored |-> value, shown |-> value]
        /\ answer' = "OK"
     \/ UNCHANGED subscription /\ answer' = "NO"
  /\ UNCHANGED <<mail, uidNext, mirror, session, fetch>>

-----------------------------------------------------------------------------
\* storage() and attach(): the mirror is loaded from what is stored.
Init ==
  \E m \in OpenedMail, n \in 1..(MaxUid + 1), value \in Subscriptions :
    /\ \A u \in DOMAIN m : u < n
    /\ n = 1 \/ n - 1 \in DOMAIN m
    /\ mail = m
    /\ uidNext = n
    /\ inbox = DOMAIN m
    /\ ghost = {}
    /\ flags = [u \in Uids |-> IF u \in DOMAIN m THEN m[u] ELSE {}]
    /\ known = (UNION {m[u] : u \in DOMAIN m}) \cap Keywords
    /\ subscription = [stored |-> value, shown |-> value]
    /\ session = [s \in Sessions |-> Away]
    /\ fetch = [s \in Sessions |-> NoFetch]
    /\ answer = "OK"

Ops == [kind: {"add", "remove", "set"}, flags: StoreFlags]

Elsewhere ==
  \/ Insert
  \/ \E us \in SUBSET DOMAIN mail : DeleteElsewhere(us)
  \/ \E u \in DOMAIN mail, new \in StoreFlags : FlagElsewhere(u, new)

Command(s) ==
  \/ \E us \in SUBSET session[s].view, numbered \in BOOLEAN :
       \/ \E op \in Ops : Store(s, us, op, numbered)
       \/ \E seen \in BOOLEAN : Fetch(s, us, seen, numbered)
  \/ \E numbered \in BOOLEAN : RefuseFetch(s, numbered)
  \/ SendBatch(s)
  \/ \E us \in SUBSET inbox, close \in BOOLEAN : Expunge(s, us, close)
  \/ Select(s)
  \/ Leave(s)
  \/ Noop(s)
  \/ Idle(s)
  \/ Done(s)

Next ==
  \/ Elsewhere
  \/ \E s \in Sessions : Command(s)
  \/ \E value \in Subscriptions : Subscribe(value)

Spec == Init /\ [][Next]_vars
-----------------------------------------------------------------------------
(***************************************************************************)
(* Properties                                                              *)
(***************************************************************************)
SessionState ==
  [phase: {"away", "selected", "idle", "fetching"},
   view: SUBSET Uids, told: [Uids -> SUBSET Flags],
   new: SUBSET Uids, flagged: SUBSET Uids, gone: SUBSET Uids,
   queued: 0..MaxQueuedNotifications]

FetchState(f) ==
  /\ DOMAIN f = {"asked", "seen", "numbered", "at"}
  /\ f.asked \subseteq Uids
  /\ {f.seen, f.numbered} \subseteq BOOLEAN
  /\ DOMAIN f.at \subseteq Uids /\ \A u \in DOMAIN f.at : f.at[u] \in Nat

\* The type of every variable; no message has more flags than the limit and
\* no queue more notifications; the mailbox knows at most MAX_KEYWORDS.
TypeOK ==
  /\ DOMAIN mail \subseteq Uids
  /\ \A u \in DOMAIN mail :
       mail[u] \subseteq Flags /\ Cardinality(mail[u]) <= MaxFlagsPerMessage
  /\ uidNext \in 1..(MaxUid + 1)
  /\ inbox \subseteq Uids /\ ghost \subseteq Uids
  /\ flags \in [Uids -> SUBSET Flags]
  /\ known \subseteq Keywords /\ Cardinality(known) <= MaxKeywords
  /\ subscription \in [stored: BOOLEAN, shown: BOOLEAN]
  /\ session \in [Sessions -> SessionState]
  /\ DOMAIN fetch = Sessions /\ \A s \in Sessions : FetchState(fetch[s])
  /\ answer \in {"OK", "NO"}

\* "Keeps ImapKit's in-memory INBOX in step with the MailService": after every
\* step, refused and rolled back ones included, the mirror has the stored
\* messages with their flags, marks none of them as deleted, offers every
\* keyword in use and shows the stored subscription.
MirrorMatches ==
  /\ inbox = DOMAIN mail
  /\ \A u \in inbox : flags[u] = mail[u] /\ u \notin ghost
  /\ \A u \in inbox : mail[u] \cap Keywords \subseteq known
  /\ subscription.stored = subscription.shown

\* Every session can tell the present mailbox from what it has been shown and
\* what is queued for it: each arrival and each deletion reaches it once, in
\* IDLE, between the batches of a FETCH or at the limit of its queue.
UpdatesExplainMailbox ==
  \A s \in Sessions :
    LET c == session[s]
    IN  c.phase # "away" =>
          /\ (c.view \cup c.new) \ c.gone = inbox
          /\ c.view \cap c.new = {} /\ c.gone \subseteq c.view \cup c.new
          /\ c.queued = 0 => c.new \cup c.flagged \cup c.gone = {}

\* "Other sessions with INBOX open are told about every change"
\* (docs/imap.md:57): what a session was last told of a message are its stored
\* flags, unless a FETCH notification is on its way.
ToldWhatIsStored ==
  \A s \in Sessions :
    LET c == session[s]
    IN  c.phase # "away" =>
          \A u \in c.view \cap DOMAIN mail : c.told[u] = mail[u] \/ u \in c.flagged

\* A run of a handler that is refused, that is a whole STORE, EXPUNGE, CLOSE
\* or SUBSCRIBE, a FETCH at once or one batch of a FETCH, leaves the mailbox,
\* ImapKit's memory and every session as they were before that run, apart from
\* updates that were already queued for the session that gave it.  The batches
\* before a refused one have set \Seen, although the answer to the whole FETCH
\* is "nothing was changed".
RefusedRunChangesNothing ==
  [][answer' = "NO" =>
       /\ UNCHANGED <<mail, inbox, ghost, flags, known, subscription>>
       /\ \A s \in Sessions :
            /\ session'[s].new \subseteq session[s].new
            /\ session'[s].flagged \subseteq session[s].flagged
            /\ session'[s].gone \subseteq session[s].gone
            /\ \A u \in inbox : session'[s].told[u] \in {session[s].told[u], mail[u]}
    ]_vars

\* A FETCH in batches goes on to answer the very messages it named when it was
\* given, however mail arrives, leaves and changes before the next batch.
FetchKeepsNumbers ==
  \A s \in Sessions :
    session[s].phase = "fetching" =>
      \A u \in Todo(fetch[s]) : Named(s, {u}) = {u}

\* "Flag changes (\Seen) are stored per batch before the batch is sent": a
\* batch that sets \Seen and is not refused leaves its messages, as far as they
\* are still stored, stored as seen.
BodySentIsSeen ==
  [][answer' = "OK" =>
       \A s \in Sessions :
         fetch[s].seen /\ session'[s].phase # "away" =>
           \A u \in (Todo(fetch[s]) \ Todo(fetch'[s])) \cap DOMAIN mail' :
             Seen \in mail'[u]]_vars
=============================================================================
