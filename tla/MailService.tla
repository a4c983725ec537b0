---------------------------- MODULE MailService ----------------------------
(***************************************************************************)
(* The canonical mailbox (apps/server/src/mail/mail-service.ts) with the   *)
(* SQL repository and the event bus below it.  SMTP, REST, MCP and IMAP    *)
(* change mail only through this service.                                  *)
(*                                                                         *)
(* Node runs one callback at a time, so a handler is one step up to its    *)
(* next await.  The only await of the service that leaves a change half    *)
(* done is the one on the parser in receive(); a wait is registered in one *)
(* step and settled by a later arrival, its timer, its abort signal or the *)
(* shutdown.  Everything else is one SQL transaction, the call of          *)
(* store.changed() and the synchronous event, with nothing in between.     *)
(***************************************************************************)
EXTENDS Naturals, FiniteSets, FiniteSetsExt

CONSTANTS
  Deliveries,          \* SMTP transactions, one message each
  Waiters,             \* calls of waitForEmail
  Kinds,               \* what a filter can tell messages apart by
  Filters,             \* a filter is the set of kinds it matches
  Kind,                \* Kind[d]: the kind of the message d delivers
  RawSize,             \* RawSize[k]: octets of the source
  StoredSize,          \* StoredSize[k]: source plus decoded parts (sizes.ts)
  Flags,               \* IMAP flags
  MaxMessageBytes, MaxMessages, MaxStorageBytes, \* StorageLimits
  MaxImapNumber,       \* 2^32 - 1 in the code, the bound of every run
  MaxActiveWaits,
  MaxFlagsPerMessage,
  OpenedStores         \* what openStore can find: a new or an older data set

Email == [id: Nat, uid: Nat, kind: Kinds, flags: SUBSET Flags]
Store == [emails: SUBSET Email, lastId: Nat, uidNext: Nat, subscribed: BOOLEAN]

\* PRIMARY KEY (id), UNIQUE (uid) and the counters of the meta table.
KeysInOrder(rows, last, next) ==
  /\ \A e \in rows : e.id \in 1..last /\ e.uid < next
  /\ \A e, f \in rows : e.id = f.id \/ e.uid = f.uid => e = f

ASSUME SizesAssumption ==
  /\ Kind \in [Deliveries -> Kinds]
  /\ RawSize \in [Kinds -> Nat]
  /\ StoredSize \in [Kinds -> Nat]
  /\ \A k \in Kinds : StoredSize[k] >= RawSize[k]

ASSUME LimitsAssumption ==
  /\ {MaxMessageBytes, MaxMessages, MaxStorageBytes} \subseteq Nat
  /\ {MaxImapNumber, MaxActiveWaits, MaxFlagsPerMessage} \subseteq Nat
  /\ Filters \subseteq SUBSET Kinds

\* The limits may be lower than those an older data set was filled under, so
\* nothing is assumed of its size.
ASSUME OpenedStoresAssumption ==
  /\ OpenedStores \subseteq Store
  /\ \A s \in OpenedStores :
       /\ KeysInOrder(s.emails, s.lastId, s.uidNext)
       /\ s.uidNext \in 1..MaxImapNumber

VARIABLES
  emails,      \* rows of the emails table
  lastId, uidNext, subscribed,   \* the meta table
  accepting,   \* MailService.accepting
  delivery,    \* progress and reply of each SMTP transaction
  wait,        \* progress and outcome of each waitForEmail
  heard,       \* history: what the events alone tell a listener (id, flags)
  noted        \* history: the data as of the last store.changed()

tables == <<emails, lastId, uidNext, subscribed>>
vars == <<tables, accepting, delivery, wait, heard, noted>>

(***************************************************************************)
(* The repository                                                          *)
(***************************************************************************)
Ids(rows) == {e.id : e \in rows}

StoredBytes == MapThenSumSet(LAMBDA e : StoredSize[e.kind], emails)

\* The row firstAfter() selects: the lowest matching id above the cursor.
MatchesAfter(rows, after, filter) ==
  {e \in rows : e.id > after /\ e.kind \in filter}

IsFirstAfter(id, rows, after, filter) ==
  /\ id \in Ids(MatchesAfter(rows, after, filter))
  /\ \A e \in MatchesAfter(rows, after, filter) : id <= e.id

FirstAfter(rows, after, filter) ==
  CHOOSE id \in Ids(rows) : IsFirstAfter(id, rows, after, filter)

\* Mutants: ids from the rows instead of the counter, and the last UID taken
\* although no UIDNEXT is left above it.
IdAfterHighestRow == IF emails = {} THEN 1 ELSE Max(Ids(emails)) + 1

RoomToTheLastUid(bytes) ==
  /\ uidNext <= MaxImapNumber
  /\ Cardinality(emails) + 1 <= MaxMessages
  /\ StoredBytes + bytes <= MaxStorageBytes

NextId == lastId + 1

RoomFor(bytes) ==
  /\ uidNext < MaxImapNumber
  /\ Cardinality(emails) + 1 <= MaxMessages
  /\ StoredBytes + bytes <= MaxStorageBytes

(***************************************************************************)
(* Events and waits                                                        *)
(***************************************************************************)
Heard(rows) == {[id |-> e.id, flags |-> e.flags] : e \in rows}

Contents == [emails |-> emails, lastId |-> lastId, uidNext |-> uidNext,
             subscribed |-> subscribed]

\* store.changed() and the event that tells the listeners.
Announce(what) ==
  /\ heard' = what
  /\ noted' = Contents'

Pending == {w \in Waiters : wait[w].phase = "pending"}

Answered(w, rows, last) ==
  [wait[w] EXCEPT !.phase = "matched", !.mark = last,
     !.answer = FirstAfter(rows, wait[w].afterId, wait[w].filter)]

\* Mutant: only the wait that registered first hears of the arrival.
WakeOne(rows, last) ==
  LET woken == {w \in Pending :
                  MatchesAfter(rows, wait[w].afterId, wait[w].filter) # {}}
  IN  [w \in Waiters |->
         IF woken # {} /\ w = (CHOOSE v \in woken : TRUE)
         THEN Answered(w, rows, last) ELSE wait[w]]

\* The 'inserted' listeners of the pending waits: each looks for its match.
WakeWaits(rows, last) ==
  [w \in Waiters |->
     IF /\ wait[w].phase = "pending"
        /\ MatchesAfter(rows, wait[w].afterId, wait[w].filter) # {}
     THEN Answered(w, rows, last)
     ELSE wait[w]]

-----------------------------------------------------------------------------
(***************************************************************************)
(* SMTP: MAIL FROM, DATA and the delivery after the parser                 *)
(***************************************************************************)
Reply(d, phase) == delivery' = [delivery EXCEPT ![d].phase = phase]

\* onMailFrom: assertCapacity() reserves nothing.
MailFrom(d) ==
  /\ delivery[d].phase = "idle"
  /\ Reply(d, IF RoomFor(0) THEN "admitted" ELSE "full")
  /\ UNCHANGED <<tables, accepting, wait, heard, noted>>

\* receive() up to its await: refuses, or hands the source to the parser.
Receive(d) ==
  /\ delivery[d].phase = "admitted"
  /\ Reply(d, IF ~accepting THEN "shuttingDown"
              ELSE IF RawSize[Kind[d]] > MaxMessageBytes THEN "tooLarge"
              ELSE "parsing")
  /\ UNCHANGED <<tables, accepting, wait, heard, noted>>

ParserFails(d) ==
  /\ delivery[d].phase = "parsing"
  /\ Reply(d, "failed")
  /\ UNCHANGED <<tables, accepting, wait, heard, noted>>

\* Mutant: the shutdown drops the delivery without an answer.
RefuseWhenFull(d) ==
  /\ delivery[d].phase = "parsing"
  /\ accepting /\ ~RoomFor(StoredSize[Kind[d]])
  /\ Reply(d, "full")
  /\ UNCHANGED <<tables, accepting, wait, heard, noted>>

\* The service may have stopped, or filled up, while the parser ran.
Refuse(d) ==
  /\ delivery[d].phase = "parsing"
  /\ \/ ~accepting /\ Reply(d, "shuttingDown")
     \/ /\ accepting /\ ~RoomFor(StoredSize[Kind[d]])
        /\ Reply(d, "full")
  /\ UNCHANGED <<tables, accepting, wait, heard, noted>>

Insert(d) ==
  LET row == [id |-> NextId, uid |-> uidNext, kind |-> Kind[d], flags |-> {}]
  IN  /\ delivery[d].phase = "parsing"
      /\ emails' = emails \cup {row}
      /\ lastId' = row.id
      /\ uidNext' = row.uid + 1
      /\ delivery' = [delivery EXCEPT ![d] =
                        [phase |-> "stored", id |-> row.id, uid |-> row.uid]]
      /\ wait' = WakeWaits(emails', lastId')
      /\ UNCHANGED <<subscribed, accepting>>
      /\ Announce(heard \cup Heard({row}))

\* Mutants: no second assertAccepting(); the check of MAIL FROM trusted.
StoreAfterStop(d) == RoomFor(StoredSize[Kind[d]]) /\ Insert(d)
StoreUnchecked(d) == accepting /\ uidNext < MaxImapNumber /\ Insert(d)

\* receive() after its await: transaction, changed() and 'inserted'.
StoreParsed(d) ==
  /\ accepting
  /\ RoomFor(StoredSize[Kind[d]])
  /\ Insert(d)

-----------------------------------------------------------------------------
(***************************************************************************)
(* Deletions, flags and the subscription                                   *)
(***************************************************************************)
RemoveRows(gone) ==
  /\ gone # {}
  /\ emails' = emails \ gone
  /\ UNCHANGED <<lastId, uidNext, subscribed, accepting, delivery, wait>>
  /\ Announce({h \in heard : h.id \notin Ids(gone)})

\* Ids that are not stored are skipped.
DeleteMany(ids) == RemoveRows({e \in emails : e.id \in ids})

\* expected is {} for an unconditional clear, else {the count named}.
Clear(expected) ==
  /\ expected \subseteq {Cardinality(emails)}
  /\ RemoveRows(emails)

Flagged(e, changes) ==
  IF e.id \in DOMAIN changes THEN [e EXCEPT !.flags = changes[e.id]] ELSE e

\* Mutant: the flags are stored and no one is told.
SetFlagsSilently(changes) ==
  /\ \A id \in DOMAIN changes : Cardinality(changes[id]) <= MaxFlagsPerMessage
  /\ \E e \in emails : e.id \in DOMAIN changes
  /\ emails' = {Flagged(e, changes) : e \in emails}
  /\ heard' = heard
  /\ UNCHANGED <<lastId, uidNext, subscribed, accepting, delivery, wait, noted>>

\* changes maps ids to their new flags; one bad change refuses them all,
\* unknown ids are skipped.
SetFlags(changes) ==
  /\ \A id \in DOMAIN changes : Cardinality(changes[id]) <= MaxFlagsPerMessage
  /\ \E e \in emails : e.id \in DOMAIN changes
  /\ emails' = {Flagged(e, changes) : e \in emails}
  /\ UNCHANGED <<lastId, uidNext, subscribed, accepting, delivery, wait>>
  /\ Announce({h \in heard : h.id \notin DOMAIN changes} \cup
              Heard({e \in emails' : e.id \in DOMAIN changes}))

SetInboxSubscribed(value) ==
  /\ subscribed' = value
  /\ UNCHANGED <<emails, lastId, uidNext, accepting, delivery, wait>>
  /\ Announce(heard)

-----------------------------------------------------------------------------
(***************************************************************************)
(* waitForEmail                                                            *)
(***************************************************************************)
NoWait == [phase |-> "idle", afterId |-> 0, filter |-> {}, since |-> 0,
           answer |-> 0, mark |-> 0]

\* Begun at the present high watermark, which the history keeps in since.
Begin(w, after, filter, phase) ==
  [NoWait EXCEPT !.phase = phase, !.afterId = after, !.filter = filter,
                 !.since = lastId]

Settle(w, record) ==
  /\ wait' = [wait EXCEPT ![w] = record]
  /\ UNCHANGED <<tables, accepting, delivery, heard, noted>>

TooMany == Cardinality(Pending) >= MaxActiveWaits

\* Rejected: stopping, a cursor above the high watermark, or too many waits.
RefuseWait(w, after, filter, poll) ==
  /\ wait[w].phase = "idle"
  /\ \/ ~accepting
     \/ after > lastId
     \/ ~poll /\ MatchesAfter(emails, after, filter) = {} /\ TooMany
  /\ Settle(w, [NoWait EXCEPT !.phase = "refused"])

\* Mutant: only mail above the high watermark is looked for, so a message
\* stored between the cursor and the call is never found.
BeginWaitBlind(w, after, filter, poll) ==
  /\ wait[w].phase = "idle" /\ accepting /\ after <= lastId
  /\ ~poll /\ ~TooMany
  /\ Settle(w, Begin(w, after, filter, "pending"))

\* Answered at once by a stored match, a poll that finds none, or pending.
BeginWait(w, after, filter, poll) ==
  LET begun == Begin(w, after, filter, "pending")
      found == MatchesAfter(emails, after, filter) # {}
  IN  /\ wait[w].phase = "idle"
      /\ accepting
      /\ after <= lastId
      /\ \/ /\ found
            /\ Settle(w, [begun EXCEPT !.phase = "matched", !.mark = lastId,
                            !.answer = FirstAfter(emails, after, filter)])
         \/ /\ ~found /\ poll
            /\ Settle(w, [begun EXCEPT !.phase = "timedOut", !.mark = lastId])
         \/ /\ ~found /\ ~poll /\ ~TooMany
            /\ Settle(w, begun)

Timeout(w) ==
  /\ wait[w].phase = "pending"
  /\ Settle(w, [wait[w] EXCEPT !.phase = "timedOut", !.mark = lastId])

Abort(w) ==
  /\ wait[w].phase = "pending"
  /\ Settle(w, [wait[w] EXCEPT !.phase = "aborted"])

StopAccepting ==
  /\ accepting' = FALSE
  /\ wait' = [w \in Waiters |-> IF wait[w].phase = "pending"
                                THEN [wait[w] EXCEPT !.phase = "cancelled"]
                                ELSE wait[w]]
  /\ UNCHANGED <<tables, delivery, heard, noted>>

-----------------------------------------------------------------------------
Init ==
  \E s \in OpenedStores :
    /\ emails = s.emails
    /\ lastId = s.lastId
    /\ uidNext = s.uidNext
    /\ subscribed = s.subscribed
    /\ accepting = TRUE
    /\ delivery = [d \in Deliveries |-> [phase |-> "idle", id |-> 0, uid |-> 0]]
    /\ wait = [w \in Waiters |-> NoWait]
    /\ heard = Heard(s.emails)
    /\ noted = s

\* Ids a caller may name: stored, deleted and not yet allocated ones.
NamedIds == 1..(lastId + 1)

Deliver(d) ==
  \/ MailFrom(d)
  \/ Receive(d)
  \/ ParserFails(d)
  \/ Refuse(d)
  \/ StoreParsed(d)

Edit ==
  \/ \E ids \in SUBSET NamedIds : DeleteMany(ids)
  \/ \E n \in 0..(MaxMessages + 1) : Clear({n})
  \/ Clear({})
  \/ \E ids \in SUBSET NamedIds :
       \E changes \in [ids -> SUBSET Flags] : SetFlags(changes)
  \/ \E value \in BOOLEAN : SetInboxSubscribed(value)

Await(w) ==
  \/ \E after \in 0..(lastId + 1), filter \in Filters, poll \in BOOLEAN :
       RefuseWait(w, after, filter, poll) \/ BeginWait(w, after, filter, poll)
  \/ Timeout(w)
  \/ Abort(w)

Next ==
  \/ \E d \in Deliveries : Deliver(d)
  \/ Edit
  \/ \E w \in Waiters : Await(w)
  \/ StopAccepting

\* The parser ends and a timer fires; clients and operators owe nothing.
Fairness ==
  /\ \A d \in Deliveries : WF_vars(Refuse(d) \/ StoreParsed(d))
  /\ \A w \in Waiters : WF_vars(Timeout(w))

Spec == Init /\ [][Next]_vars
FairSpec == Spec /\ Fairness
-----------------------------------------------------------------------------
(***************************************************************************)
(* Properties                                                              *)
(***************************************************************************)
DeliveryState ==
  [phase: {"idle", "admitted", "parsing", "stored", "full", "tooLarge", "failed",
           "shuttingDown"}, id: Nat, uid: Nat]

WaitState ==
  [phase: {"idle", "pending", "matched", "timedOut", "aborted", "cancelled",
           "refused"},
   afterId: Nat, filter: SUBSET Kinds, since: Nat, answer: Nat, mark: Nat]

\* The type of every variable; UIDNEXT stays a 32-bit IMAP number.
TypeOK ==
  /\ emails \in SUBSET Email /\ lastId \in Nat /\ subscribed \in BOOLEAN
  /\ uidNext \in 1..MaxImapNumber
  /\ accepting \in BOOLEAN
  /\ delivery \in [Deliveries -> DeliveryState]
  /\ wait \in [Waiters -> WaitState]
  /\ heard \subseteq [id: Nat, flags: SUBSET Flags]
  /\ noted \in Store

Stored(d) == delivery[d].phase = "stored"

\* "ids are never reused, not even after clear" (db/schema.ts:14), within one
\* process: no two deliveries ever get the same id or UID, a key handed out
\* names that message or none.
KeysNeverReused ==
  /\ \A c, d \in Deliveries : c # d /\ Stored(c) /\ Stored(d) =>
       delivery[c].id # delivery[d].id /\ delivery[c].uid # delivery[d].uid
  /\ \A d \in Deliveries, e \in emails :
       Stored(d) /\ (e.id = delivery[d].id \/ e.uid = delivery[d].uid) =>
         e.id = delivery[d].id /\ e.uid = delivery[d].uid /\ e.kind = Kind[d]

\* Deliveries admitted by MAIL FROM one after the other cannot together push
\* the mailbox past --max-messages or --max-storage-bytes: a step that adds a
\* message ends within both limits (assertRoomFor in the transaction).
CapacityRespected ==
  [][Ids(emails') \subseteq Ids(emails) \/
       (Cardinality(emails') <= MaxMessages /\ StoredBytes' <= MaxStorageBytes)]_vars

\* After stopAccepting() no message enters the mailbox, whatever was being
\* parsed at that moment (the second assertAccepting of receive()).
NothingStoredAfterStop ==
  [][~accepting => Ids(emails') \subseteq Ids(emails)]_vars

\* "Subscribe first, then check again, so that no arrival is missed": a
\* matching message that arrived since the call, deleted again or not, keeps
\* no wait pending, is above the cursor of a timeout (the CLI goes on from
\* there), and is never passed over for a later one.
NoArrivalMissed ==
  \A w \in Waiters, d \in Deliveries :
    /\ Stored(d)
    /\ delivery[d].id > wait[w].since
    /\ Kind[d] \in wait[w].filter
    => /\ wait[w].phase # "pending"
       /\ wait[w].phase = "timedOut" => delivery[d].id > wait[w].mark
       /\ wait[w].phase = "matched" => delivery[d].id >= wait[w].answer

\* A wait is answered with the lowest stored match above its cursor, and it
\* times out only when nothing stored matches, with the high watermark of
\* that moment.
OutcomeMatchesStore ==
  [][\A w \in Waiters :
       LET o == wait'[w]
       IN  o.phase # wait[w].phase =>
             /\ o.phase = "matched" =>
                  IsFirstAfter(o.answer, emails', o.afterId, o.filter)
             /\ o.phase = "timedOut" =>
                  /\ MatchesAfter(emails', o.afterId, o.filter) = {}
                  /\ o.mark = lastId']_vars

\* Whoever follows the events knows every message and its flags, and the
\* store was told of every commit: no change of the tables is silent.
CommitsAreAnnounced == heard = Heard(emails) /\ noted = Contents

\* A delivery handed to the parser is answered and a pending wait ends.
EveryCallSettles ==
  /\ \A d \in Deliveries :
       delivery[d].phase = "parsing" ~> delivery[d].phase # "parsing"
  /\ \A w \in Waiters :
       wait[w].phase = "pending" ~> wait[w].phase # "pending"
=============================================================================
