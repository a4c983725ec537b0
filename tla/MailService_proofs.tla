------------------------- MODULE MailService_proofs -------------------------
(***************************************************************************)
(* The safety properties of MailService for any number of deliveries and   *)
(* waits, any kinds, sizes, limits and older data sets.                    *)
(*                                                                         *)
(* Keys are unique and never above the counters (KeysInv), so that a new   *)
(* row is new and the mailbox finite; a wait that goes on has no match     *)
(* (WaitInv).                                                              *)
(* The sum of the stored octets is a fold over the rows, and counting      *)
(* octets instead shows that a row adds its own (TotalGrows).              *)
(***************************************************************************)
EXTENDS MailService, FiniteSetTheorems, WellFoundedInduction, TLAPS

\* A non-empty set of ids has a lowest one.
LEMMA LeastId ==
  ASSUME NEW T \in SUBSET Nat, T # {}
  PROVE  \E i \in T : \A j \in T : i <= j
<1> DEFINE Less == OpToRel(<, Nat)
<1>1. IsWellFoundedOn(Less, Nat)
  BY NatLessThanWellFounded
<1> HIDE DEF Less
<1>2. PICK i \in T : \A j \in T : <<j, i>> \notin Less
  BY <1>1, WFMin
<1>3. \A m, n \in Nat : <<m, n>> \in Less <=> m < n
  BY DEF Less, OpToRel
<1>4. ASSUME NEW j \in T PROVE i <= j
  <2>1. i \in Nat /\ j \in Nat
    OBVIOUS
  <2>2. ~(j < i)
    BY <1>2, <1>3, <2>1
  <2> QED
    BY <2>1, <2>2
<1> QED
  BY <1>4

\* firstAfter() selects the lowest match there is.
LEMMA FirstAfterIsFirst ==
  ASSUME NEW rows \in SUBSET Email, NEW after, NEW filter,
         MatchesAfter(rows, after, filter) # {}
  PROVE  /\ IsFirstAfter(FirstAfter(rows, after, filter), rows, after, filter)
         /\ FirstAfter(rows, after, filter) \in Ids(rows)
         /\ FirstAfter(rows, after, filter) \in Nat
<1> DEFINE M == MatchesAfter(rows, after, filter)
<1>1. M \subseteq rows
  BY DEF MatchesAfter
<1>2. Ids(M) \in SUBSET Nat /\ Ids(M) # {} /\ Ids(M) \subseteq Ids(rows)
  BY <1>1 DEF Ids, Email
<1>3. PICK i \in Ids(M) : \A j \in Ids(M) : i <= j
  BY <1>2, LeastId
<1>4. IsFirstAfter(i, rows, after, filter)
  BY <1>3 DEF IsFirstAfter, Ids
<1>5. i \in Ids(rows)
  BY <1>2
<1>6. /\ IsFirstAfter(FirstAfter(rows, after, filter), rows, after, filter)
      /\ FirstAfter(rows, after, filter) \in Ids(rows)
  BY <1>4, <1>5 DEF FirstAfter
<1> QED
  BY <1>6 DEF Ids, Email

-----------------------------------------------------------------------------
(***************************************************************************)
(* The steps of Next by what they change                                   *)
(***************************************************************************)
Replies == {"admitted", "parsing", "full", "tooLarge", "failed", "shuttingDown"}

\* MailFrom, Receive, ParserFails and Refuse only move the delivery on.
ReplyOnly(d) ==
  /\ delivery[d].phase \in {"idle", "admitted", "parsing"}
  /\ \E phase \in Replies : Reply(d, phase)
  /\ UNCHANGED <<tables, accepting, wait, heard, noted>>

LEMMA Steps ==
  ASSUME [Next]_vars
  PROVE  \/ \E d \in Deliveries : ReplyOnly(d) \/ StoreParsed(d)
         \/ \E gone \in SUBSET emails : RemoveRows(gone)
         \/ \E ids \in SUBSET NamedIds : \E changes \in [ids -> SUBSET Flags] :
              SetFlags(changes)
         \/ \E value \in BOOLEAN : SetInboxSubscribed(value)
         \/ \E w \in Waiters, after \in 0..(lastId + 1), filter \in Filters,
               poll \in BOOLEAN :
              RefuseWait(w, after, filter, poll) \/ BeginWait(w, after, filter, poll)
         \/ \E w \in Waiters : Timeout(w) \/ Abort(w)
         \/ StopAccepting
         \/ UNCHANGED vars
<1>1. ASSUME NEW d \in Deliveries, Deliver(d) PROVE ReplyOnly(d) \/ StoreParsed(d)
  BY <1>1 DEF Deliver, MailFrom, Receive, ParserFails, Refuse, ReplyOnly, Replies
<1>2. CASE Edit
  <2>1. ASSUME NEW ids, DeleteMany(ids)
        PROVE  \E gone \in SUBSET emails : RemoveRows(gone)
    BY <2>1 DEF DeleteMany
  <2>2. ASSUME NEW expected, Clear(expected) PROVE RemoveRows(emails)
    BY <2>2 DEF Clear
  <2> QED
    BY <1>2, <2>1, <2>2 DEF Edit
<1>3. ASSUME NEW w \in Waiters, Await(w)
      PROVE  \/ Timeout(w) \/ Abort(w)
             \/ \E after \in 0..(lastId + 1), filter \in Filters, poll \in BOOLEAN :
                  RefuseWait(w, after, filter, poll) \/ BeginWait(w, after, filter, poll)
  BY <1>3 DEF Await
<1> QED
  BY <1>1, <1>2, <1>3 DEF Next

-----------------------------------------------------------------------------
(***************************************************************************)
(* Type correctness                                                        *)
(***************************************************************************)
LEMMA InitType == Init => TypeOK
<1> SUFFICES ASSUME NEW s \in OpenedStores, s \in Store, s.uidNext \in 1..MaxImapNumber,
                    emails = s.emails, lastId = s.lastId, uidNext = s.uidNext,
                    subscribed = s.subscribed, accepting = TRUE,
                    delivery = [d \in Deliveries |-> [phase |-> "idle", id |-> 0, uid |-> 0]],
                    wait = [w \in Waiters |-> NoWait],
                    heard = Heard(s.emails), noted = s
             PROVE  TypeOK
  BY OpenedStoresAssumption DEF Init
<1>1. emails \in SUBSET Email /\ lastId \in Nat /\ subscribed \in BOOLEAN
  BY DEF Store
<1>2. heard \subseteq [id: Nat, flags: SUBSET Flags]
  BY DEF Store, Heard, Email
<1> QED
  BY <1>1, <1>2 DEF TypeOK, NoWait, WaitState, DeliveryState

LEMMA AnsweredType ==
  ASSUME TypeOK, NEW w \in Waiters, NEW rows \in SUBSET Email, NEW last \in Nat,
         MatchesAfter(rows, wait[w].afterId, wait[w].filter) # {}
  PROVE  Answered(w, rows, last) \in WaitState
<1>1. wait[w] \in WaitState
  BY DEF TypeOK
<1>2. FirstAfter(rows, wait[w].afterId, wait[w].filter) \in Nat
  BY FirstAfterIsFirst
<1> QED
  BY <1>1, <1>2 DEF Answered, WaitState

LEMMA SettleType ==
  ASSUME TypeOK, NEW w \in Waiters, NEW record \in WaitState, Settle(w, record)
  PROVE  TypeOK'
BY DEF TypeOK, Settle, tables

LEMMA TypeStep == TypeOK /\ [Next]_vars => TypeOK'
<1> SUFFICES ASSUME TypeOK, [Next]_vars PROVE TypeOK'
  OBVIOUS
<1> USE DEF TypeOK, tables
<1>1. ASSUME NEW d \in Deliveries, ReplyOnly(d) PROVE TypeOK'
  BY <1>1 DEF ReplyOnly, Reply, Replies, DeliveryState
<1>2. ASSUME NEW d \in Deliveries, StoreParsed(d) PROVE TypeOK'
  <2> DEFINE row == [id |-> NextId, uid |-> uidNext, kind |-> Kind[d], flags |-> {}]
  <2>1. uidNext < MaxImapNumber /\ MaxImapNumber \in Nat
    BY <1>2, LimitsAssumption DEF StoreParsed, RoomFor
  <2>2. row \in Email
    BY SizesAssumption DEF Email, NextId
  <2>3. /\ emails' = emails \cup {row} /\ lastId' = lastId + 1
        /\ uidNext' = uidNext + 1 /\ subscribed' = subscribed
        /\ accepting' = accepting
        /\ delivery' = [delivery EXCEPT ![d] =
                          [phase |-> "stored", id |-> lastId + 1, uid |-> uidNext]]
        /\ wait' = WakeWaits(emails', lastId')
        /\ heard' = heard \cup Heard({row})
        /\ noted' = Contents'
    BY <1>2 DEF StoreParsed, Insert, Announce, NextId
  <2> HIDE DEF row
  <2>4. emails' \in SUBSET Email /\ lastId' \in Nat
    BY <2>2, <2>3
  <2>5. wait' \in [Waiters -> WaitState]
    <3>1. ASSUME NEW w \in Waiters,
                 MatchesAfter(emails', wait[w].afterId, wait[w].filter) # {}
          PROVE  Answered(w, emails', lastId') \in WaitState
      BY <2>4, <3>1, AnsweredType
    <3> QED
      BY <2>3, <3>1 DEF WakeWaits
  <2>6. heard' \subseteq [id: Nat, flags: SUBSET Flags]
    BY <2>2, <2>3 DEF Heard, Email
  <2>7. uidNext' \in 1..MaxImapNumber
    BY <2>1, <2>3
  <2>8. noted' \in Store
    BY <2>3, <2>4, <2>7 DEF Contents, Store
  <2>9. delivery' \in [Deliveries -> DeliveryState]
    BY <2>3 DEF DeliveryState
  <2> QED
    BY <2>3, <2>4, <2>5, <2>6, <2>7, <2>8, <2>9
<1>3. ASSUME NEW gone \in SUBSET emails, RemoveRows(gone) PROVE TypeOK'
  BY <1>3 DEF RemoveRows, Announce, Contents, Store
<1>4. ASSUME NEW ids \in SUBSET NamedIds, NEW changes \in [ids -> SUBSET Flags],
             SetFlags(changes)
      PROVE  TypeOK'
  <2>1. \A e \in emails : Flagged(e, changes) \in Email
    BY DEF Flagged, Email
  <2>2. emails' \in SUBSET Email
    BY <1>4, <2>1 DEF SetFlags
  <2>3. heard' \subseteq [id: Nat, flags: SUBSET Flags]
    BY <1>4, <2>2 DEF SetFlags, Announce, Heard, Email
  <2> QED
    BY <1>4, <2>2, <2>3 DEF SetFlags, Announce, Contents, Store
<1>5. ASSUME NEW value \in BOOLEAN, SetInboxSubscribed(value) PROVE TypeOK'
  BY <1>5 DEF SetInboxSubscribed, Announce, Contents, Store
<1>6. ASSUME NEW w \in Waiters, NEW after \in 0..(lastId + 1), NEW filter \in Filters,
             NEW poll \in BOOLEAN, RefuseWait(w, after, filter, poll)
      PROVE  TypeOK'
  <2>1. [NoWait EXCEPT !.phase = "refused"] \in WaitState
    BY DEF NoWait, WaitState
  <2> QED
    BY <1>6, <2>1, SettleType DEF RefuseWait
<1>7. ASSUME NEW w \in Waiters, NEW after \in 0..(lastId + 1), NEW filter \in Filters,
             NEW poll \in BOOLEAN, BeginWait(w, after, filter, poll)
      PROVE  TypeOK'
  <2>1. filter \in SUBSET Kinds /\ after \in Nat
    BY LimitsAssumption
  <2> DEFINE begun == Begin(w, after, filter, "pending")
  <2>2. begun \in WaitState
    BY <2>1 DEF Begin, NoWait, WaitState
  <2> HIDE DEF begun
  <2>3. CASE MatchesAfter(emails, after, filter) # {}
    <3> DEFINE answer == FirstAfter(emails, after, filter)
    <3>1. answer \in Nat
      BY <2>3, FirstAfterIsFirst
    <3>2. Settle(w, [begun EXCEPT !.phase = "matched", !.mark = lastId,
                                  !.answer = answer])
      BY <1>7, <2>3 DEF BeginWait, begun
    <3> HIDE DEF answer
    <3>3. [begun EXCEPT !.phase = "matched", !.mark = lastId, !.answer = answer]
            \in WaitState
      BY <2>2, <3>1 DEF WaitState
    <3> QED
      BY <3>2, <3>3, SettleType
  <2>4. CASE MatchesAfter(emails, after, filter) = {}
    <3>1. \/ Settle(w, [begun EXCEPT !.phase = "timedOut", !.mark = lastId])
          \/ Settle(w, begun)
      BY <1>7, <2>4 DEF BeginWait, begun
    <3>2. [begun EXCEPT !.phase = "timedOut", !.mark = lastId] \in WaitState
      BY <2>2 DEF WaitState
    <3> QED
      BY <2>2, <3>1, <3>2, SettleType
  <2> QED
    BY <2>3, <2>4
<1>8. ASSUME NEW w \in Waiters, Timeout(w) \/ Abort(w) PROVE TypeOK'
  <2>1. wait[w] \in WaitState
    OBVIOUS
  <2>2. /\ [wait[w] EXCEPT !.phase = "timedOut", !.mark = lastId] \in WaitState
        /\ [wait[w] EXCEPT !.phase = "aborted"] \in WaitState
    BY <2>1 DEF WaitState
  <2> QED
    BY <1>8, <2>2, SettleType DEF Timeout, Abort
<1>9. CASE StopAccepting
  BY <1>9 DEF StopAccepting, WaitState
<1>10. CASE UNCHANGED vars
  BY <1>10 DEF vars
<1> QED
  BY Steps, <1>1, <1>2, <1>3, <1>4, <1>5, <1>6, <1>7, <1>8, <1>9, <1>10

\* Every variable keeps its type; UIDNEXT stays within 32 bits.
THEOREM TypeCorrect == Spec => []TypeOK
BY InitType, TypeStep, PTL DEF Spec

-----------------------------------------------------------------------------
(***************************************************************************)
(* Keys                                                                    *)
(***************************************************************************)
\* The counters are above every key there is and every key handed out.
KeysIssued ==
  /\ KeysInOrder(emails, lastId, uidNext)
  /\ \A d \in Deliveries :
       Stored(d) => delivery[d].id \in 1..lastId /\ delivery[d].uid < uidNext

KeysInv == TypeOK /\ KeysIssued /\ KeysNeverReused

LEMMA InitKeys == Init => KeysInv
<1> SUFFICES ASSUME Init PROVE KeysIssued /\ KeysNeverReused
  BY InitType DEF KeysInv
<1>1. \A d \in Deliveries : ~Stored(d)
  BY DEF Init, Stored
<1>2. KeysInOrder(emails, lastId, uidNext)
  BY OpenedStoresAssumption DEF Init
<1> QED
  BY <1>1, <1>2 DEF KeysIssued, KeysNeverReused

\* Rows may go and flags may change: the keys that stay are the same.
LEMMA KeysKept ==
  ASSUME KeysInv, lastId' = lastId, uidNext' = uidNext, delivery' = delivery,
         \A e \in emails' : \E f \in emails :
           e.id = f.id /\ e.uid = f.uid /\ e.kind = f.kind,
         \A e, f \in emails' : e.id = f.id \/ e.uid = f.uid => e = f
  PROVE  KeysIssued' /\ KeysNeverReused'
BY DEF KeysInv, KeysIssued, KeysInOrder, KeysNeverReused, Stored, TypeOK

LEMMA KeysStep == KeysInv /\ [Next]_vars => KeysInv'
<1> SUFFICES ASSUME KeysInv, [Next]_vars PROVE KeysIssued' /\ KeysNeverReused'
  BY TypeStep DEF KeysInv
<1>0. TypeOK /\ KeysIssued /\ KeysNeverReused
  BY DEF KeysInv
<1>1. ASSUME NEW d \in Deliveries, ReplyOnly(d)
      PROVE  KeysIssued' /\ KeysNeverReused'
  BY <1>0, <1>1
  DEF ReplyOnly, Reply, Replies, KeysIssued, KeysInOrder, KeysNeverReused, Stored,
      TypeOK, DeliveryState, tables
<1>2. ASSUME NEW d \in Deliveries, StoreParsed(d)
      PROVE  KeysIssued' /\ KeysNeverReused'
  <2>1. PICK row \in Email :
          /\ row.id = lastId + 1 /\ row.uid = uidNext /\ row.kind = Kind[d]
          /\ emails' = emails \cup {row}
          /\ lastId' = row.id /\ uidNext' = row.uid + 1
          /\ delivery' = [delivery EXCEPT ![d] =
                            [phase |-> "stored", id |-> row.id, uid |-> row.uid]]
    <3> DEFINE row == [id |-> NextId, uid |-> uidNext, kind |-> Kind[d], flags |-> {}]
    <3>1. row \in Email
      BY <1>0, SizesAssumption DEF Email, NextId, TypeOK
    <3> QED
      BY <1>2, <3>1 DEF StoreParsed, Insert, NextId
  <2>2. lastId \in Nat /\ uidNext \in Nat /\ lastId' = lastId + 1 /\ uidNext' = uidNext + 1
    BY <1>0, <2>1 DEF TypeOK
  <2>3. /\ \A e \in emails : e \in Email /\ e.id \in 1..lastId /\ e.uid < uidNext
        /\ \A c \in Deliveries : Stored(c) =>
             delivery[c].id \in 1..lastId /\ delivery[c].uid < uidNext
        /\ \A c \in Deliveries : delivery[c].id \in Nat /\ delivery[c].uid \in Nat
    BY <1>0 DEF TypeOK, KeysIssued, KeysInOrder, DeliveryState
  <2>4. \A e \in emails : e.id # row.id /\ e.uid # row.uid
    BY <2>1, <2>2, <2>3 DEF Email
  <2>5. /\ delivery'[d] = [phase |-> "stored", id |-> row.id, uid |-> row.uid]
        /\ \A c \in Deliveries \ {d} : delivery'[c] = delivery[c]
    BY <1>0, <2>1 DEF TypeOK
  <2>6. KeysInOrder(emails', lastId', uidNext')
    <3>1. \A e \in emails' : e.id \in 1..lastId' /\ e.uid < uidNext'
      BY <2>1, <2>2, <2>3 DEF Email
    <3>2. \A e, f \in emails' : e.id = f.id \/ e.uid = f.uid => e = f
      BY <1>0, <2>1, <2>4 DEF KeysIssued, KeysInOrder
    <3> QED
      BY <3>1, <3>2 DEF KeysInOrder
  <2>7. \A c \in Deliveries : Stored(c)' =>
          delivery'[c].id \in 1..lastId' /\ delivery'[c].uid < uidNext'
    BY <2>1, <2>2, <2>3, <2>5 DEF Stored
  <2>8. KeysIssued'
    BY <2>6, <2>7 DEF KeysIssued
  <2>9. \A b, c \in Deliveries : b # c /\ Stored(b)' /\ Stored(c)' =>
          delivery'[b].id # delivery'[c].id /\ delivery'[b].uid # delivery'[c].uid
    <3> SUFFICES ASSUME NEW b \in Deliveries, NEW c \in Deliveries, b # c,
                        Stored(b)', Stored(c)'
                 PROVE  /\ delivery'[b].id # delivery'[c].id
                        /\ delivery'[b].uid # delivery'[c].uid
      OBVIOUS
    <3>1. CASE b # d /\ c # d
      BY <1>0, <2>5, <3>1 DEF KeysNeverReused, Stored
    <3>2. CASE b = d
      BY <2>1, <2>2, <2>3, <2>5, <3>2 DEF Stored
    <3>3. CASE c = d
      BY <2>1, <2>2, <2>3, <2>5, <3>3 DEF Stored
    <3> QED
      BY <3>1, <3>2, <3>3
  <2>10. \A c \in Deliveries, e \in emails' :
           Stored(c)' /\ (e.id = delivery'[c].id \/ e.uid = delivery'[c].uid) =>
             /\ e.id = delivery'[c].id /\ e.uid = delivery'[c].uid
             /\ e.kind = Kind[c]
    <3> SUFFICES ASSUME NEW c \in Deliveries, NEW e \in emails', Stored(c)',
                        e.id = delivery'[c].id \/ e.uid = delivery'[c].uid
                 PROVE  /\ e.id = delivery'[c].id /\ e.uid = delivery'[c].uid
                        /\ e.kind = Kind[c]
      OBVIOUS
    <3>1. CASE c = d
      BY <2>1, <2>4, <2>5, <3>1
    <3>2. CASE c # d /\ e \in emails
      BY <1>0, <2>5, <3>2 DEF KeysNeverReused, Stored
    <3>3. CASE c # d /\ e = row
      BY <2>1, <2>2, <2>3, <2>5, <3>3 DEF Stored
    <3> QED
      BY <2>1, <3>1, <3>2, <3>3
  <2> QED
    BY <2>8, <2>9, <2>10 DEF KeysNeverReused, Stored
<1>3. ASSUME NEW gone \in SUBSET emails, RemoveRows(gone)
      PROVE  KeysIssued' /\ KeysNeverReused'
  <2>1. /\ lastId' = lastId /\ uidNext' = uidNext /\ delivery' = delivery
        /\ emails' \subseteq emails
    BY <1>3 DEF RemoveRows
  <2>2. \A e, f \in emails' : e.id = f.id \/ e.uid = f.uid => e = f
    BY <1>0, <2>1 DEF KeysIssued, KeysInOrder
  <2> QED
    BY <2>1, <2>2, KeysKept
<1>4. ASSUME NEW ids \in SUBSET NamedIds, NEW changes \in [ids -> SUBSET Flags],
             SetFlags(changes)
      PROVE  KeysIssued' /\ KeysNeverReused'
  <2>1. /\ lastId' = lastId /\ uidNext' = uidNext /\ delivery' = delivery
        /\ emails' = {Flagged(e, changes) : e \in emails}
    BY <1>4 DEF SetFlags
  <2>2. \A e \in emails : /\ Flagged(e, changes).id = e.id
                          /\ Flagged(e, changes).uid = e.uid
                          /\ Flagged(e, changes).kind = e.kind
    BY <1>0 DEF Flagged, TypeOK, Email
  <2>3. \A e, f \in emails' : e.id = f.id \/ e.uid = f.uid => e = f
    BY <1>0, <2>1, <2>2 DEF KeysIssued, KeysInOrder
  <2> QED
    BY <2>1, <2>2, <2>3, KeysKept
<1>5. ASSUME NEW value \in BOOLEAN, SetInboxSubscribed(value)
      PROVE  KeysIssued' /\ KeysNeverReused'
  BY <1>0, <1>5 DEF SetInboxSubscribed, KeysIssued, KeysNeverReused, Stored
<1>6. ASSUME UNCHANGED <<tables, delivery>> PROVE KeysIssued' /\ KeysNeverReused'
  BY <1>0, <1>6 DEF tables, KeysIssued, KeysNeverReused, Stored
<1>7. ASSUME NEW w \in Waiters, NEW after, NEW filter, NEW poll,
             RefuseWait(w, after, filter, poll) \/ BeginWait(w, after, filter, poll)
      PROVE  UNCHANGED <<tables, delivery>>
  BY <1>7 DEF RefuseWait, BeginWait, Settle
<1>8. ASSUME NEW w \in Waiters, Timeout(w) \/ Abort(w)
      PROVE  UNCHANGED <<tables, delivery>>
  BY <1>8 DEF Timeout, Abort, Settle
<1>9. StopAccepting \/ UNCHANGED vars => UNCHANGED <<tables, delivery>>
  BY DEF StopAccepting, vars
<1> QED
  BY Steps, <1>1, <1>2, <1>3, <1>4, <1>5, <1>6, <1>7, <1>8, <1>9

\* No id and no UID is ever given to a second message.
THEOREM KeysAreForEver == Spec => []KeysNeverReused
<1>1. KeysInv => KeysNeverReused
  BY DEF KeysInv
<1> QED
  BY InitKeys, KeysStep, <1>1, PTL DEF Spec

-----------------------------------------------------------------------------
(***************************************************************************)
(* Announcements                                                           *)
(***************************************************************************)
LEMMA InitAnnounced == Init => CommitsAreAnnounced
<1> SUFFICES ASSUME NEW s \in OpenedStores, s \in Store,
                    emails = s.emails, lastId = s.lastId, uidNext = s.uidNext,
                    subscribed = s.subscribed, heard = Heard(s.emails), noted = s
             PROVE  CommitsAreAnnounced
  BY OpenedStoresAssumption DEF Init
<1>1. noted = Contents
  BY DEF Store, Contents
<1> QED
  BY <1>1 DEF CommitsAreAnnounced

LEMMA AnnounceStep == KeysInv /\ CommitsAreAnnounced /\ [Next]_vars => CommitsAreAnnounced'
<1> SUFFICES ASSUME KeysInv, CommitsAreAnnounced, [Next]_vars PROVE CommitsAreAnnounced'
  OBVIOUS
<1>0. /\ emails \in SUBSET Email /\ heard = Heard(emails)
      /\ \A e, f \in emails : e.id = f.id => e = f
  BY DEF KeysInv, KeysIssued, KeysInOrder, TypeOK, CommitsAreAnnounced
<1>1. ASSUME UNCHANGED <<tables, heard, noted>> PROVE CommitsAreAnnounced'
  BY <1>1 DEF tables, CommitsAreAnnounced, Contents
<1>2. ASSUME NEW d \in Deliveries, StoreParsed(d) PROVE CommitsAreAnnounced'
  BY <1>0, <1>2 DEF StoreParsed, Insert, Announce, CommitsAreAnnounced, Heard
<1>3. ASSUME NEW gone \in SUBSET emails, RemoveRows(gone) PROVE CommitsAreAnnounced'
  <2>1. emails' = emails \ gone /\ noted' = Contents'
        /\ heard' = {h \in heard : h.id \notin Ids(gone)}
    BY <1>3 DEF RemoveRows, Announce
  <2>2. \A e \in emails : e.id \in Ids(gone) <=> e \in gone
    BY <1>0 DEF Ids
  <2>3. heard' = Heard(emails')
    BY <1>0, <2>1, <2>2 DEF Heard
  <2> QED
    BY <2>1, <2>3 DEF CommitsAreAnnounced
<1>4. ASSUME NEW ids \in SUBSET NamedIds, NEW changes \in [ids -> SUBSET Flags],
             SetFlags(changes)
      PROVE  CommitsAreAnnounced'
  <2>1. /\ emails' = {Flagged(e, changes) : e \in emails}
        /\ noted' = Contents'
        /\ heard' = {h \in heard : h.id \notin ids} \cup
                    Heard({e \in emails' : e.id \in ids})
    BY <1>4 DEF SetFlags, Announce
  <2>2. \A e \in emails : /\ Flagged(e, changes).id = e.id
                          /\ e.id \notin ids => Flagged(e, changes) = e
    BY <1>0 DEF Flagged, Email
  <2>3. {h \in heard : h.id \notin ids} = Heard({e \in emails' : e.id \notin ids})
    BY <1>0, <2>1, <2>2 DEF Heard
  <2>4. heard' = Heard(emails')
    BY <2>1, <2>3 DEF Heard
  <2> QED
    BY <2>1, <2>4 DEF CommitsAreAnnounced
<1>5. ASSUME NEW value \in BOOLEAN, SetInboxSubscribed(value) PROVE CommitsAreAnnounced'
  BY <1>0, <1>5 DEF SetInboxSubscribed, Announce, CommitsAreAnnounced
<1>6. ASSUME NEW d \in Deliveries, ReplyOnly(d) PROVE UNCHANGED <<tables, heard, noted>>
  BY <1>6 DEF ReplyOnly
<1>7. ASSUME NEW w \in Waiters, NEW after, NEW filter, NEW poll,
             RefuseWait(w, after, filter, poll) \/ BeginWait(w, after, filter, poll)
      PROVE  UNCHANGED <<tables, heard, noted>>
  BY <1>7 DEF RefuseWait, BeginWait, Settle
<1>8. ASSUME NEW w \in Waiters, Timeout(w) \/ Abort(w)
      PROVE  UNCHANGED <<tables, heard, noted>>
  BY <1>8 DEF Timeout, Abort, Settle
<1>9. StopAccepting \/ UNCHANGED vars => UNCHANGED <<tables, heard, noted>>
  BY DEF StopAccepting, vars
<1> QED
  BY Steps, <1>1, <1>2, <1>3, <1>4, <1>5, <1>6, <1>7, <1>8, <1>9

\* No change of the tables is silent, to the listeners or to the store.
THEOREM NoSilentCommit == Spec => []CommitsAreAnnounced
BY InitKeys, KeysStep, InitAnnounced, AnnounceStep, PTL DEF Spec

-----------------------------------------------------------------------------
(***************************************************************************)
(* Shutdown                                                                *)
(***************************************************************************)
\* Only a delivery adds a message.
LEMMA OnlyDeliveriesAdd ==
  ASSUME TypeOK, [Next]_vars, \A d \in Deliveries : ~StoreParsed(d)
  PROVE  Ids(emails') \subseteq Ids(emails)
<1>1. ASSUME NEW gone \in SUBSET emails, RemoveRows(gone)
      PROVE  Ids(emails') \subseteq Ids(emails)
  BY <1>1 DEF RemoveRows, Ids
<1>2. ASSUME NEW ids \in SUBSET NamedIds, NEW changes \in [ids -> SUBSET Flags],
             SetFlags(changes)
      PROVE  Ids(emails') \subseteq Ids(emails)
  <2>1. emails' = {Flagged(e, changes) : e \in emails}
    BY <1>2 DEF SetFlags
  <2>2. \A e \in emails : Flagged(e, changes).id = e.id
    BY DEF Flagged, TypeOK, Email
  <2> QED
    BY <2>1, <2>2 DEF Ids
<1>3. ASSUME emails' = emails PROVE Ids(emails') \subseteq Ids(emails)
  BY <1>3
<1>4. ASSUME NEW d \in Deliveries, ReplyOnly(d) PROVE emails' = emails
  BY <1>4 DEF ReplyOnly, tables
<1>5. ASSUME NEW value \in BOOLEAN, SetInboxSubscribed(value) PROVE emails' = emails
  BY <1>5 DEF SetInboxSubscribed
<1>6. ASSUME NEW w \in Waiters, NEW after, NEW filter, NEW poll,
             RefuseWait(w, after, filter, poll) \/ BeginWait(w, after, filter, poll)
      PROVE  emails' = emails
  BY <1>6 DEF RefuseWait, BeginWait, Settle, tables
<1>7. ASSUME NEW w \in Waiters, Timeout(w) \/ Abort(w) PROVE emails' = emails
  BY <1>7 DEF Timeout, Abort, Settle, tables
<1>8. StopAccepting \/ UNCHANGED vars => emails' = emails
  BY DEF StopAccepting, vars, tables
<1> QED
  BY Steps, <1>1, <1>2, <1>3, <1>4, <1>5, <1>6, <1>7, <1>8

\* A mailbox that has stopped accepting takes no message any more.
THEOREM StoppedMeansStopped == Spec => NothingStoredAfterStop
<1>1. ASSUME TypeOK, [Next]_vars, ~accepting PROVE Ids(emails') \subseteq Ids(emails)
  <2>1. ASSUME NEW d \in Deliveries, StoreParsed(d) PROVE FALSE
    BY <1>1, <2>1 DEF StoreParsed
  <2> QED
    BY <1>1, <2>1, OnlyDeliveriesAdd
<1>2. TypeOK /\ [Next]_vars =>
        [~accepting => Ids(emails') \subseteq Ids(emails)]_vars
  BY <1>1
<1> QED
  BY TypeCorrect, <1>2, PTL DEF Spec, NothingStoredAfterStop

-----------------------------------------------------------------------------
(***************************************************************************)
(* The sum of the sizes of rows, which the module writes as a fold.  Its   *)
(* value is the number of octets of the rows, each counted apart, so it    *)
(* does not depend on the order of the fold and grows by the new row.      *)
(***************************************************************************)
Total(rows) == MapThenSumSet(LAMBDA e : StoredSize[e.kind], rows)
OctetsOf(e) == {e} \X (1..StoredSize[e.kind])
Octets(rows) == UNION {OctetsOf(e) : e \in rows}

LEMMA OctetsOfRow ==
  ASSUME NEW e \in Email
  PROVE  /\ StoredSize[e.kind] \in Nat /\ IsFiniteSet(OctetsOf(e))
         /\ Cardinality(OctetsOf(e)) = StoredSize[e.kind]
<1>1. StoredSize[e.kind] \in Nat
  BY SizesAssumption DEF Email
<1>2. ASSUME NEW n \in Nat PROVE IsFiniteSet(1..n) /\ Cardinality(1..n) = n
  BY FS_Interval
<1>3. IsFiniteSet({e}) /\ Cardinality({e}) = 1
  BY FS_Singleton
<1>4. ASSUME NEW n \in Nat
      PROVE  IsFiniteSet({e} \X (1..n)) /\ Cardinality({e} \X (1..n)) = n
  <2>1. /\ IsFiniteSet({e} \X (1..n))
        /\ Cardinality({e} \X (1..n)) = Cardinality({e}) * Cardinality(1..n)
    BY <1>2, <1>3, FS_Product
  <2>2. 1 * n = n
    OBVIOUS
  <2> QED
    BY <1>2, <1>3, <2>1, <2>2
<1> QED
  BY <1>1, <1>4 DEF OctetsOf

LEMMA OctetsFinite ==
  ASSUME NEW rows \in SUBSET Email, IsFiniteSet(rows)
  PROVE  IsFiniteSet(Octets(rows))
<1> DEFINE parts == {OctetsOf(e) : e \in rows}
           part == [e \in rows |-> OctetsOf(e)]
<1>1. part \in Surjection(rows, parts)
  BY DEF Surjection
<1>2. IsFiniteSet(parts)
  BY <1>1, FS_Surjection
<1>3. \A p \in parts : IsFiniteSet(p)
  BY OctetsOfRow
<1> QED
  BY <1>2, <1>3, FS_UNION DEF Octets

LEMMA OctetsAdd ==
  ASSUME NEW rows \in SUBSET Email, IsFiniteSet(rows),
         NEW e \in Email, e \notin rows
  PROVE  /\ Cardinality(Octets(rows)) \in Nat
         /\ Cardinality(Octets(rows \cup {e})) =
              Cardinality(Octets(rows)) + StoredSize[e.kind]
<1>1. Octets(rows \cup {e}) = Octets(rows) \cup OctetsOf(e)
  BY DEF Octets
<1>2. Octets(rows) \cap OctetsOf(e) = {}
  BY DEF Octets, OctetsOf
<1>3. IsFiniteSet(Octets(rows)) /\ IsFiniteSet(OctetsOf(e))
  BY OctetsFinite, OctetsOfRow
<1>4. Cardinality(Octets(rows)) \in Nat /\ Cardinality(OctetsOf(e)) \in Nat
  BY <1>3, FS_CardinalityType
<1>5. Cardinality(Octets(rows) \cup OctetsOf(e)) =
        Cardinality(Octets(rows)) + Cardinality(OctetsOf(e)) - Cardinality({})
  BY <1>2, <1>3, FS_Union
<1>6. Cardinality({}) = 0 /\ Cardinality(OctetsOf(e)) = StoredSize[e.kind]
  BY FS_EmptySet, OctetsOfRow
<1>7. ASSUME NEW m \in Nat, NEW n \in Nat, NEW both, both = m + n - 0
      PROVE  both = m + n
  BY <1>7
<1>8. Cardinality(Octets(rows) \cup OctetsOf(e)) =
        Cardinality(Octets(rows)) + StoredSize[e.kind]
  BY <1>4, <1>5, <1>6, <1>7
<1> QED
  BY <1>1, <1>4, <1>8

\* The function the fold computes the sum with.
Chosen(s) == CHOOSE x \in s : TRUE
Summing(sum, rows) ==
  sum = [s \in SUBSET rows |->
           IF s = {} THEN 0
           ELSE StoredSize[Chosen(s).kind] + sum[s \ {Chosen(s)}]]

LEMMA TotalIs ==
  ASSUME NEW rows
  PROVE  Total(rows) = (CHOOSE sum : Summing(sum, rows))[rows]
BY DEF Total, MapThenSumSet, MapThenFoldSet, Summing, Chosen

LEMMA OctetsChosen ==
  ASSUME NEW rows \in SUBSET Email, IsFiniteSet(rows),
         NEW s \in SUBSET rows, s # {}
  PROVE  /\ Chosen(s) \in s /\ IsFiniteSet(s)
         /\ Cardinality(Octets(s)) =
              StoredSize[Chosen(s).kind] + Cardinality(Octets(s \ {Chosen(s)}))
<1>1. Chosen(s) \in s
  BY DEF Chosen
<1>2. IsFiniteSet(s) /\ IsFiniteSet(s \ {Chosen(s)})
  BY FS_Subset, FS_RemoveElement
<1>3. s = (s \ {Chosen(s)}) \cup {Chosen(s)}
  BY <1>1
<1>4. StoredSize[Chosen(s).kind] \in Nat
  BY <1>1, OctetsOfRow
<1> HIDE DEF Chosen
<1>5. /\ Cardinality(Octets(s \ {Chosen(s)})) \in Nat
      /\ Cardinality(Octets(s)) =
           Cardinality(Octets(s \ {Chosen(s)})) + StoredSize[Chosen(s).kind]
  BY <1>1, <1>2, <1>3, OctetsAdd
<1> QED
  BY <1>1, <1>2, <1>4, <1>5

LEMMA SummingExists ==
  ASSUME NEW rows \in SUBSET Email, IsFiniteSet(rows)
  PROVE  \E sum : Summing(sum, rows)
<1> DEFINE sum == [s \in SUBSET rows |-> Cardinality(Octets(s))]
<1>1. Octets({}) = {}
  BY DEF Octets
<1>2. ASSUME NEW s \in SUBSET rows
      PROVE  sum[s] = IF s = {} THEN 0
                      ELSE StoredSize[Chosen(s).kind] + sum[s \ {Chosen(s)}]
  <2>1. CASE s = {}
    BY <1>1, <2>1, FS_EmptySet
  <2>2. CASE s # {}
    BY <2>2, OctetsChosen
  <2> QED
    BY <2>1, <2>2
<1>3. Summing(sum, rows)
  <2> DEFINE F(s) == IF s = {} THEN 0
                     ELSE StoredSize[Chosen(s).kind] + sum[s \ {Chosen(s)}]
  <2>1. \A s \in SUBSET rows : sum[s] = F(s)
    BY <1>2
  <2>2. sum = [s \in SUBSET rows |-> sum[s]]
    OBVIOUS
  <2> HIDE DEF sum, F
  <2>3. sum = [s \in SUBSET rows |-> F(s)]
    BY <2>1, <2>2
  <2> QED
    BY <2>3 DEF Summing, F
<1> QED
  BY <1>3

LEMMA SummingCounts ==
  ASSUME NEW rows \in SUBSET Email, IsFiniteSet(rows), NEW sum, Summing(sum, rows)
  PROVE  sum[rows] = Cardinality(Octets(rows))
<1> DEFINE Wrong == {s \in SUBSET rows : sum[s] # Cardinality(Octets(s))}
<1>1. \A s \in SUBSET rows : IsFiniteSet(s) /\ Cardinality(s) \in Nat
  BY FS_Subset, FS_CardinalityType
<1>2. SUFFICES ASSUME Wrong # {} PROVE FALSE
  OBVIOUS
<1>3. PICK s \in Wrong : \A t \in Wrong : Cardinality(s) <= Cardinality(t)
  <2> DEFINE Sizes == {Cardinality(s) : s \in Wrong}
  <2>1. Sizes \in SUBSET Nat /\ Sizes # {}
    BY <1>1, <1>2
  <2>2. PICK n \in Sizes : \A m \in Sizes : n <= m
    BY <2>1, LeastId
  <2> QED
    BY <2>2
<1>4. sum[s] = IF s = {} THEN 0
               ELSE StoredSize[Chosen(s).kind] + sum[s \ {Chosen(s)}]
  BY DEF Summing
<1>5. s # {}
  <2>1. Octets({}) = {}
    BY DEF Octets
  <2> QED
    BY <1>4, <2>1, FS_EmptySet
<1>6. Chosen(s) \in s
  BY <1>5, OctetsChosen
<1>7. Cardinality(s \ {Chosen(s)}) < Cardinality(s)
  BY <1>1, <1>6, FS_RemoveElement
<1>8. s \ {Chosen(s)} \notin Wrong
  <2>1. Cardinality(s \ {Chosen(s)}) \in Nat /\ Cardinality(s) \in Nat
    BY <1>1
  <2> QED
    BY <1>3, <1>7, <2>1
<1>9. sum[s] = Cardinality(Octets(s))
  BY <1>4, <1>5, <1>8, OctetsChosen
<1> QED
  BY <1>9

\* A new row adds its size to the sum of the sizes.
LEMMA TotalGrows ==
  ASSUME NEW rows \in SUBSET Email, IsFiniteSet(rows),
         NEW e \in Email, e \notin rows
  PROVE  Total(rows \cup {e}) = Total(rows) + StoredSize[e.kind]
<1>1. ASSUME NEW all \in SUBSET Email, IsFiniteSet(all)
      PROVE  Total(all) = Cardinality(Octets(all))
  <2> DEFINE sum == CHOOSE sum : Summing(sum, all)
  <2>1. Summing(sum, all)
    BY <1>1, SummingExists
  <2> HIDE DEF sum
  <2>2. sum[all] = Cardinality(Octets(all))
    BY <1>1, <2>1, SummingCounts
  <2> QED
    BY <2>2, TotalIs DEF sum
<1>2. IsFiniteSet(rows \cup {e})
  BY FS_AddElement
<1> QED
  BY <1>1, <1>2, OctetsAdd

\* The rows have different ids up to the last one.
LEMMA FiniteMailbox ==
  ASSUME KeysInv
  PROVE  IsFiniteSet(emails) /\ emails \in SUBSET Email
<1> DEFINE number == [e \in emails |-> e.id]
<1>1. emails \in SUBSET Email /\ lastId \in Nat
  BY DEF KeysInv, TypeOK
<1>2. number \in Injection(emails, 1..lastId)
  BY DEF KeysInv, KeysIssued, KeysInOrder, Injection, IsInjective
<1>3. IsFiniteSet(1..lastId)
  BY <1>1, FS_Interval
<1> QED
  BY <1>1, <1>2, <1>3, FS_Injection

\* CapacityRespected: whatever MAIL FROM has admitted, a delivery that adds a
\* message leaves no more messages and octets than the limits allow.
THEOREM LimitsHold == Spec => CapacityRespected
<1> DEFINE Within == Cardinality(emails') <= MaxMessages /\ StoredBytes' <= MaxStorageBytes
<1>1. ASSUME KeysInv, NEW d \in Deliveries, StoreParsed(d) PROVE Within
  <2> DEFINE row == [id |-> NextId, uid |-> uidNext, kind |-> Kind[d], flags |-> {}]
  <2>1. IsFiniteSet(emails) /\ emails \in SUBSET Email
    BY <1>1, FiniteMailbox
  <2>2. row \in Email
    BY <1>1, SizesAssumption DEF Email, NextId, KeysInv, TypeOK
  <2>3. row \notin emails
    BY <1>1, <2>1 DEF KeysInv, KeysIssued, KeysInOrder, TypeOK, NextId
  <2>4. emails' = emails \cup {row} /\ RoomFor(StoredSize[Kind[d]])
    BY <1>1 DEF StoreParsed, Insert
  <2>5. row.kind = Kind[d]
    OBVIOUS
  <2> HIDE DEF row
  <2>6. Cardinality(emails') = Cardinality(emails) + 1
    BY <2>1, <2>3, <2>4, FS_AddElement
  <2>7. StoredBytes = Total(emails) /\ StoredBytes' = Total(emails')
    BY DEF StoredBytes, Total, MapThenSumSet, MapThenFoldSet
  <2>8. StoredBytes' = StoredBytes + StoredSize[Kind[d]]
    BY <2>1, <2>2, <2>3, <2>4, <2>5, <2>7, TotalGrows
  <2> QED
    BY <2>4, <2>6, <2>8 DEF RoomFor
<1>2. ASSUME KeysInv, [Next]_vars PROVE Ids(emails') \subseteq Ids(emails) \/ Within
  BY <1>1, <1>2, OnlyDeliveriesAdd DEF KeysInv
<1>3. KeysInv /\ [Next]_vars => [Ids(emails') \subseteq Ids(emails) \/ Within]_vars
  BY <1>2
<1>4. Spec => []KeysInv
  BY InitKeys, KeysStep, PTL DEF Spec
<1> QED
  BY <1>3, <1>4, PTL DEF Spec, CapacityRespected

-----------------------------------------------------------------------------
(***************************************************************************)
(* Waits                                                                   *)
(***************************************************************************)
\* What a wait remembers is not ahead of the mailbox, and a pending one has
\* no match: it looked when it began, and every arrival looked for it since.
WaitsBehind ==
  \A w \in Waiters :
    /\ wait[w].since <= lastId /\ wait[w].mark <= lastId /\ wait[w].answer <= lastId
    /\ wait[w].phase = "pending" =>
         /\ wait[w].afterId <= wait[w].since
         /\ MatchesAfter(emails, wait[w].afterId, wait[w].filter) = {}

\* No wait outlives stopAccepting(): each is rejected and none starts again,
\* so closing the listeners never waits for one.
StoppedIsDrained == ~accepting => Pending = {}

WaitInv == KeysInv /\ WaitsBehind /\ NoArrivalMissed /\ StoppedIsDrained

LEMMA InitWaits == Init => WaitInv
<1> SUFFICES ASSUME Init PROVE WaitsBehind /\ NoArrivalMissed /\ StoppedIsDrained
  BY InitKeys DEF WaitInv
<1>1. lastId \in Nat
  BY InitType DEF TypeOK
<1>2. accepting /\ \A w \in Waiters : wait[w] = NoWait
  BY DEF Init
<1>3. \A d \in Deliveries : ~Stored(d)
  BY DEF Init, Stored
<1> QED
  BY <1>1, <1>2, <1>3 DEF WaitsBehind, NoArrivalMissed, StoppedIsDrained, NoWait

\* A step that leaves deliveries, counters and waits alone and adds no match.
LEMMA WaitsKept ==
  ASSUME WaitInv, UNCHANGED <<lastId, delivery, wait, accepting>>,
         \A e \in emails' : \E f \in emails : e.id = f.id /\ e.kind = f.kind
  PROVE  (WaitsBehind /\ NoArrivalMissed /\ StoppedIsDrained)'
<1>1. WaitsBehind /\ NoArrivalMissed /\ StoppedIsDrained
  BY DEF WaitInv
<1>2. \A w \in Waiters :
        MatchesAfter(emails, wait[w].afterId, wait[w].filter) = {} =>
        MatchesAfter(emails', wait[w].afterId, wait[w].filter) = {}
  BY DEF MatchesAfter
<1>3. WaitsBehind'
  BY <1>1, <1>2 DEF WaitsBehind
<1> QED
  BY <1>1, <1>3 DEF NoArrivalMissed, StoppedIsDrained, Pending, Stored

\* A step of one wait, to a record that keeps the promises by itself.
LEMMA WaitMoved ==
  ASSUME WaitInv, NEW w \in Waiters, NEW record \in WaitState, Settle(w, record),
         record.since <= lastId, record.mark <= lastId, record.answer <= lastId,
         record.phase = "pending" =>
           /\ accepting
           /\ record.afterId <= record.since
           /\ MatchesAfter(emails, record.afterId, record.filter) = {},
         \A d \in Deliveries :
           Stored(d) /\ delivery[d].id > record.since /\ Kind[d] \in record.filter =>
             /\ record.phase # "pending"
             /\ record.phase = "timedOut" => delivery[d].id > record.mark
             /\ record.phase = "matched" => delivery[d].id >= record.answer
  PROVE  (WaitsBehind /\ NoArrivalMissed /\ StoppedIsDrained)'
<1>1. WaitsBehind /\ NoArrivalMissed /\ StoppedIsDrained /\ wait \in [Waiters -> WaitState]
  BY DEF WaitInv, KeysInv, TypeOK
<1>2. UNCHANGED <<emails, lastId, accepting, delivery>>
  BY DEF Settle, tables
<1>3. wait'[w] = record /\ \A v \in Waiters \ {w} : wait'[v] = wait[v]
  BY <1>1 DEF Settle
<1>4. WaitsBehind'
  BY <1>1, <1>2, <1>3 DEF WaitsBehind
<1>5. NoArrivalMissed'
  BY <1>1, <1>2, <1>3 DEF NoArrivalMissed, Stored
<1>6. StoppedIsDrained'
  BY <1>1, <1>2, <1>3 DEF StoppedIsDrained, Pending
<1> QED
  BY <1>4, <1>5, <1>6

LEMMA WaitsStep == WaitInv /\ [Next]_vars => WaitInv'
<1> DEFINE Goal == (WaitsBehind /\ NoArrivalMissed /\ StoppedIsDrained)'
<1> SUFFICES ASSUME WaitInv, [Next]_vars PROVE Goal
  BY KeysStep DEF WaitInv
<1>0. TypeOK /\ KeysIssued /\ WaitsBehind /\ NoArrivalMissed /\ StoppedIsDrained
  BY DEF WaitInv, KeysInv
<1>a. /\ wait \in [Waiters -> WaitState] /\ lastId \in Nat
      /\ emails \in SUBSET Email
      /\ \A d \in Deliveries : delivery[d].id \in Nat
      /\ \A d \in Deliveries : Stored(d) => delivery[d].id <= lastId
  BY <1>0 DEF TypeOK, KeysIssued, DeliveryState
<1>1. ASSUME NEW d \in Deliveries, ReplyOnly(d) PROVE Goal
  <2>1. \A c \in Deliveries : Stored(c)' => Stored(c) /\ delivery'[c] = delivery[c]
    BY <1>0, <1>1 DEF ReplyOnly, Reply, Replies, Stored, TypeOK, DeliveryState
  <2>2. UNCHANGED <<emails, lastId, accepting, wait>>
    BY <1>1 DEF ReplyOnly, tables
  <2>3. NoArrivalMissed'
    BY <1>0, <2>1, <2>2 DEF NoArrivalMissed
  <2> QED
    BY <1>0, <2>2, <2>3 DEF WaitsBehind, StoppedIsDrained, Pending
<1>2. ASSUME NEW d \in Deliveries, StoreParsed(d) PROVE Goal
  <2>1. PICK row \in Email :
          /\ row.id = lastId + 1 /\ row.kind = Kind[d]
          /\ emails' = emails \cup {row} /\ lastId' = row.id
          /\ delivery' = [delivery EXCEPT ![d] =
                            [phase |-> "stored", id |-> row.id, uid |-> row.uid]]
    <3> DEFINE row == [id |-> NextId, uid |-> uidNext, kind |-> Kind[d], flags |-> {}]
    <3>1. row \in Email
      BY <1>0, SizesAssumption DEF Email, NextId, TypeOK
    <3> QED
      BY <1>2, <3>1 DEF StoreParsed, Insert, NextId
  <2>2. wait' = WakeWaits(emails', lastId') /\ accepting' = accepting /\ accepting
    BY <1>2 DEF StoreParsed, Insert
  <2>3. lastId' = lastId + 1 /\ emails' \in SUBSET Email
    BY <1>a, <2>1
  <2>4. /\ delivery'[d].id = row.id /\ Stored(d)'
        /\ \A c \in Deliveries \ {d} : delivery'[c] = delivery[c]
    BY <1>0, <2>1 DEF TypeOK, Stored
  <2>5. ASSUME NEW w \in Waiters
        PROVE  /\ wait'[w].since <= lastId' /\ wait'[w].mark <= lastId'
               /\ wait'[w].answer <= lastId'
               /\ wait'[w].phase = "pending" =>
                    /\ wait'[w].afterId <= wait'[w].since
                    /\ MatchesAfter(emails', wait'[w].afterId, wait'[w].filter) = {}
               /\ \A c \in Deliveries :
                    Stored(c)' /\ delivery'[c].id > wait'[w].since
                      /\ Kind[c] \in wait'[w].filter =>
                        /\ wait'[w].phase # "pending"
                        /\ wait'[w].phase = "timedOut" => delivery'[c].id > wait'[w].mark
                        /\ wait'[w].phase = "matched" => delivery'[c].id >= wait'[w].answer
    <3> DEFINE M == MatchesAfter(emails', wait[w].afterId, wait[w].filter)
    <3>1. wait[w] \in WaitState
      BY <1>a
    <3>2. /\ wait[w].since <= lastId /\ wait[w].mark <= lastId /\ wait[w].answer <= lastId
          /\ {wait[w].since, wait[w].mark, wait[w].answer, wait[w].afterId} \subseteq Nat
      BY <1>0, <3>1 DEF WaitsBehind, WaitState
    <3>3. ASSUME NEW c \in Deliveries \ {d}, Stored(c)'
          PROVE  Stored(c) /\ delivery'[c] = delivery[c]
      BY <2>4, <3>3 DEF Stored
    <3>4. CASE wait[w].phase = "pending" /\ M # {}
      <4>1. wait'[w] = Answered(w, emails', lastId')
        BY <2>2, <3>4 DEF WakeWaits
      <4>2. /\ wait'[w].phase = "matched" /\ wait'[w].mark = lastId'
            /\ wait'[w].since = wait[w].since /\ wait'[w].filter = wait[w].filter
            /\ wait'[w].answer = FirstAfter(emails', wait[w].afterId, wait[w].filter)
        BY <3>1, <4>1 DEF Answered, WaitState
      <4>3. M \subseteq {row}
        BY <1>0, <2>1, <3>4 DEF WaitsBehind, MatchesAfter
      <4>4. IsFirstAfter(wait'[w].answer, emails', wait[w].afterId, wait[w].filter)
        BY <2>3, <3>4, <4>2, FirstAfterIsFirst
      <4>5. wait'[w].answer = row.id
        BY <4>3, <4>4 DEF IsFirstAfter, Ids
      <4>6. ASSUME NEW c \in Deliveries, Stored(c)', delivery'[c].id > wait'[w].since,
                   Kind[c] \in wait'[w].filter
            PROVE  delivery'[c].id >= wait'[w].answer
        <5>1. CASE c = d
          BY <2>1, <2>4, <4>5, <5>1 DEF Email
        <5>2. CASE c # d
          BY <1>0, <3>3, <3>4, <4>2, <4>6, <5>2 DEF NoArrivalMissed
        <5> QED
          BY <5>1, <5>2
      <4>7. /\ wait'[w].since <= lastId' /\ wait'[w].mark <= lastId'
            /\ wait'[w].answer <= lastId'
        BY <1>a, <2>1, <2>3, <3>2, <4>2, <4>5
      <4> HIDE DEF M
      <4> QED
        BY <4>2, <4>6, <4>7
    <3>5. CASE wait[w].phase = "pending" /\ M = {}
      <4>1. wait'[w] = wait[w]
        BY <2>2, <3>5 DEF WakeWaits
      <4>2. wait[w].afterId <= wait[w].since
        BY <1>0, <3>5 DEF WaitsBehind
      <4>3. Kind[d] \notin wait[w].filter
        BY <1>a, <2>1, <3>2, <3>5, <4>2 DEF MatchesAfter
      <4>4. \A c \in Deliveries : Stored(c)' /\ delivery'[c].id > wait[w].since
                                   => Kind[c] \notin wait[w].filter
        BY <1>0, <3>3, <3>5, <4>3 DEF NoArrivalMissed
      <4> QED
        BY <1>a, <2>3, <3>2, <3>5, <4>1, <4>2, <4>4
    <3>6. CASE wait[w].phase # "pending"
      <4>1. wait'[w] = wait[w]
        BY <2>2, <3>6 DEF WakeWaits
      <4>2. row.id > wait[w].mark /\ row.id >= wait[w].answer
        BY <1>a, <2>1, <3>2
      <4>3. ASSUME NEW c \in Deliveries, Stored(c)', delivery'[c].id > wait[w].since,
                   Kind[c] \in wait[w].filter
            PROVE  /\ wait[w].phase = "timedOut" => delivery'[c].id > wait[w].mark
                   /\ wait[w].phase = "matched" => delivery'[c].id >= wait[w].answer
        <5>1. CASE c = d
          BY <2>4, <4>2, <5>1
        <5>2. CASE c # d
          BY <1>0, <3>3, <4>3, <5>2 DEF NoArrivalMissed
        <5> QED
          BY <5>1, <5>2
      <4> QED
        BY <1>a, <2>3, <3>2, <3>6, <4>1, <4>3
    <3> QED
      BY <3>4, <3>5, <3>6
  <2> QED
    BY <2>2, <2>5 DEF WaitsBehind, NoArrivalMissed, StoppedIsDrained, Stored
<1>3. ASSUME NEW gone \in SUBSET emails, RemoveRows(gone) PROVE Goal
  BY <1>3, WaitsKept DEF RemoveRows
<1>4. ASSUME NEW ids \in SUBSET NamedIds, NEW changes \in [ids -> SUBSET Flags],
             SetFlags(changes)
      PROVE  Goal
  <2>1. /\ UNCHANGED <<lastId, delivery, wait, accepting>>
        /\ emails' = {Flagged(e, changes) : e \in emails}
    BY <1>4 DEF SetFlags
  <2>2. \A e \in emails : Flagged(e, changes).id = e.id /\ Flagged(e, changes).kind = e.kind
    BY <1>a DEF Flagged, Email
  <2> QED
    BY <2>1, <2>2, WaitsKept
<1>5. ASSUME NEW value \in BOOLEAN, SetInboxSubscribed(value) PROVE Goal
  BY <1>5, WaitsKept DEF SetInboxSubscribed
<1>6. ASSUME NEW w \in Waiters, NEW after \in 0..(lastId + 1), NEW filter \in Filters,
             NEW poll \in BOOLEAN, RefuseWait(w, after, filter, poll)
      PROVE  Goal
  <2> DEFINE record == [NoWait EXCEPT !.phase = "refused"]
  <2>1. record \in WaitState /\ record.phase = "refused" /\ record.since = 0
        /\ record.mark = 0 /\ record.answer = 0
    BY DEF NoWait, WaitState
  <2>2. Settle(w, record)
    BY <1>6 DEF RefuseWait
  <2> HIDE DEF record
  <2> QED
    BY <1>a, <2>1, <2>2, WaitMoved
<1>7. ASSUME NEW w \in Waiters, NEW after \in 0..(lastId + 1), NEW filter \in Filters,
             NEW poll \in BOOLEAN, BeginWait(w, after, filter, poll)
      PROVE  Goal
  <2> DEFINE begun == Begin(w, after, filter, "pending")
             answer == FirstAfter(emails, after, filter)
             hit == [begun EXCEPT !.phase = "matched", !.mark = lastId, !.answer = answer]
             miss == [begun EXCEPT !.phase = "timedOut", !.mark = lastId]
  <2>1. accepting /\ after <= lastId /\ after \in Nat /\ filter \in SUBSET Kinds
    BY <1>7, LimitsAssumption DEF BeginWait
  <2>2. /\ begun \in WaitState
        /\ begun.phase = "pending" /\ begun.afterId = after /\ begun.filter = filter
        /\ begun.since = lastId /\ begun.mark = 0 /\ begun.answer = 0
    BY <1>a, <2>1 DEF Begin, NoWait, WaitState
  <2>3. \A d \in Deliveries : Stored(d) => ~(delivery[d].id > lastId)
    BY <1>a
  <2> HIDE DEF begun
  <2>4. CASE MatchesAfter(emails, after, filter) # {}
    <3>1. answer \in Nat /\ answer \in Ids(emails)
      BY <1>a, <2>4, FirstAfterIsFirst
    <3>2. answer <= lastId
      BY <1>0, <3>1 DEF KeysIssued, KeysInOrder, Ids
    <3>3. Settle(w, hit)
      BY <1>7, <2>4 DEF BeginWait, begun
    <3> HIDE DEF answer
    <3>4. hit \in WaitState /\ hit.since = lastId /\ hit.mark = lastId
          /\ hit.answer = answer /\ hit.phase = "matched"
      BY <1>a, <2>2, <3>1 DEF WaitState
    <3> HIDE DEF hit
    <3> QED
      BY <1>a, <2>3, <3>2, <3>3, <3>4, WaitMoved
  <2>5. CASE MatchesAfter(emails, after, filter) = {}
    <3>1. Settle(w, miss) \/ Settle(w, begun)
      BY <1>7, <2>5 DEF BeginWait, begun
    <3>2. miss \in WaitState /\ miss.since = lastId /\ miss.mark = lastId
          /\ miss.answer = 0 /\ miss.phase = "timedOut"
      BY <1>a, <2>2 DEF WaitState
    <3>3. CASE Settle(w, begun)
      BY <1>a, <2>1, <2>2, <2>3, <2>5, <3>3, WaitMoved
    <3> HIDE DEF miss
    <3>4. CASE Settle(w, miss)
      BY <1>a, <2>3, <3>2, <3>4, WaitMoved
    <3> QED
      BY <3>1, <3>3, <3>4
  <2> QED
    BY <2>4, <2>5
<1>8. ASSUME NEW w \in Waiters, Timeout(w) \/ Abort(w) PROVE Goal
  <2> DEFINE late == [wait[w] EXCEPT !.phase = "timedOut", !.mark = lastId]
             gone == [wait[w] EXCEPT !.phase = "aborted"]
  <2>1. wait[w] \in WaitState /\ wait[w].phase = "pending"
    BY <1>a, <1>8 DEF Timeout, Abort
  <2>2. /\ wait[w].since <= lastId /\ wait[w].mark <= lastId /\ wait[w].answer <= lastId
        /\ \A d \in Deliveries : Stored(d) /\ delivery[d].id > wait[w].since
                                 => Kind[d] \notin wait[w].filter
    BY <1>0, <2>1 DEF WaitsBehind, NoArrivalMissed
  <2>3. /\ late \in WaitState /\ late.phase = "timedOut" /\ late.mark = lastId
        /\ late.since = wait[w].since /\ late.filter = wait[w].filter
        /\ late.answer = wait[w].answer
    BY <1>a, <2>1 DEF WaitState
  <2>4. /\ gone \in WaitState /\ gone.phase = "aborted" /\ gone.mark = wait[w].mark
        /\ gone.since = wait[w].since /\ gone.filter = wait[w].filter
        /\ gone.answer = wait[w].answer
    BY <2>1 DEF WaitState
  <2>5. Settle(w, late) \/ Settle(w, gone)
    BY <1>8 DEF Timeout, Abort
  <2> HIDE DEF late, gone
  <2>6. CASE Settle(w, late)
    BY <1>a, <2>2, <2>3, <2>6, WaitMoved
  <2>7. CASE Settle(w, gone)
    BY <1>a, <2>2, <2>4, <2>7, WaitMoved
  <2> QED
    BY <2>5, <2>6, <2>7
<1>9. CASE StopAccepting
  <2>1. UNCHANGED <<emails, lastId, delivery>>
    BY <1>9 DEF StopAccepting, tables
  <2>2. \A w \in Waiters :
          /\ wait'[w].phase # "pending"
          /\ wait'[w].phase \in {"timedOut", "matched"} => wait'[w].phase = wait[w].phase
          /\ wait'[w].since = wait[w].since /\ wait'[w].mark = wait[w].mark
          /\ wait'[w].answer = wait[w].answer /\ wait'[w].filter = wait[w].filter
    BY <1>a, <1>9 DEF StopAccepting, WaitState
  <2>3. WaitsBehind'
    BY <1>0, <2>1, <2>2 DEF WaitsBehind
  <2>4. NoArrivalMissed'
    BY <1>0, <2>1, <2>2 DEF NoArrivalMissed, Stored
  <2> QED
    BY <2>2, <2>3, <2>4 DEF StoppedIsDrained, Pending
<1>10. CASE UNCHANGED vars
  BY <1>10, WaitsKept DEF vars, tables
<1> QED
  BY Steps, <1>1, <1>2, <1>3, <1>4, <1>5, <1>6, <1>7, <1>8, <1>9, <1>10

LEMMA WaitsInductive == Spec => []WaitInv
BY InitWaits, WaitsStep, PTL DEF Spec

\* No arrival is missed: it ends every wait it matches, and the cursor of a
\* wait that ended never passes it.
THEOREM ArrivalsAreNoticed == Spec => []NoArrivalMissed
<1>1. WaitInv => NoArrivalMissed
  BY DEF WaitInv
<1> QED
  BY WaitsInductive, <1>1, PTL

\* After stopAccepting() no wait is pending.
THEOREM WaitsAreDrained == Spec => []StoppedIsDrained
<1>1. WaitInv => StoppedIsDrained
  BY DEF WaitInv
<1> QED
  BY WaitsInductive, <1>1, PTL

\* A wait ends with the lowest stored match, or for want of one, and with the
\* high watermark of that moment.
THEOREM OutcomesAreTrue == Spec => OutcomeMatchesStore
<1> DEFINE Outcome(w) ==
             wait'[w].phase # wait[w].phase =>
               /\ wait'[w].phase = "matched" =>
                    IsFirstAfter(wait'[w].answer, emails', wait'[w].afterId, wait'[w].filter)
               /\ wait'[w].phase = "timedOut" =>
                    /\ MatchesAfter(emails', wait'[w].afterId, wait'[w].filter) = {}
                    /\ wait'[w].mark = lastId'
<1>1. ASSUME WaitInv, [Next]_vars, NEW w \in Waiters PROVE Outcome(w)
  <2>0. /\ wait \in [Waiters -> WaitState] /\ wait[w] \in WaitState
        /\ emails \in SUBSET Email /\ WaitsBehind
    BY <1>1 DEF WaitInv, KeysInv, TypeOK
  <2>1. ASSUME wait' = wait PROVE Outcome(w)
    BY <2>1
  <2>2. ASSUME NEW d \in Deliveries, StoreParsed(d) PROVE Outcome(w)
    <3> DEFINE M == MatchesAfter(emails', wait[w].afterId, wait[w].filter)
    <3>1. wait' = WakeWaits(emails', lastId')
      BY <2>2 DEF StoreParsed, Insert
    <3>2. emails' \in SUBSET Email
      BY <1>1, TypeStep DEF WaitInv, KeysInv, TypeOK
    <3>3. CASE wait[w].phase = "pending" /\ M # {}
      <4>1. wait'[w] = Answered(w, emails', lastId')
        BY <3>1, <3>3 DEF WakeWaits
      <4>2. /\ wait'[w].phase = "matched" /\ wait'[w].afterId = wait[w].afterId
            /\ wait'[w].filter = wait[w].filter
            /\ wait'[w].answer = FirstAfter(emails', wait[w].afterId, wait[w].filter)
        BY <2>0, <4>1 DEF Answered, WaitState
      <4>3. IsFirstAfter(wait'[w].answer, emails', wait[w].afterId, wait[w].filter)
        BY <3>2, <3>3, <4>2, FirstAfterIsFirst
      <4> QED
        BY <4>2, <4>3
    <3>4. CASE ~(wait[w].phase = "pending" /\ M # {})
      BY <3>1, <3>4 DEF WakeWaits
    <3> QED
      BY <3>3, <3>4
  <2>3. ASSUME NEW v \in Waiters, NEW after \in 0..(lastId + 1), NEW filter \in Filters,
               NEW poll \in BOOLEAN, RefuseWait(v, after, filter, poll)
        PROVE  Outcome(w)
    <3>1. CASE v = w
      BY <2>0, <2>3, <3>1 DEF RefuseWait, Settle, NoWait
    <3>2. CASE v # w
      BY <2>0, <2>3, <3>2 DEF RefuseWait, Settle
    <3> QED
      BY <3>1, <3>2
  <2>4. ASSUME NEW v \in Waiters, NEW after \in 0..(lastId + 1), NEW filter \in Filters,
               NEW poll \in BOOLEAN, BeginWait(v, after, filter, poll)
        PROVE  Outcome(w)
    <3> DEFINE begun == Begin(v, after, filter, "pending")
               answer == FirstAfter(emails, after, filter)
               hit == [begun EXCEPT !.phase = "matched", !.mark = lastId, !.answer = answer]
               miss == [begun EXCEPT !.phase = "timedOut", !.mark = lastId]
               found == MatchesAfter(emails, after, filter) # {}
    <3>1. \/ found /\ Settle(v, hit)
          \/ ~found /\ (Settle(v, miss) \/ Settle(v, begun))
      BY <2>4 DEF BeginWait
    <3>2. /\ begun.afterId = after /\ begun.filter = filter /\ begun.phase = "pending"
          /\ hit.afterId = after /\ hit.filter = filter /\ hit.answer = answer
          /\ hit.phase = "matched"
          /\ miss.afterId = after /\ miss.filter = filter /\ miss.mark = lastId
          /\ miss.phase = "timedOut"
      BY DEF Begin, NoWait
    <3>3. found => IsFirstAfter(answer, emails, after, filter)
      BY <2>0, FirstAfterIsFirst
    <3> HIDE DEF hit, miss, begun, answer
    <3>4. emails' = emails /\ lastId' = lastId
      BY <3>1 DEF Settle, tables
    <3>5. CASE v = w
      BY <2>0, <3>1, <3>2, <3>3, <3>4, <3>5 DEF Settle
    <3>6. CASE v # w
      BY <2>0, <3>1, <3>6 DEF Settle
    <3> QED
      BY <3>5, <3>6
  <2>5. ASSUME NEW v \in Waiters, Timeout(v) \/ Abort(v) PROVE Outcome(w)
    <3>1. emails' = emails /\ lastId' = lastId
      BY <2>5 DEF Timeout, Abort, Settle, tables
    <3>2. CASE v = w
      <4>1. MatchesAfter(emails, wait[w].afterId, wait[w].filter) = {}
        BY <2>0, <2>5, <3>2 DEF WaitsBehind, Timeout, Abort
      <4>2. \/ wait'[w] = [wait[w] EXCEPT !.phase = "timedOut", !.mark = lastId]
            \/ wait'[w] = [wait[w] EXCEPT !.phase = "aborted"]
        BY <2>0, <2>5, <3>2 DEF Timeout, Abort, Settle
      <4>3. /\ wait'[w].afterId = wait[w].afterId /\ wait'[w].filter = wait[w].filter
            /\ \/ wait'[w].phase = "timedOut" /\ wait'[w].mark = lastId
               \/ wait'[w].phase = "aborted"
        BY <2>0, <4>2 DEF WaitState
      <4> QED
        BY <3>1, <4>1, <4>3
    <3>3. CASE v # w
      BY <2>0, <2>5, <3>3 DEF Timeout, Abort, Settle
    <3> QED
      BY <3>2, <3>3
  <2>6. CASE StopAccepting
    BY <2>0, <2>6 DEF StopAccepting, WaitState
  <2>7. ASSUME NEW d \in Deliveries, ReplyOnly(d) PROVE wait' = wait
    BY <2>7 DEF ReplyOnly
  <2>8. ASSUME NEW gone, RemoveRows(gone) PROVE wait' = wait
    BY <2>8 DEF RemoveRows
  <2>9. ASSUME NEW changes, SetFlags(changes) PROVE wait' = wait
    BY <2>9 DEF SetFlags
  <2>10. ASSUME NEW value, SetInboxSubscribed(value) PROVE wait' = wait
    BY <2>10 DEF SetInboxSubscribed
  <2>11. UNCHANGED vars => wait' = wait
    BY DEF vars
  <2> HIDE DEF Outcome
  <2> QED
    BY <1>1, Steps, <2>1, <2>2, <2>3, <2>4, <2>5, <2>6, <2>7, <2>8, <2>9, <2>10, <2>11
<1>2. WaitInv /\ [Next]_vars => [\A w \in Waiters : Outcome(w)]_vars
  BY <1>1
<1> QED
  BY WaitsInductive, <1>2, PTL DEF Spec, OutcomeMatchesStore
=============================================================================
