------------------------- MODULE ImapMirror_proofs --------------------------
(***************************************************************************)
(* What IMAP shows is the mailbox, for any sessions, flags and limits.     *)
(*                                                                         *)
(* The properties of ImapMirror lean on each other.  Rolling a refused     *)
(* batch back restores the flags of the messages it was planned for, so    *)
(* the mirror stays true only if the numbers of the batch still name them  *)
(* (FetchKeepsNumbers); these stay because a FETCH in progress keeps the   *)
(* view of its session (Planned), and what other sessions are told is      *)
(* right only if the mirror is.  So the invariant has all of them:         *)
(*   Stored           the types of the mailbox and of the message objects, *)
(*                    and that nothing is known of UIDs not yet allocated  *)
(*   MirrorMatches    as it is                                             *)
(*   SessionsHonest   UpdatesExplainMailbox and ToldWhatIsStored in terms  *)
(*                    of the mirror, for UIDs allocated                    *)
(*   FetchesPlanned   a FETCH has batches to come if and only if its       *)
(*                    session waits for them, and they are planned for     *)
(*                    messages of its view under their numbers             *)
(***************************************************************************)
EXTENDS ImapMirror, FiniteSetTheorems, TLAPS

Objects == [Uids -> SUBSET Flags]

Sess ==
  [phase: {"away", "selected", "idle", "fetching"}, view: SUBSET Uids,
   told: Objects, new: SUBSET Uids, flagged: SUBSET Uids, gone: SUBSET Uids,
   queued: Nat]

\* SUBSET Uids as a name: the provers look for members of a name only.
UidSets == SUBSET Uids

Explains(c, box) ==
  /\ (c.view \cup c.new) \ c.gone = box
  /\ c.view \cap c.new = {} /\ c.gone \subseteq c.view \cup c.new
  /\ c.queued = 0 => c.new \cup c.flagged \cup c.gone = {}

Told(c, box, objects) ==
  \A u \in c.view \cap box : c.told[u] = objects[u] \/ u \in c.flagged

Honest(c, box, objects, n) ==
  c.phase # "away" =>
    /\ Explains(c, box) /\ Told(c, box, objects)
    /\ \A u \in c.view \cup c.new : u < n

Rank(view, u) == Cardinality({v \in view : v <= u})

Plan ==
  [asked: SUBSET Uids, seen: BOOLEAN, numbered: BOOLEAN,
   at: UNION {[us -> Nat] : us \in SUBSET Uids}]

Planned(c, f) ==
  IF c.phase = "fetching"
  THEN /\ f \in Plan
       /\ Todo(f) \subseteq c.view
       /\ f.numbered => \A u \in Todo(f) : f.at[u] = Rank(c.view, u)
  ELSE f = NoFetch

Stored ==
  /\ uidNext \in 1..(MaxUid + 1)
  /\ mail \in [DOMAIN mail -> SUBSET Flags]
  /\ \A u \in DOMAIN mail \cup ghost : u \in Uids /\ u < uidNext
  /\ flags \in Objects
  /\ \A u \in Uids : u >= uidNext => flags[u] = {}

SessionsHonest ==
  /\ session \in [Sessions -> Sess]
  /\ \A s \in Sessions : Honest(session[s], inbox, flags, uidNext)

FetchesPlanned ==
  /\ fetch = [s \in Sessions |-> fetch[s]]
  /\ \A s \in Sessions : Planned(session[s], fetch[s])

IInv ==
  /\ Stored
  /\ MirrorMatches
  /\ SessionsHonest
  /\ FetchesPlanned

-----------------------------------------------------------------------------
(***************************************************************************)
(* Sets of UIDs                                                            *)
(***************************************************************************)
LEMMA UidsAreFinite ==
  /\ MaxUid \in Nat
  /\ \A us \in SUBSET Uids : IsFiniteSet(us) /\ Cardinality(us) \in Nat
<1>1. MaxUid \in Nat
  BY MirrorAssumption
<1>2. IsFiniteSet(Uids)
  BY <1>1, FS_Interval DEF Uids
<1> QED
  BY <1>1, <1>2, FS_Subset, FS_CardinalityType

LEMMA SomeUidSets ==
  /\ {} \in UidSets
  /\ \A n \in Uids : {n} \in UidSets
BY DEF UidSets

LEMMA NoneCounted ==
  ASSUME NEW us \in SUBSET Uids
  PROVE  Cardinality(us) = 0 <=> us = {}
BY UidsAreFinite, FS_EmptySet

\* A number names one message of a view.
LEMMA RanksDiffer ==
  ASSUME NEW view \in SUBSET Uids, NEW u \in view, NEW v \in view,
         Rank(view, u) = Rank(view, v)
  PROVE  u = v
<1> DEFINE upTo(x) == {w \in view : w <= x}
<1>1. \A x, y \in view : x < y => Cardinality(upTo(x)) # Cardinality(upTo(y))
  <2> SUFFICES ASSUME NEW x \in view, NEW y \in view, x < y
               PROVE  Cardinality(upTo(x)) # Cardinality(upTo(y))
    OBVIOUS
  <2>1. x \in Nat /\ y \in Nat /\ view \subseteq Nat
    BY UidsAreFinite DEF Uids
  <2>2. \A w \in view : w <= x => w <= y
    BY <2>1
  <2>3. y <= y /\ ~(y <= x)
    BY <2>1
  <2>4. upTo(x) \subseteq upTo(y) /\ y \in upTo(y) /\ y \notin upTo(x)
    BY <2>2, <2>3
  <2>5. upTo(y) \in SUBSET Uids
    OBVIOUS
  <2>6. IsFiniteSet(upTo(y))
    BY <2>5, UidsAreFinite
  <2> HIDE DEF upTo
  <2> QED
    BY <2>4, <2>6, FS_Subset
<1>2. u \in Nat /\ v \in Nat
  BY UidsAreFinite DEF Uids
<1>3. Cardinality(upTo(u)) = Cardinality(upTo(v))
  BY DEF Rank
<1> HIDE DEF upTo
<1> QED
  BY <1>1, <1>2, <1>3

-----------------------------------------------------------------------------
(***************************************************************************)
(* One session: what is queued and what is delivered                       *)
(***************************************************************************)
LEMMA AwayIsSession ==
  /\ Away \in Sess /\ Away.phase = "away"
  /\ Away.new = {} /\ Away.flagged = {} /\ Away.gone = {} /\ Away.queued = 0
BY DEF Away, Sess, Objects

LEMMA UpdatedIs ==
  ASSUME NEW c \in Sess, NEW objects \in Objects
  PROVE  /\ Updated(c, objects) \in Sess
         /\ Updated(c, objects).phase = c.phase
         /\ Updated(c, objects).view = (c.view \cup c.new) \ c.gone
         /\ \A u \in Uids : Updated(c, objects).told[u] =
              CASE u \in c.gone -> {}
                [] u \in (c.new \cup (c.flagged \cap c.view)) \ c.gone -> objects[u]
                [] OTHER -> c.told[u]
         /\ Updated(c, objects).new = {} /\ Updated(c, objects).flagged = {}
         /\ Updated(c, objects).gone = {} /\ Updated(c, objects).queued = 0
<1> DEFINE told == [u \in Uids |->
                      CASE u \in c.gone -> {}
                        [] u \in (c.new \cup (c.flagged \cap c.view)) \ c.gone -> objects[u]
                        [] OTHER -> c.told[u]]
<1>1. told \in Objects
  BY DEF Objects, Sess
<1>2. Updated(c, objects) =
        [c EXCEPT !.view = (c.view \cup c.new) \ c.gone, !.told = told,
                  !.new = {}, !.flagged = {}, !.gone = {}, !.queued = 0]
  BY DEF Updated
<1>3. \A u \in Uids : told[u] = CASE u \in c.gone -> {}
                [] u \in (c.new \cup (c.flagged \cap c.view)) \ c.gone -> objects[u]
                [] OTHER -> c.told[u]
  OBVIOUS
<1> HIDE DEF told
<1>4. Updated(c, objects) =
        [phase |-> c.phase, view |-> (c.view \cup c.new) \ c.gone,
         told |-> told, new |-> {}, flagged |-> {}, gone |-> {}, queued |-> 0]
  BY <1>2 DEF Sess
<1>5. (c.view \cup c.new) \ c.gone \in SUBSET Uids
      /\ c.phase \in {"away", "selected", "idle", "fetching"}
  BY DEF Sess
<1>6. Updated(c, objects) \in Sess
  BY <1>1, <1>4, <1>5 DEF Sess
<1> QED
  BY <1>3, <1>4, <1>6

\* Nothing is left to tell after an update, and what was told is right.
LEMMA UpdateIsHonest ==
  ASSUME NEW c \in Sess, NEW objects \in Objects, NEW box \in SUBSET Uids,
         NEW n, Honest(c, box, objects, n)
  PROVE  Honest(Updated(c, objects), box, objects, n)
<1> DEFINE d == Updated(c, objects)
<1> SUFFICES ASSUME c.phase # "away" PROVE Honest(d, box, objects, n)
  BY UpdatedIs DEF Honest
<1>1. Explains(c, box) /\ Told(c, box, objects) /\ \A u \in c.view \cup c.new : u < n
  BY DEF Honest
<1>2. /\ d.view = (c.view \cup c.new) \ c.gone
      /\ d.new = {} /\ d.flagged = {} /\ d.gone = {} /\ d.queued = 0
      /\ \A u \in Uids : d.told[u] =
              CASE u \in c.gone -> {}
                [] u \in (c.new \cup (c.flagged \cap c.view)) \ c.gone -> objects[u]
                [] OTHER -> c.told[u]
  BY UpdatedIs
<1> HIDE DEF d
<1>3. Explains(d, box)
  BY <1>1, <1>2 DEF Explains
<1>4. Told(d, box, objects)
  BY <1>1, <1>2 DEF Told
<1>5. \A u \in d.view \cup d.new : u < n
  BY <1>1, <1>2
<1> QED
  BY <1>3, <1>4, <1>5 DEF Honest

\* A command that ends delivers some of what is queued, nothing else.
Delivers(c, d, box, objects) ==
  /\ d.new \subseteq c.new /\ d.flagged \subseteq c.flagged
  /\ d.gone \subseteq c.gone
  /\ \A u \in box : d.told[u] \in {c.told[u], objects[u]}

LEMMA HeldBackIs ==
  ASSUME NEW c \in Sess, NEW objects \in Objects
  PROVE  /\ HeldBack(c, objects) \in Sess
         /\ HeldBack(c, objects).phase = c.phase
         /\ HeldBack(c, objects).view = c.view \cup c.new
         /\ \A u \in Uids : HeldBack(c, objects).told[u] =
              IF u \in c.new \cup (c.flagged \cap c.view) THEN objects[u]
                                                          ELSE c.told[u]
         /\ HeldBack(c, objects).new = {} /\ HeldBack(c, objects).flagged = {}
         /\ HeldBack(c, objects).gone = c.gone
         /\ HeldBack(c, objects).queued = Cardinality(c.gone)
<1> DEFINE e == [c EXCEPT !.gone = {}]
<1>1. /\ e \in Sess /\ e.gone = {} /\ e.phase = c.phase /\ e.view = c.view
      /\ e.new = c.new /\ e.flagged = c.flagged /\ e.told = c.told
  BY DEF Sess
<1> DEFINE d == Updated(e, objects)
<1>2. HeldBack(c, objects) =
        [[d EXCEPT !.gone = c.gone] EXCEPT !.queued = Cardinality(c.gone)]
  BY DEF HeldBack
<1> HIDE DEF e
<1>3. /\ d \in Sess /\ d.phase = c.phase /\ d.view = c.view \cup c.new
      /\ \A u \in Uids : d.told[u] =
           IF u \in c.new \cup (c.flagged \cap c.view) THEN objects[u]
                                                       ELSE c.told[u]
      /\ d.new = {} /\ d.flagged = {}
  <2>1. \A u \in Uids : d.told[u] =
              CASE u \in e.gone -> {}
                [] u \in (e.new \cup (e.flagged \cap e.view)) \ e.gone -> objects[u]
                [] OTHER -> e.told[u]
    BY <1>1, UpdatedIs
  <2>2. d \in Sess /\ d.phase = e.phase /\ d.view = (e.view \cup e.new) \ e.gone
        /\ d.new = {} /\ d.flagged = {}
    BY <1>1, UpdatedIs
  <2> HIDE DEF d
  <2> QED
    BY <1>1, <2>1, <2>2
<1> HIDE DEF d
<1>4. c.gone \in SUBSET Uids /\ Cardinality(c.gone) \in Nat
  BY UidsAreFinite DEF Sess
<1> QED
  BY <1>2, <1>3, <1>4 DEF Sess

LEMMA Delivery ==
  ASSUME NEW c \in Sess, NEW objects \in Objects, NEW box \in SUBSET Uids,
         NEW n, Honest(c, box, objects, n), c.phase # "away",
         NEW numbered, NEW d \in AfterCommand(c, objects, numbered)
  PROVE  /\ d \in Sess /\ d.phase = c.phase
         /\ Honest(d, box, objects, n)
         /\ Delivers(c, d, box, objects)
<1>1. d = c \/ d = Updated(c, objects) \/ d = HeldBack(c, objects)
  BY DEF AfterCommand
<1>2. CASE d = c
  BY <1>2 DEF Delivers
<1>3. Explains(c, box) /\ Told(c, box, objects) /\ \A u \in c.view \cup c.new : u < n
  BY DEF Honest
<1>4. box \cap c.gone = {}
  BY <1>3 DEF Explains
<1>5. CASE d = Updated(c, objects)
  <2>1. d \in Sess /\ d.phase = c.phase /\ Honest(d, box, objects, n)
    BY <1>5, UpdatedIs, UpdateIsHonest
  <2>2. /\ d.new = {} /\ d.flagged = {} /\ d.gone = {}
        /\ \A u \in Uids : d.told[u] =
              CASE u \in c.gone -> {}
                [] u \in (c.new \cup (c.flagged \cap c.view)) \ c.gone -> objects[u]
                [] OTHER -> c.told[u]
    BY <1>5, UpdatedIs
  <2> QED
    BY <1>4, <2>1, <2>2 DEF Delivers
<1>6. CASE d = HeldBack(c, objects)
  <2>1. /\ d \in Sess /\ d.phase = c.phase /\ d.view = c.view \cup c.new
        /\ \A u \in Uids : d.told[u] =
             IF u \in c.new \cup (c.flagged \cap c.view) THEN objects[u]
                                                         ELSE c.told[u]
        /\ d.new = {} /\ d.flagged = {} /\ d.gone = c.gone
        /\ d.queued = Cardinality(c.gone)
    BY <1>6, HeldBackIs
  <2>2. d.queued = 0 => c.gone = {}
    BY <2>1, NoneCounted DEF Sess
  <2>3. Explains(d, box)
    BY <1>3, <2>1, <2>2 DEF Explains
  <2>4. Told(d, box, objects)
    BY <1>3, <2>1 DEF Told
  <2>5. \A u \in d.view \cup d.new : u < n
    BY <1>3, <2>1
  <2> QED
    BY <2>1, <2>3, <2>4, <2>5 DEF Honest, Delivers
<1> QED
  BY <1>1, <1>2, <1>5, <1>6

\* d is the session c with more to tell.
Queued(d, c, new, flagged, gone, count) ==
  /\ d \in Sess /\ d.phase = c.phase /\ d.view = c.view
  /\ d.new = c.new \cup new /\ d.flagged = c.flagged \cup flagged
  /\ d.gone = c.gone \cup gone /\ d.queued = c.queued + count
  /\ \A u \in Uids : d.told[u] = IF u \in gone THEN {} ELSE c.told[u]

LEMMA QueueIs ==
  ASSUME NEW c \in Sess, NEW new \in UidSets, NEW flagged \in UidSets,
         NEW gone \in UidSets, NEW count, count \in Nat
  PROVE  Queued(Queue(c, new, flagged, gone, count), c, new, flagged, gone, count)
<1> DEFINE told == [u \in Uids |-> IF u \in gone THEN {} ELSE c.told[u]]
           d == Queue(c, new, flagged, gone, count)
<1>1. told \in Objects
  BY DEF Objects, Sess
<1>2. d =
        [c EXCEPT !.new = c.new \cup new, !.flagged = c.flagged \cup flagged,
                  !.gone = c.gone \cup gone, !.queued = c.queued + count,
                  !.told = told]
  BY DEF Queue, Sess
<1>3. \A u \in Uids : told[u] = IF u \in gone THEN {} ELSE c.told[u]
  OBVIOUS
<1> HIDE DEF told
<1>4. d =
        [phase |-> c.phase, view |-> c.view, told |-> told,
         new |-> c.new \cup new, flagged |-> c.flagged \cup flagged,
         gone |-> c.gone \cup gone, queued |-> c.queued + count]
  BY <1>2 DEF Sess
<1>5. /\ c.phase \in {"away", "selected", "idle", "fetching"}
      /\ c.view \in SUBSET Uids /\ c.new \cup new \in SUBSET Uids
      /\ c.flagged \cup flagged \in SUBSET Uids
      /\ c.gone \cup gone \in SUBSET Uids /\ c.queued + count \in Nat
  BY DEF Sess, UidSets
<1>6. d \in Sess
  BY <1>1, <1>4, <1>5 DEF Sess
<1> HIDE DEF d
<1> QED
  BY <1>3, <1>4, <1>6 DEF Queued, d

\* Whatever is announced, a session whose queue is right is told right; it
\* keeps its view while it fetches.
LEMMA Notification ==
  ASSUME NEW c \in Sess, NEW new \in UidSets, NEW flagged \in UidSets,
         NEW gone \in UidSets, NEW count \in Nat,
         NEW objects \in Objects, NEW ghosts, NEW box \in SUBSET Uids, NEW n,
         c.phase # "away" =>
           IF count = 0 THEN Honest(c, box, objects, n)
           ELSE Honest(Queue(c, new, flagged, gone, count), box, objects, n)
  PROVE  LET d == Notified(c, new, flagged, gone, count, objects, ghosts)
         IN  /\ d \in Sess /\ d.phase \in {c.phase, "away"}
             /\ Honest(d, box, objects, n)
             /\ d.phase = "fetching" => d.view = c.view
<1> DEFINE d == Notified(c, new, flagged, gone, count, objects, ghosts)
           q == Queue(c, new, flagged, gone, count)
<1>1. CASE c.phase = "away" \/ count = 0
  <2>1. d = c
    BY <1>1 DEF Notified
  <2> QED
    BY <1>1, <2>1 DEF Honest
<1>2. CASE c.phase # "away" /\ count # 0
  <2>0. Queued(q, c, new, flagged, gone, count)
    BY QueueIs
  <2>1. q \in Sess /\ q.phase = c.phase /\ q.view = c.view
    BY <2>0 DEF Queued
  <2>2. Honest(q, box, objects, n)
    BY <1>2
  <2>3. c.phase \in {"idle", "selected", "fetching"}
    BY <1>2 DEF Sess
  <2>4. \/ c.phase = "idle" /\ d = Updated(q, objects)
        \/ d = Away
        \/ d = q
    BY <1>2, <2>3 DEF Notified, Disconnect
  <2> HIDE DEF d, q
  <2>5. CASE c.phase = "idle" /\ d = Updated(q, objects)
    <3>1. d \in Sess /\ d.phase = "idle"
      BY <2>1, <2>5, UpdatedIs
    <3>2. Honest(d, box, objects, n)
      BY <2>1, <2>2, <2>5, UpdateIsHonest
    <3> QED
      BY <2>5, <3>1, <3>2 DEF d
  <2>6. CASE d = Away
    BY <2>6, AwayIsSession DEF d, Honest
  <2>7. CASE d = q
    BY <2>1, <2>2, <2>7 DEF d
  <2> QED
    BY <2>4, <2>5, <2>6, <2>7
<1> QED
  BY <1>1, <1>2

\* The three things there are to announce.
LEMMA ArrivalIsTold ==
  ASSUME NEW c \in Sess, NEW objects \in Objects, NEW box \in SUBSET Uids,
         NEW n \in Uids, Honest(c, box, objects, n), NEW ghosts, n \notin box
  PROVE  LET d == Notified(c, {n}, {}, {}, 1, objects, ghosts)
         IN  /\ d \in Sess /\ d.phase \in {c.phase, "away"}
             /\ Honest(d, box \cup {n}, objects, n + 1)
             /\ d.phase = "fetching" => d.view = c.view
<1> DEFINE q == Queue(c, {n}, {}, {}, 1)
<1>1. c.phase # "away" => Honest(q, box \cup {n}, objects, n + 1)
  <2> SUFFICES ASSUME c.phase # "away"
               PROVE  Honest(q, box \cup {n}, objects, n + 1)
    OBVIOUS
  <2>1. /\ Explains(c, box) /\ Told(c, box, objects)
        /\ \A u \in c.view \cup c.new : u < n
    BY DEF Honest
  <2>a. Queued(q, c, {n}, {}, {}, 1)
    BY QueueIs, SomeUidSets
  <2> HIDE DEF q
  <2>2. /\ q \in Sess /\ q.view = c.view /\ q.new = c.new \cup {n}
        /\ q.flagged = c.flagged /\ q.gone = c.gone /\ q.queued = c.queued + 1
        /\ \A u \in Uids : q.told[u] = c.told[u]
    BY <2>a DEF Queued
  <2>3. n \in Nat /\ c.queued \in Nat /\ c.view \cup c.new \subseteq Nat
    BY UidsAreFinite DEF Sess, Uids
  <2>4. n \notin c.view \cup c.new /\ n \notin c.gone
    BY <2>1, <2>3 DEF Explains
  <2>5. q.queued # 0
    BY <2>2, <2>3
  <2>6. Explains(q, box \cup {n})
    BY <2>1, <2>2, <2>4, <2>5 DEF Explains
  <2>7. Told(q, box \cup {n}, objects)
    BY <2>1, <2>2, <2>4 DEF Told
  <2>8. \A u \in q.view \cup q.new : u < n + 1
    BY <2>1, <2>2, <2>3
  <2> QED
    BY <2>6, <2>7, <2>8 DEF Honest
<1> HIDE DEF q
<1> QED
  BY <1>1, Notification, SomeUidSets DEF q

\* Message objects that differ at most for us.
SameBut(box, us, objects, after) == \A u \in box \ us : after[u] = objects[u]

\* A session that goes on keeps its phase, and its view while it fetches.
GoesOn(c, d) ==
  /\ d.phase \in {c.phase, "away"}
  /\ d.phase = "fetching" => d.view = c.view

Informed(d, c, box, objects, n) ==
  d \in Sess /\ GoesOn(c, d) /\ Honest(d, box, objects, n)

LEMMA FlagsAreTold ==
  ASSUME NEW c \in Sess, NEW objects \in Objects, NEW box \in UidSets,
         NEW n, Honest(c, box, objects, n),
         NEW us \in UidSets, NEW after \in Objects,
         SameBut(box, us, objects, after)
  PROVE  Informed(Flagged(c, us, after), c, box, after, n)
<1> DEFINE count == IF us = {} THEN 0 ELSE 1
           d == Notified(c, {}, us, {}, count, after, ghost)
           q == Queue(c, {}, us, {}, count)
<1>1. c.phase # "away" => IF count = 0 THEN Honest(c, box, after, n)
                                       ELSE Honest(q, box, after, n)
  <2> SUFFICES ASSUME c.phase # "away"
               PROVE  IF count = 0 THEN Honest(c, box, after, n)
                                   ELSE Honest(q, box, after, n)
    OBVIOUS
  <2>1. /\ Explains(c, box) /\ Told(c, box, objects)
        /\ \A u \in c.view \cup c.new : u < n
    BY DEF Honest
  <2>2. CASE us = {}
    BY <2>1, <2>2 DEF Honest, Told, SameBut
  <2>3. CASE us # {}
    <3>1. count = 1
      BY <2>3
    <3>a. Queued(q, c, {}, us, {}, 1)
      BY <3>1, QueueIs, SomeUidSets
    <3> HIDE DEF q
    <3>2. /\ q \in Sess /\ q.view = c.view /\ q.new = c.new
          /\ q.flagged = c.flagged \cup us /\ q.gone = c.gone
          /\ q.queued = c.queued + 1
          /\ \A u \in Uids : q.told[u] = c.told[u]
      BY <3>a DEF Queued
    <3>3. q.queued # 0
      BY <3>2 DEF Sess
    <3>4. Explains(q, box)
      BY <2>1, <3>2, <3>3 DEF Explains
    <3>5. Told(q, box, after)
      BY <2>1, <3>2 DEF Told, SameBut, UidSets
    <3> QED
      BY <2>1, <3>1, <3>2, <3>4, <3>5 DEF Honest
  <2> QED
    BY <2>2, <2>3
<1>2. count \in Nat
  OBVIOUS
<1>3. box \in SUBSET Uids
  BY DEF UidSets
<1> HIDE DEF q, count
<1>4. d \in Sess /\ GoesOn(c, d) /\ Honest(d, box, after, n)
  BY <1>1, <1>2, <1>3, Notification, SomeUidSets DEF q, GoesOn
<1>5. d = Flagged(c, us, after)
  BY DEF Flagged, count
<1> QED
  BY <1>4, <1>5 DEF Informed

LEMMA DeletionIsTold ==
  ASSUME NEW c \in Sess, NEW objects \in Objects, NEW box \in SUBSET Uids,
         NEW n, Honest(c, box, objects, n), NEW ghosts,
         NEW us \in SUBSET box
  PROVE  LET d == Notified(c, {}, {}, us, Cardinality(us), objects, ghosts)
         IN  /\ d \in Sess /\ d.phase \in {c.phase, "away"}
             /\ Honest(d, box \ us, objects, n)
             /\ d.phase = "fetching" => d.view = c.view
<1> DEFINE count == Cardinality(us)
           q == Queue(c, {}, {}, us, count)
<1>1. us \in UidSets /\ count \in Nat /\ (count = 0 => us = {})
  BY UidsAreFinite, NoneCounted DEF UidSets
<1> HIDE DEF count
<1>2. c.phase # "away" => IF count = 0 THEN Honest(c, box \ us, objects, n)
                                       ELSE Honest(q, box \ us, objects, n)
  <2> SUFFICES ASSUME c.phase # "away"
               PROVE  IF count = 0 THEN Honest(c, box \ us, objects, n)
                                   ELSE Honest(q, box \ us, objects, n)
    OBVIOUS
  <2>1. /\ Explains(c, box) /\ Told(c, box, objects)
        /\ \A u \in c.view \cup c.new : u < n
    BY DEF Honest
  <2>2. CASE count = 0
    <3>1. box \ us = box
      BY <1>1, <2>2
    <3> QED
      BY <2>2, <3>1
  <2>3. CASE count # 0
    <3>a. Queued(q, c, {}, {}, us, count)
      BY <1>1, QueueIs, SomeUidSets
    <3> HIDE DEF q
    <3>1. /\ q \in Sess /\ q.view = c.view /\ q.new = c.new
          /\ q.flagged = c.flagged /\ q.gone = c.gone \cup us
          /\ q.queued = c.queued + count
          /\ \A u \in Uids : q.told[u] = IF u \in us THEN {} ELSE c.told[u]
      BY <3>a DEF Queued
    <3>2. q.queued # 0
      BY <1>1, <2>3, <3>1 DEF Sess
    <3>3. Explains(q, box \ us)
      BY <2>1, <3>1, <3>2 DEF Explains
    <3>4. Told(q, box \ us, objects)
      BY <2>1, <3>1 DEF Told
    <3> QED
      BY <2>1, <2>3, <3>1, <3>3, <3>4 DEF Honest
  <2> QED
    BY <2>2, <2>3
<1> HIDE DEF q
<1> QED
  BY <1>1, <1>2, Notification, SomeUidSets DEF q, count

-----------------------------------------------------------------------------
(***************************************************************************)
(* The sessions together                                                   *)
(***************************************************************************)
LEMMA PhaseIs ==
  ASSUME NEW c \in Sess, NEW p \in {"selected", "idle", "fetching"},
         NEW box, NEW objects, NEW n,
         Honest(c, box, objects, n), c.phase # "away"
  PROVE  LET d == [c EXCEPT !.phase = p]
         IN  /\ d \in Sess /\ d.phase = p /\ d.view = c.view
             /\ Honest(d, box, objects, n)
             /\ d.new = c.new /\ d.flagged = c.flagged /\ d.gone = c.gone
             /\ d.told = c.told
<1> DEFINE d == [c EXCEPT !.phase = p]
<1>1. /\ d \in Sess /\ d.phase = p /\ d.view = c.view /\ d.told = c.told
      /\ d.new = c.new /\ d.flagged = c.flagged /\ d.gone = c.gone
      /\ d.queued = c.queued
  BY DEF Sess
<1> HIDE DEF d
<1>2. Honest(d, box, objects, n)
  BY <1>1 DEF Honest, Explains, Told
<1> QED
  BY <1>1, <1>2 DEF d

LEMMA Finishing ==
  ASSUME NEW s \in Sessions, NEW now, now \in [Sessions -> Sess],
         NEW objects \in Objects, NEW numbered, NEW box \in SUBSET Uids, NEW n,
         Honest(now[s], box, objects, n), Finish(s, now, objects, numbered)
  PROVE  /\ session' \in [Sessions -> Sess]
         /\ \A t \in Sessions \ {s} : session'[t] = now[t]
         /\ Honest(session'[s], box, objects, n)
         /\ session'[s].phase \in {"selected", "away"}
         /\ now[s].phase # "away" =>
              /\ session'[s].phase = "selected"
              /\ Delivers(now[s], session'[s], box, objects)
<1>1. CASE now[s].phase = "away"
  BY <1>1 DEF Finish
<1>2. CASE now[s].phase # "away"
  <2>1. PICK c \in AfterCommand(now[s], objects, numbered) :
          session' = [now EXCEPT ![s] = [c EXCEPT !.phase = "selected"]]
    BY <1>2 DEF Finish
  <2>2. now[s] \in Sess
    OBVIOUS
  <2>3. /\ c \in Sess /\ c.phase = now[s].phase
        /\ Honest(c, box, objects, n) /\ Delivers(now[s], c, box, objects)
    BY <1>2, <2>2, Delivery
  <2> DEFINE d == [c EXCEPT !.phase = "selected"]
  <2>4. /\ d \in Sess /\ d.phase = "selected" /\ Honest(d, box, objects, n)
        /\ d.new = c.new /\ d.flagged = c.flagged /\ d.gone = c.gone
        /\ d.told = c.told
    BY <1>2, <2>3, PhaseIs
  <2>5. Delivers(now[s], d, box, objects)
    BY <2>3, <2>4 DEF Delivers
  <2>6. session' = [now EXCEPT ![s] = d]
    BY <2>1
  <2> HIDE DEF d
  <2> QED
    BY <2>4, <2>5, <2>6
<1> QED
  BY <1>1, <1>2

LEMMA PlanKept ==
  ASSUME NEW c, NEW d, NEW f, Planned(c, f), d.phase # "away",
         d.phase = "fetching" <=> c.phase = "fetching",
         d.phase = "fetching" => d.view = c.view
  PROVE  Planned(d, f)
BY DEF Planned

LEMMA FetchStep ==
  ASSUME NEW f, Fetching(f),
         \A t \in Sessions : session'[t].phase # "away" => Planned(session'[t], f[t])
  PROVE  FetchesPlanned'
<1>1. fetch' = [t \in Sessions |->
                  IF session'[t].phase = "away" THEN NoFetch ELSE f[t]]
  BY DEF Fetching
<1>2. \A t \in Sessions : Planned(session'[t], fetch'[t])
  BY <1>1 DEF Planned
<1> QED
  BY <1>1, <1>2 DEF FetchesPlanned

LEMMA FetchesGoOn ==
  ASSUME FetchesPlanned, Fetching(fetch),
         \A t \in Sessions : GoesOn(session[t], session'[t])
  PROVE  FetchesPlanned'
<1>1. \A t \in Sessions : session'[t].phase # "away" => Planned(session'[t], fetch[t])
  BY PlanKept DEF GoesOn, FetchesPlanned
<1> QED
  BY <1>1, FetchStep

-----------------------------------------------------------------------------
(***************************************************************************)
(* Changes of other surfaces                                               *)
(***************************************************************************)
LEMMA InboxIsSetOfUids ==
  ASSUME Stored, MirrorMatches
  PROVE  inbox \in SUBSET Uids /\ inbox = DOMAIN mail
BY DEF Stored, MirrorMatches

LEMMA InsertStep ==
  ASSUME IInv, Insert
  PROVE  IInv'
<1> USE DEF IInv
<1>1. /\ uidNext \in Uids /\ uidNext \in Nat /\ uidNext + 1 \in 1..(MaxUid + 1)
      /\ inbox = DOMAIN mail /\ inbox \in SUBSET Uids
      /\ uidNext \notin inbox /\ uidNext \notin ghost /\ flags[uidNext] = {}
  <2>1. uidNext <= MaxUid /\ uidNext \in 1..(MaxUid + 1)
    BY DEF Insert, Stored
  <2>2. /\ uidNext \in Uids /\ uidNext \in Nat
        /\ uidNext + 1 \in 1..(MaxUid + 1) /\ ~(uidNext < uidNext)
        /\ uidNext >= uidNext
    BY <2>1, UidsAreFinite DEF Uids
  <2> QED
    BY <2>2, InboxIsSetOfUids DEF Stored
<1>2. /\ mail' = [u \in DOMAIN mail \cup {uidNext} |->
                   IF u = uidNext THEN {} ELSE mail[u]]
      /\ uidNext' = uidNext + 1 /\ inbox' = inbox \cup {uidNext}
      /\ UNCHANGED <<flags, ghost, known, subscription>>
      /\ session' = [t \in Sessions |-> Arrived(session[t], uidNext, flags)]
      /\ Fetching(fetch)
  BY DEF Insert
<1>3. Stored'
  <2>1. \A u \in Uids : u < uidNext => u < uidNext + 1
    BY <1>1 DEF Uids
  <2>2. \A u \in Uids : u >= uidNext + 1 => u >= uidNext
    BY <1>1 DEF Uids
  <2>3. uidNext < uidNext + 1
    BY <1>1
  <2> QED
    BY <1>1, <1>2, <2>1, <2>2, <2>3 DEF Stored
<1>4. MirrorMatches'
  BY <1>1, <1>2 DEF MirrorMatches
<1>5. \A t \in Sessions :
        /\ session'[t] \in Sess /\ GoesOn(session[t], session'[t])
        /\ Honest(session'[t], inbox', flags, uidNext + 1)
  <2> SUFFICES ASSUME NEW t \in Sessions
               PROVE  /\ session'[t] \in Sess /\ GoesOn(session[t], session'[t])
                      /\ Honest(session'[t], inbox', flags, uidNext + 1)
    OBVIOUS
  <2>1. session[t] \in Sess /\ Honest(session[t], inbox, flags, uidNext)
        /\ flags \in Objects
    BY DEF SessionsHonest, Stored
  <2>2. session'[t] = Notified(session[t], {uidNext}, {}, {}, 1, flags, ghost)
    BY <1>2 DEF Arrived
  <2> QED
    BY <1>1, <1>2, <2>1, <2>2, ArrivalIsTold DEF GoesOn
<1>6. session' \in [Sessions -> Sess]
  BY <1>2, <1>5
<1>7. SessionsHonest'
  BY <1>2, <1>5, <1>6 DEF SessionsHonest
<1>8. FetchesPlanned'
  BY <1>2, <1>5, FetchesGoOn
<1> QED
  BY <1>3, <1>4, <1>7, <1>8

LEMMA DeleteStep ==
  ASSUME IInv, NEW us \in SUBSET DOMAIN mail, DeleteElsewhere(us)
  PROVE  IInv'
<1> USE DEF IInv
<1> DEFINE ghosts == ghost \cup us
<1>1. us \in SUBSET inbox /\ us \cap inbox = us /\ inbox = DOMAIN mail
      /\ inbox \in SUBSET Uids
  BY InboxIsSetOfUids
<1>2. /\ mail' = [u \in DOMAIN mail \ us |-> mail[u]]
      /\ inbox' = inbox \ us /\ ghost' = ghost \cup us
      /\ UNCHANGED <<uidNext, flags, known, subscription>>
      /\ session' = [t \in Sessions |-> Expunged(session[t], us, ghosts)]
      /\ Fetching(fetch)
  BY <1>1 DEF DeleteElsewhere
<1> HIDE DEF ghosts
<1>3. Stored'
  BY <1>1, <1>2 DEF Stored
<1>4. MirrorMatches'
  BY <1>1, <1>2 DEF MirrorMatches
<1>5. \A t \in Sessions :
        /\ session'[t] \in Sess /\ GoesOn(session[t], session'[t])
        /\ Honest(session'[t], inbox', flags, uidNext)
  <2> SUFFICES ASSUME NEW t \in Sessions
               PROVE  /\ session'[t] \in Sess /\ GoesOn(session[t], session'[t])
                      /\ Honest(session'[t], inbox', flags, uidNext)
    OBVIOUS
  <2>1. session[t] \in Sess /\ Honest(session[t], inbox, flags, uidNext)
        /\ flags \in Objects
    BY DEF SessionsHonest, Stored
  <2>2. session'[t] = Notified(session[t], {}, {}, us, Cardinality(us), flags, ghosts)
    BY <1>2 DEF Expunged
  <2> QED
    BY <1>1, <1>2, <2>1, <2>2, DeletionIsTold DEF GoesOn
<1>6. SessionsHonest'
  BY <1>2, <1>5 DEF SessionsHonest
<1>7. FetchesPlanned'
  BY <1>2, <1>5, FetchesGoOn
<1> QED
  BY <1>3, <1>4, <1>6, <1>7

LEMMA FlagStep ==
  ASSUME IInv, NEW u \in DOMAIN mail, NEW new \in StoreFlags,
         FlagElsewhere(u, new)
  PROVE  IInv'
<1> USE DEF IInv
<1> DEFINE after == [flags EXCEPT ![u] = new]
<1>1. u \in inbox /\ inbox = DOMAIN mail /\ inbox \in SUBSET Uids /\ u \in Uids
      /\ new \in SUBSET Flags
  BY InboxIsSetOfUids, MirrorAssumption
<1>2. /\ mail' = [mail EXCEPT ![u] = new] /\ flags' = after
      /\ new \cap Keywords = {}
      /\ session' = [t \in Sessions |-> Flagged(session[t], {u}, after)]
      /\ UNCHANGED <<uidNext, inbox, ghost, known, subscription>>
      /\ Fetching(fetch)
  BY <1>1 DEF FlagElsewhere
<1>3. after \in Objects /\ after[u] = new
      /\ \A v \in Uids \ {u} : after[v] = flags[v]
  BY <1>1 DEF Stored, Objects
<1>4. u < uidNext /\ uidNext \in Nat /\ u \in Nat
  BY <1>1, UidsAreFinite DEF Stored, Uids
<1> HIDE DEF after
<1>5. Stored'
  <2>1. mail' \in [DOMAIN mail' -> SUBSET Flags] /\ DOMAIN mail' = DOMAIN mail
    BY <1>1, <1>2 DEF Stored
  <2>2. \A v \in Uids : v >= uidNext => v # u
    BY <1>4 DEF Uids
  <2> QED
    BY <1>1, <1>2, <1>3, <2>1, <2>2 DEF Stored
<1>6. MirrorMatches'
  <2>1. /\ DOMAIN mail' = inbox /\ mail'[u] = new
        /\ \A v \in inbox \ {u} : mail'[v] = mail[v]
    BY <1>1, <1>2
  <2> QED
    BY <1>1, <1>2, <1>3, <2>1 DEF MirrorMatches
<1>7. \A t \in Sessions :
        /\ session'[t] \in Sess /\ GoesOn(session[t], session'[t])
        /\ Honest(session'[t], inbox, after, uidNext)
  <2> SUFFICES ASSUME NEW t \in Sessions
               PROVE  /\ session'[t] \in Sess /\ GoesOn(session[t], session'[t])
                      /\ Honest(session'[t], inbox, after, uidNext)
    OBVIOUS
  <2>1. session[t] \in Sess /\ Honest(session[t], inbox, flags, uidNext)
        /\ flags \in Objects
    BY DEF SessionsHonest, Stored
  <2>2. {u} \in UidSets /\ inbox \in UidSets
    BY <1>1, SomeUidSets DEF UidSets
  <2>3. session'[t] = Flagged(session[t], {u}, after)
    BY <1>2
  <2>4. SameBut(inbox, {u}, flags, after)
    BY <1>1, <1>3 DEF SameBut
  <2> QED
    BY <1>3, <2>1, <2>2, <2>3, <2>4, FlagsAreTold DEF Informed
<1>8. SessionsHonest'
  BY <1>2, <1>7 DEF SessionsHonest
<1>9. FetchesPlanned'
  BY <1>2, <1>7, FetchesGoOn
<1> QED
  BY <1>5, <1>6, <1>8, <1>9

-----------------------------------------------------------------------------
(***************************************************************************)
(* STORE and FETCH                                                         *)
(***************************************************************************)
OpSet == [kind: {"add", "remove", "set"}, flags: SUBSET Flags]

LEMMA OpsAreTyped ==
  /\ Ops \subseteq OpSet
  /\ \A seen : ReadOp(seen) \in OpSet /\ ReadOp(seen).kind = "add"
               /\ (seen => ReadOp(seen).flags = {Seen})
<1>1. StoreFlags \subseteq SUBSET Flags /\ Seen \in Flags
  BY MirrorAssumption
<1> QED
  BY <1>1 DEF Ops, OpSet, ReadOp

LEMMA HandledIs ==
  ASSUME flags \in Objects, NEW touched, NEW op \in OpSet
  PROVE  LET after == Handled(touched, op)
         IN  /\ after \in Objects
             /\ \A u \in Uids : u \notin touched \cap inbox => after[u] = flags[u]
             /\ \A u \in Uids : u \in touched \cap inbox =>
                                  after[u] = Changed(op, flags[u])
<1>1. \A u \in Uids : Changed(op, flags[u]) \in SUBSET Flags
  BY DEF Changed, OpSet, Objects
<1> QED
  BY <1>1 DEF Handled, Objects

\* What a step that answers NO leaves as it was.
NothingChanged ==
  /\ UNCHANGED <<mail, inbox, ghost, flags, known, subscription>>
  /\ \A s \in Sessions :
       /\ session'[s].new \subseteq session[s].new
       /\ session'[s].flagged \subseteq session[s].flagged
       /\ session'[s].gone \subseteq session[s].gone
       /\ \A u \in inbox : session'[s].told[u] \in {session[s].told[u], mail[u]}

\* A command that changes nothing but what its session is told, and ends.
LEMMA CommandEnds ==
  ASSUME IInv, NEW s \in Sessions, session[s].phase # "away", NEW numbered,
         Finish(s, session, flags, numbered),
         UNCHANGED <<mail, uidNext, mirror, subscription>>,
         \/ Fetching([fetch EXCEPT ![s] = NoFetch])
         \/ Selected(s) /\ Fetching(fetch)
  PROVE  IInv' /\ NothingChanged
<1> USE DEF IInv
<1>1. /\ session \in [Sessions -> Sess] /\ flags \in Objects
      /\ inbox \in SUBSET Uids /\ inbox = DOMAIN mail
      /\ Honest(session[s], inbox, flags, uidNext)
  BY InboxIsSetOfUids DEF SessionsHonest, Stored
<1>2. /\ session' \in [Sessions -> Sess]
      /\ \A t \in Sessions \ {s} : session'[t] = session[t]
      /\ Honest(session'[s], inbox, flags, uidNext)
      /\ session'[s].phase = "selected"
      /\ Delivers(session[s], session'[s], inbox, flags)
  BY <1>1, Finishing
<1>3. UNCHANGED <<mail, uidNext, inbox, ghost, flags, known, subscription>>
  BY DEF mirror
<1>4. Stored' /\ MirrorMatches'
  BY <1>3 DEF Stored, MirrorMatches
<1>5. SessionsHonest'
  BY <1>2, <1>3 DEF SessionsHonest
<1>6. FetchesPlanned'
  <2>1. PICK f : f \in {fetch, [fetch EXCEPT ![s] = NoFetch]} /\ Fetching(f)
                 /\ f[s] = NoFetch
    BY DEF FetchesPlanned, Planned, Selected
  <2>2. \A t \in Sessions \ {s} : f[t] = fetch[t] /\ Planned(session'[t], f[t])
    BY <1>2, <2>1 DEF FetchesPlanned
  <2>3. Planned(session'[s], f[s])
    BY <1>2, <2>1 DEF Planned
  <2> QED
    BY <2>1, <2>2, <2>3, FetchStep
<1>7. NothingChanged
  BY <1>1, <1>2, <1>3 DEF NothingChanged, Delivers, MirrorMatches
<1> QED
  BY <1>4, <1>5, <1>6, <1>7

\* The flags of every message the handler touched are known to restore().
LEMMA RestoreIsExact ==
  ASSUME flags \in Objects, NEW touched, NEW op \in OpSet, NEW tracked,
         touched \cap inbox \subseteq tracked
  PROVE  Restored(tracked, Handled(touched, op)) = flags
BY HandledIs DEF Restored, Objects

\* What a command or batch that is not refused does.
StoredChanges(s, touched, tracked, op, numbered, rest) ==
  LET after == Handled(touched, op)
      changed == {u \in tracked : after[u] # flags[u]}
  IN  /\ StoreChanges(changed, after, op)
      /\ IF rest = NoFetch
         THEN Finish(s, Replay(s, touched, after), after, numbered)
         ELSE session' = Replay(s, touched, after)
      /\ Fetching([fetch EXCEPT ![s] = rest])
      /\ UNCHANGED <<uidNext, inbox, ghost, subscription>>

LEMMA RunOutcomes ==
  ASSUME IInv, NEW s \in Sessions, session[s].phase # "away",
         NEW touched, NEW tracked, touched \cap inbox \subseteq tracked,
         NEW op \in OpSet, NEW numbered, NEW rest,
         RunWithFlags(s, touched, tracked, op, numbered, rest)
  PROVE  \/ answer' = "NO" /\ IInv' /\ NothingChanged
         \/ answer' = "OK" /\ StoredChanges(s, touched, tracked, op, numbered, rest)
<1>1. flags \in Objects
  BY DEF IInv, Stored
<1>2. Restored(tracked, Handled(touched, op)) = flags
  BY <1>1, RestoreIsExact
<1>3. \/ answer' = "OK" /\ StoredChanges(s, touched, tracked, op, numbered, rest)
      \/ /\ Restore(flags, op) /\ Finish(s, session, flags, numbered)
         /\ Fetching([fetch EXCEPT ![s] = NoFetch])
         /\ answer' = "NO"
         /\ UNCHANGED <<mail, uidNext, inbox, ghost, subscription>>
  BY <1>2 DEF RunWithFlags, StoredChanges
<1>4. CASE /\ Restore(flags, op) /\ Finish(s, session, flags, numbered)
           /\ Fetching([fetch EXCEPT ![s] = NoFetch])
           /\ answer' = "NO"
           /\ UNCHANGED <<mail, uidNext, inbox, ghost, subscription>>
  <2>1. UNCHANGED <<mail, uidNext, mirror, subscription>>
    BY <1>4 DEF Restore, mirror
  <2> QED
    BY <1>4, <2>1, CommandEnds
<1> QED
  BY <1>3, <1>4

LEMMA ResponsesAreRight ==
  ASSUME NEW s, session[s] \in Sess, NEW touched, NEW after \in Objects,
         NEW n, Honest(session[s], inbox, flags, n), inbox \in UidSets,
         SameBut(inbox, touched, flags, after)
  PROVE  LET d == Responses(s, touched, after)
         IN  /\ d \in Sess /\ Honest(d, inbox, after, n)
             /\ d.phase = session[s].phase /\ d.view = session[s].view
<1> DEFINE c == session[s]
           told == [u \in Uids |-> IF u \in touched \cap inbox THEN after[u]
                                                               ELSE c.told[u]]
           d == Responses(s, touched, after)
<1>1. told \in Objects
  BY DEF Sess, Objects
<1>2. \A u \in Uids : told[u] = IF u \in touched \cap inbox THEN after[u]
                                                            ELSE c.told[u]
  OBVIOUS
<1>3. d = [c EXCEPT !.told = told]
  BY DEF Responses, Sess
<1> HIDE DEF told, d
<1>4. /\ d \in Sess /\ d.phase = c.phase /\ d.view = c.view /\ d.told = told
      /\ d.new = c.new /\ d.flagged = c.flagged /\ d.gone = c.gone
      /\ d.queued = c.queued
  BY <1>1, <1>3 DEF Sess
<1>5. Honest(d, inbox, after, n)
  BY <1>2, <1>4 DEF Honest, Explains, Told, SameBut, UidSets
<1> QED
  BY <1>4, <1>5 DEF d

LEMMA StoredStep ==
  ASSUME IInv, NEW s \in Sessions, session[s].phase \in {"selected", "fetching"},
         NEW touched \in UidSets, NEW tracked, touched \cap inbox \subseteq tracked,
         NEW op \in OpSet, NEW numbered, NEW rest,
         rest # NoFetch =>
           session[s].phase = "fetching" /\ Planned(session[s], rest),
         StoredChanges(s, touched, tracked, op, numbered, rest)
  PROVE  /\ IInv'
         /\ \A u \in touched \cap inbox : mail'[u] = Changed(op, flags[u])
         /\ \A t \in Sessions : session'[t].phase # "away" =>
              fetch'[t] = IF t = s THEN rest ELSE fetch[t]
<1> USE DEF IInv
<1> DEFINE after == Handled(touched, op)
           changed == {u \in tracked : after[u] # flags[u]}
           now == Replay(s, touched, after)
<1>1. /\ inbox \in SUBSET Uids /\ inbox \in UidSets /\ inbox = DOMAIN mail
      /\ flags \in Objects
  BY InboxIsSetOfUids DEF UidSets, Stored
<1>2. /\ after \in Objects
      /\ \A u \in Uids : u \notin touched \cap inbox => after[u] = flags[u]
      /\ \A u \in Uids : u \in touched \cap inbox =>
                           after[u] = Changed(op, flags[u])
  BY <1>1, HandledIs
<1>3. /\ mail' = [u \in DOMAIN mail |-> IF u \in changed THEN after[u] ELSE mail[u]]
      /\ flags' = after /\ known' = KnownAfter(op)
      /\ UNCHANGED <<uidNext, inbox, ghost, subscription>>
      /\ IF rest = NoFetch THEN Finish(s, now, after, numbered)
                           ELSE session' = now
      /\ Fetching([fetch EXCEPT ![s] = rest])
  BY DEF StoredChanges, StoreChanges
<1> HIDE DEF after
<1>4. \A u \in inbox : mail'[u] = after[u]
  BY <1>1, <1>2, <1>3 DEF MirrorMatches
<1>5. Stored'
  <2>1. mail' \in [DOMAIN mail' -> SUBSET Flags] /\ DOMAIN mail' = DOMAIN mail
    BY <1>1, <1>2, <1>3, <1>4 DEF Objects
  <2>2. \A u \in Uids : u >= uidNext => u \notin inbox
    <3>1. \A u \in inbox : u < uidNext
      BY <1>1 DEF Stored
    <3>2. uidNext \in Nat /\ Uids \subseteq Nat
      BY UidsAreFinite DEF Stored, Uids
    <3> QED
      BY <3>1, <3>2
  <2> QED
    BY <1>1, <1>2, <1>3, <2>1, <2>2 DEF Stored
<1>6. MirrorMatches'
  <2>1. \A u \in inbox : after[u] \cap Keywords \subseteq known'
    <3>1. \A u \in inbox : flags[u] \cap Keywords \subseteq known
      BY DEF MirrorMatches
    <3>2. known \subseteq known'
      BY <1>3 DEF KnownAfter
    <3>3. \A u \in inbox : Changed(op, flags[u]) \cap Keywords \subseteq known'
      BY <1>3, <3>1 DEF KnownAfter, Changed, OpSet
    <3> QED
      BY <1>1, <1>2, <3>1, <3>2, <3>3
  <2> QED
    BY <1>1, <1>3, <1>4, <2>1 DEF MirrorMatches
<1>7. SameBut(inbox, touched, flags, after)
      /\ SameBut(inbox, {u \in touched : after[u] # flags[u]}, flags, after)
  BY <1>1, <1>2 DEF SameBut
<1>8. /\ now \in [Sessions -> Sess]
      /\ \A t \in Sessions : GoesOn(session[t], now[t])
                             /\ Honest(now[t], inbox, after, uidNext)
      /\ now[s].phase = session[s].phase /\ now[s].view = session[s].view
  <2> DEFINE us == {u \in touched : after[u] # flags[u]}
  <2>1. now = [t \in Sessions |-> IF t = s THEN Responses(s, touched, after)
                                  ELSE Flagged(session[t], us, after)]
    BY DEF Replay
  <2>2. us \in UidSets
    BY DEF UidSets
  <2> HIDE DEF us, now
  <2>3. \A t \in Sessions : session[t] \in Sess
                            /\ Honest(session[t], inbox, flags, uidNext)
    BY DEF SessionsHonest
  <2>4. \A t \in Sessions \ {s} : Informed(now[t], session[t], inbox, after, uidNext)
    BY <1>1, <1>2, <1>7, <2>1, <2>2, <2>3, FlagsAreTold DEF us
  <2>5. /\ now[s] \in Sess /\ Honest(now[s], inbox, after, uidNext)
        /\ now[s].phase = session[s].phase /\ now[s].view = session[s].view
    BY <1>1, <1>2, <1>7, <2>1, <2>3, ResponsesAreRight
  <2>6. \A t \in Sessions : now[t] \in Sess
    BY <2>4, <2>5 DEF Informed
  <2>7. now \in [Sessions -> Sess]
    BY <2>1, <2>6
  <2> QED
    BY <2>4, <2>5, <2>7 DEF Informed, GoesOn
<1> HIDE DEF now
<1>9. /\ session' \in [Sessions -> Sess]
      /\ \A t \in Sessions : Honest(session'[t], inbox, after, uidNext)
      /\ \A t \in Sessions \ {s} : session'[t] = now[t]
      /\ IF rest = NoFetch THEN session'[s].phase = "selected"
                           ELSE session'[s] = now[s]
  <2>1. CASE rest = NoFetch
    <3>1. /\ now \in [Sessions -> Sess] /\ now[s].phase # "away"
          /\ Honest(now[s], inbox, after, uidNext)
          /\ after \in Objects /\ inbox \in SUBSET Uids
          /\ Finish(s, now, after, numbered)
      BY <1>1, <1>2, <1>3, <1>8, <2>1
    <3>2. /\ session' \in [Sessions -> Sess]
          /\ \A t \in Sessions \ {s} : session'[t] = now[t]
          /\ Honest(session'[s], inbox, after, uidNext)
          /\ session'[s].phase = "selected"
      BY <3>1, Finishing
    <3> QED
      BY <1>8, <2>1, <3>2
  <2>2. CASE rest # NoFetch
    BY <1>3, <1>8, <2>2
  <2> QED
    BY <2>1, <2>2
<1>10. SessionsHonest'
  BY <1>3, <1>9 DEF SessionsHonest
<1>11. [fetch EXCEPT ![s] = rest][s] = rest
       /\ \A t \in Sessions \ {s} : [fetch EXCEPT ![s] = rest][t] = fetch[t]
  BY DEF FetchesPlanned
<1> DEFINE f == [fetch EXCEPT ![s] = rest]
<1>12. f[s] = rest /\ \A t \in Sessions \ {s} : f[t] = fetch[t]
  BY <1>11
<1>13. Fetching(f)
  BY <1>3
<1> HIDE DEF f
<1>14. FetchesPlanned'
  <2>1. \A t \in Sessions \ {s} :
          session'[t].phase # "away" => Planned(session'[t], f[t])
    BY <1>8, <1>9, <1>12, PlanKept DEF FetchesPlanned, GoesOn
  <2>2. Planned(session'[s], f[s])
    <3>1. CASE rest = NoFetch
      BY <1>9, <1>12, <3>1 DEF Planned
    <3>2. CASE rest # NoFetch
      BY <1>8, <1>9, <1>12, <3>2, PlanKept
    <3> QED
      BY <3>1, <3>2
  <2> QED
    BY <1>13, <2>1, <2>2, FetchStep
<1>15. \A t \in Sessions : session'[t].phase # "away" =>
         fetch'[t] = IF t = s THEN rest ELSE fetch[t]
  BY <1>12, <1>13 DEF Fetching
<1> QED
  BY <1>1, <1>2, <1>4, <1>5, <1>6, <1>10, <1>14, <1>15

\* A batch still names the messages it was planned for.
LEMMA NamedIsBatch ==
  ASSUME IInv, NEW s \in Sessions, session[s].phase = "fetching",
         NEW batch \in SUBSET Todo(fetch[s])
  PROVE  Named(s, batch) = batch
<1> DEFINE f == fetch[s]
           view == session[s].view
<1>1. /\ f \in Plan /\ Todo(f) \subseteq view /\ view \in SUBSET Uids
      /\ f.numbered => \A u \in Todo(f) : f.at[u] = Rank(view, u)
  BY DEF IInv, FetchesPlanned, Planned, SessionsHonest, Sess
<1>2. CASE ~f.numbered
  BY <1>1, <1>2 DEF Named
<1>3. CASE f.numbered
  <2>1. Named(s, batch) = {u \in view : Rank(view, u) \in {f.at[v] : v \in batch}}
    BY <1>3 DEF Named, Rank
  <2>2. \A v \in batch : v \in view /\ f.at[v] = Rank(view, v)
    BY <1>1, <1>3
  <2>3. \A u, v \in view : Rank(view, u) = Rank(view, v) => u = v
    BY <1>1, RanksDiffer
  <2> HIDE DEF f, view
  <2> QED
    BY <2>1, <2>2, <2>3
<1> QED
  BY <1>2, <1>3

\* What a step that answers OK has stored of the batches it sends.
SeenStored ==
  \A s \in Sessions :
    fetch[s].seen /\ session'[s].phase # "away" =>
      \A u \in (Todo(fetch[s]) \ Todo(fetch'[s])) \cap DOMAIN mail' :
        Seen \in mail'[u]

\* What every step does.
Progress ==
  /\ IInv'
  /\ answer' = "NO" => NothingChanged
  /\ answer' = "OK" => SeenStored

LEMMA NothingSent ==
  ASSUME \A t \in Sessions : session'[t].phase # "away" =>
           fetch'[t] = fetch[t] \/ fetch[t] = NoFetch
  PROVE  SeenStored
BY DEF SeenStored, NoFetch

LEMMA FetchesKept == Fetching(fetch) => SeenStored
BY NothingSent DEF Fetching

LEMMA AtOnceStep ==
  ASSUME IInv, NEW s \in Sessions, Selected(s), NEW us \in SUBSET session[s].view,
         NEW op \in OpSet, NEW numbered,
         RunWithFlags(s, us, Addressable(s), op, numbered, NoFetch)
  PROVE  Progress
<1>1. /\ session[s].phase = "selected" /\ us \in UidSets
      /\ us \cap inbox \subseteq Addressable(s) /\ fetch[s] = NoFetch
  BY DEF Selected, IInv, SessionsHonest, Sess, UidSets, Addressable,
     FetchesPlanned, Planned
<1>2. \/ answer' = "NO" /\ IInv' /\ NothingChanged
      \/ answer' = "OK" /\ StoredChanges(s, us, Addressable(s), op, numbered, NoFetch)
  BY <1>1, RunOutcomes
<1>3. CASE answer' = "NO" /\ IInv' /\ NothingChanged
  BY <1>3 DEF Progress
<1>4. CASE answer' = "OK"
           /\ StoredChanges(s, us, Addressable(s), op, numbered, NoFetch)
  <2>1. /\ IInv'
        /\ \A t \in Sessions : session'[t].phase # "away" =>
             fetch'[t] = IF t = s THEN NoFetch ELSE fetch[t]
    <3> DEFINE rest == NoFetch
    <3>1. session[s].phase \in {"selected", "fetching"}
      BY <1>1
    <3>2. rest # NoFetch =>
            session[s].phase = "fetching" /\ Planned(session[s], rest)
      OBVIOUS
    <3>3. StoredChanges(s, us, Addressable(s), op, numbered, rest)
      BY <1>4
    <3>4. rest = NoFetch
      OBVIOUS
    <3> HIDE DEF rest
    <3>5. /\ IInv'
          /\ \A t \in Sessions : session'[t].phase # "away" =>
               fetch'[t] = IF t = s THEN rest ELSE fetch[t]
      BY <1>1, <3>1, <3>2, <3>3, StoredStep
    <3> QED
      BY <3>4, <3>5
  <2>2. SeenStored
    BY <1>1, <2>1, NothingSent
  <2> QED
    BY <1>4, <2>1, <2>2 DEF Progress
<1> QED
  BY <1>2, <1>3, <1>4

LEMMA RefuseStep ==
  ASSUME IInv, NEW s \in Sessions, Selected(s), NEW numbered, Refuse(s, numbered)
  PROVE  Progress
<1>1. session[s].phase # "away"
  BY DEF Selected
<1> QED
  BY <1>1, CommandEnds DEF Refuse, Progress

LEMMA StoreStep ==
  ASSUME IInv, NEW s \in Sessions, NEW us \in SUBSET session[s].view,
         NEW op \in Ops, NEW numbered, Store(s, us, op, numbered)
  PROVE  Progress
<1>1. Selected(s) /\ op \in OpSet
  BY OpsAreTyped DEF Store
<1> QED
  BY <1>1, RefuseStep, AtOnceStep DEF Store

LEMMA FetchCommandStep ==
  ASSUME IInv, NEW s \in Sessions, NEW us \in SUBSET session[s].view,
         NEW seen \in BOOLEAN, NEW numbered \in BOOLEAN,
         Fetch(s, us, seen, numbered)
  PROVE  Progress
<1> USE DEF IInv
<1> DEFINE c == session[s]
           plan == [asked |-> us, seen |-> seen, numbered |-> numbered,
                    at |-> [u \in us |-> IF numbered THEN Number(s, u) ELSE u]]
<1>1. Selected(s) /\ c.phase = "selected"
  BY DEF Fetch, Selected
<1>2. CASE RunWithFlags(s, us, Addressable(s), ReadOp(seen), numbered, NoFetch)
  BY <1>1, <1>2, AtOnceStep, OpsAreTyped
<1>3. CASE /\ session' = [session EXCEPT ![s].phase = "fetching"]
           /\ fetch' = [fetch EXCEPT ![s] = plan]
           /\ answer' = "OK"
           /\ UNCHANGED <<mail, uidNext, mirror, subscription>>
  <2> DEFINE d == [c EXCEPT !.phase = "fetching"]
  <2>1. UNCHANGED <<mail, uidNext, inbox, ghost, flags, known, subscription>>
    BY <1>3 DEF mirror
  <2>2. Stored' /\ MirrorMatches'
    BY <2>1 DEF Stored, MirrorMatches
  <2>3. c \in Sess /\ Honest(c, inbox, flags, uidNext) /\ c.view \in SUBSET Uids
    BY DEF SessionsHonest, Sess
  <2>4. /\ d \in Sess /\ d.phase = "fetching" /\ d.view = c.view
        /\ Honest(d, inbox, flags, uidNext)
    BY <1>1, <2>3, PhaseIs
  <2>5. /\ session' \in [Sessions -> Sess] /\ session'[s] = d
        /\ \A t \in Sessions \ {s} : session'[t] = session[t]
    BY <1>3, <2>4 DEF SessionsHonest
  <2>6. SessionsHonest'
    BY <2>1, <2>4, <2>5 DEF SessionsHonest
  <2>7. /\ us \in SUBSET Uids /\ us \subseteq Nat
        /\ \A u \in us : Rank(c.view, u) \in Nat
    <3>1. \A u \in us : {v \in c.view : v <= u} \in SUBSET Uids
      BY <2>3
    <3> QED
      BY <2>3, <3>1, UidsAreFinite DEF Uids, Rank
  <2> DEFINE places == [u \in us |-> IF numbered THEN Number(s, u) ELSE u]
  <2>8. /\ places \in [us -> Nat]
        /\ numbered => \A u \in us : places[u] = Rank(c.view, u)
    BY <2>7 DEF Number, Rank
  <2> HIDE DEF places
  <2>9. plan = [asked |-> us, seen |-> seen, numbered |-> numbered, at |-> places]
    BY DEF places
  <2> HIDE DEF plan, d
  <2>10. Planned(d, plan)
    <3>1. plan \in Plan
      BY <2>7, <2>8, <2>9 DEF Plan
    <3>2. Todo(plan) = us
      BY <2>8, <2>9 DEF Todo
    <3> QED
      BY <2>4, <2>8, <2>9, <3>1, <3>2 DEF Planned
  <2>11. FetchesPlanned'
    BY <1>3, <2>5, <2>10 DEF FetchesPlanned
  <2>12. fetch[s] = NoFetch
    BY <1>1 DEF FetchesPlanned, Planned
  <2>13. SeenStored
    <3>1. \A t \in Sessions : fetch'[t] = fetch[t] \/ fetch[t] = NoFetch
      BY <1>3, <2>12 DEF FetchesPlanned
    <3> QED
      BY <3>1, NothingSent
  <2> QED
    BY <1>3, <2>2, <2>6, <2>11, <2>13 DEF Progress
<1> QED
  BY <1>2, <1>3 DEF Fetch

LEMMA SendBatchStep ==
  ASSUME IInv, NEW s \in Sessions, SendBatch(s)
  PROVE  Progress
<1> DEFINE f == fetch[s]
           batch == FirstOf(Todo(f))
           left == Todo(f) \ batch
           tracked == IF Cardinality(f.asked) <= BatchSize THEN Addressable(s)
                                                           ELSE batch
           places == [u \in left |-> f.at[u]]
           rest == IF left = {} THEN NoFetch
                   ELSE [f EXCEPT !.at = places]
<1>1. /\ session[s].phase = "fetching" /\ f \in Plan
      /\ Todo(f) \subseteq session[s].view /\ session[s].view \in SUBSET Uids
      /\ f.numbered => \A u \in Todo(f) : f.at[u] = Rank(session[s].view, u)
  BY DEF SendBatch, IInv, FetchesPlanned, Planned, SessionsHonest, Sess
<1>2. batch \subseteq Todo(f)
  BY DEF FirstOf
<1>3. Named(s, batch) = batch
  BY <1>1, <1>2, NamedIsBatch
<1>4. RunWithFlags(s, batch, tracked, ReadOp(f.seen), f.numbered, rest)
  BY <1>3 DEF SendBatch
<1> HIDE DEF batch
<1>5. batch \in UidSets /\ batch \cap inbox \subseteq tracked
  BY <1>1, <1>2 DEF UidSets, Addressable
<1>6. rest # NoFetch => Planned(session[s], rest)
  <2> SUFFICES ASSUME left # {} PROVE Planned(session[s], rest)
    OBVIOUS
  <2>1. /\ rest = [f EXCEPT !.at = places] /\ left \in SUBSET Uids
        /\ \A u \in left : u \in Todo(f)
    BY <1>1, <1>2
  <2>2. places \in [left -> Nat] /\ \A u \in left : places[u] = f.at[u]
    BY <1>1, <2>1 DEF Plan, Todo
  <2> HIDE DEF places, left, rest
  <2>3. /\ rest \in Plan /\ rest.at = places /\ rest.numbered = f.numbered
    <3>1. f \in Plan
      BY <1>1
    <3>2. rest = [f EXCEPT !.at = places]
      BY <2>1
    <3> HIDE DEF f
    <3>3. rest = [asked |-> f.asked, seen |-> f.seen, numbered |-> f.numbered,
                  at |-> places]
      BY <3>1, <3>2 DEF Plan
    <3>4. places \in UNION {[us -> Nat] : us \in SUBSET Uids}
      BY <2>1, <2>2
    <3> QED
      BY <3>1, <3>3, <3>4 DEF Plan
  <2>4. Todo(rest) = left
    BY <2>2, <2>3 DEF Todo
  <2> QED
    BY <1>1, <2>1, <2>2, <2>3, <2>4 DEF Planned
<1>7. Todo(rest) = left
  <2>1. CASE left = {}
    BY <2>1 DEF Todo, NoFetch
  <2>2. CASE left # {}
    BY <1>1, <2>2 DEF Todo, Plan
  <2> QED
    BY <2>1, <2>2
<1>8. ReadOp(f.seen) \in OpSet
  BY OpsAreTyped
<1> HIDE DEF f, tracked, rest
<1>9. \/ answer' = "NO" /\ IInv' /\ NothingChanged
      \/ /\ answer' = "OK"
         /\ StoredChanges(s, batch, tracked, ReadOp(f.seen), f.numbered, rest)
  BY <1>1, <1>4, <1>5, <1>8, RunOutcomes
<1>10. CASE answer' = "NO" /\ IInv' /\ NothingChanged
  BY <1>10 DEF Progress
<1>11. CASE /\ answer' = "OK"
            /\ StoredChanges(s, batch, tracked, ReadOp(f.seen), f.numbered, rest)
  <2>1. /\ IInv'
        /\ \A u \in batch \cap inbox : mail'[u] = Changed(ReadOp(f.seen), flags[u])
        /\ \A t \in Sessions : session'[t].phase # "away" =>
             fetch'[t] = IF t = s THEN rest ELSE fetch[t]
    BY <1>1, <1>5, <1>6, <1>8, <1>11, StoredStep
  <2>2. inbox' = inbox /\ DOMAIN mail' = inbox
    BY <1>11, <2>1 DEF StoredChanges, IInv, MirrorMatches
  <2>3. ASSUME f.seen
        PROVE  \A u \in batch \cap DOMAIN mail' : Seen \in mail'[u]
    BY <2>1, <2>2, <2>3, OpsAreTyped DEF Changed
  <2>4. SeenStored
    BY <1>2, <1>7, <2>1, <2>3 DEF SeenStored, f
  <2> QED
    BY <1>11, <2>1, <2>4 DEF Progress
<1> QED
  BY <1>9, <1>10, <1>11

-----------------------------------------------------------------------------
(***************************************************************************)
(* EXPUNGE, the rest of a session, and the whole                           *)
(***************************************************************************)
LEMMA ExpungeStep ==
  ASSUME IInv, NEW s \in Sessions, NEW us \in SUBSET inbox,
         NEW close \in BOOLEAN, Expunge(s, us, close)
  PROVE  Progress
<1> USE DEF IInv
<1> DEFINE doomed == {u \in us : Deleted \in flags[u]}
           ghosts == ghost \cup doomed
           now == [t \in Sessions |->
                     IF t = s /\ close THEN Away
                     ELSE Expunged(session[t], doomed, ghosts)]
<1>1. /\ inbox \in SUBSET Uids /\ inbox = DOMAIN mail /\ flags \in Objects
      /\ doomed \in SUBSET inbox /\ inbox \ doomed \in SUBSET Uids
  BY InboxIsSetOfUids DEF Stored
<1>2. /\ Selected(s) /\ Fetching(fetch) /\ session[s].phase # "away"
      /\ fetch[s] = NoFetch
  BY DEF Expunge, Selected, FetchesPlanned, Planned
<1>3. CASE /\ RestoreInbox(doomed) /\ Finish(s, session, flags, FALSE)
           /\ answer' = "NO"
           /\ UNCHANGED <<mail, uidNext, flags, known, subscription>>
  <2>1. inbox' = inbox /\ ghost' = ghost
    BY <1>1, <1>3 DEF RestoreInbox, MirrorMatches
  <2>2. UNCHANGED <<mail, uidNext, mirror, subscription>>
    BY <1>3, <2>1 DEF mirror
  <2>3. Finish(s, session, flags, FALSE)
    BY <1>3
  <2>4. IInv' /\ NothingChanged
    BY <1>2, <2>2, <2>3, CommandEnds
  <2> QED
    BY <1>3, <2>4 DEF Progress
<1>4. CASE /\ mail' = [u \in DOMAIN mail \ doomed |-> mail[u]]
           /\ inbox' = inbox \ doomed /\ ghost' = ghosts
           /\ Finish(s, now, flags, FALSE)
           /\ answer' = "OK"
           /\ UNCHANGED <<uidNext, flags, known, subscription>>
  <2> HIDE DEF doomed
  <2>1. Stored'
    BY <1>1, <1>4 DEF Stored
  <2>2. MirrorMatches'
    BY <1>1, <1>4 DEF MirrorMatches
  <2> HIDE DEF ghosts
  <2>3. \A t \in Sessions : session[t] \in Sess
                            /\ Honest(session[t], inbox, flags, uidNext)
    BY DEF SessionsHonest
  <2>4. \A t \in Sessions :
          LET d == Expunged(session[t], doomed, ghosts)
          IN  /\ d \in Sess /\ GoesOn(session[t], d)
              /\ Honest(d, inbox \ doomed, flags, uidNext)
    BY <1>1, <2>3, DeletionIsTold DEF Expunged, GoesOn
  <2>5. /\ now \in [Sessions -> Sess]
        /\ \A t \in Sessions : Honest(now[t], inbox \ doomed, flags, uidNext)
        /\ \A t \in Sessions \ {s} : GoesOn(session[t], now[t])
    BY <2>4, AwayIsSession DEF Honest
  <2>6. Finish(s, now, flags, FALSE)
    BY <1>4
  <2> HIDE DEF now
  <2>7. /\ session' \in [Sessions -> Sess]
        /\ \A t \in Sessions \ {s} : session'[t] = now[t]
        /\ Honest(session'[s], inbox \ doomed, flags, uidNext)
        /\ session'[s].phase \in {"selected", "away"}
    BY <1>1, <2>5, <2>6, Finishing
  <2>8. SessionsHonest'
    BY <1>4, <2>5, <2>7 DEF SessionsHonest
  <2>9. FetchesPlanned'
    <3>1. \A t \in Sessions \ {s} :
            session'[t].phase # "away" => Planned(session'[t], fetch[t])
      BY <2>5, <2>7, PlanKept DEF FetchesPlanned, GoesOn
    <3>2. session'[s].phase # "away" => Planned(session'[s], fetch[s])
      BY <1>2, <2>7 DEF Planned
    <3> QED
      BY <1>2, <3>1, <3>2, FetchStep
  <2> QED
    BY <1>2, <1>4, <2>1, <2>2, <2>8, <2>9, FetchesKept DEF Progress
<1> QED
  BY <1>3, <1>4 DEF Expunge

\* A step of one session that hears of no change.
LEMMA BecomeStep ==
  ASSUME IInv, NEW s \in Sessions, NEW c \in Sess, Become(s, c),
         Honest(c, inbox, flags, uidNext), c.phase # "fetching",
         session[s].phase # "fetching" \/ c.phase = "away"
  PROVE  Progress
<1> USE DEF IInv
<1>1. /\ UNCHANGED <<mail, uidNext, inbox, ghost, flags, known, subscription>>
      /\ session' = [session EXCEPT ![s] = c] /\ Fetching(fetch) /\ answer' = "OK"
  BY DEF Become, mirror
<1>2. Stored' /\ MirrorMatches'
  BY <1>1 DEF Stored, MirrorMatches
<1>3. /\ session' \in [Sessions -> Sess] /\ session'[s] = c
      /\ \A t \in Sessions \ {s} : session'[t] = session[t]
  BY <1>1 DEF SessionsHonest
<1>4. SessionsHonest'
  BY <1>1, <1>3 DEF SessionsHonest
<1>5. \A t \in Sessions : session'[t].phase # "away" => Planned(session'[t], fetch[t])
  BY <1>3, PlanKept DEF FetchesPlanned
<1>6. FetchesPlanned'
  BY <1>1, <1>5, FetchStep
<1> QED
  BY <1>1, <1>2, <1>4, <1>6, FetchesKept DEF Progress

Shown(c, view, told) ==
  [c EXCEPT !.phase = "selected", !.view = view, !.told = told]

LEMMA ShownIs ==
  ASSUME NEW c \in Sess, NEW view \in UidSets, NEW told \in Objects
  PROVE  LET d == Shown(c, view, told)
         IN  /\ d \in Sess /\ d.phase = "selected" /\ d.view = view
             /\ d.told = told /\ d.new = c.new /\ d.flagged = c.flagged
             /\ d.gone = c.gone /\ d.queued = c.queued
BY DEF Sess, Shown, UidSets

LEMMA SelectStep ==
  ASSUME IInv, NEW s \in Sessions, Select(s)
  PROVE  Progress
<1> DEFINE told == [u \in Uids |-> IF u \in inbox THEN flags[u] ELSE {}]
           c == Shown(Away, inbox, told)
<1>1. Become(s, c) /\ session[s].phase # "fetching"
  BY DEF Select, Shown
<1>2. inbox \in SUBSET Uids /\ flags \in Objects /\ \A u \in inbox : u < uidNext
  BY InboxIsSetOfUids DEF IInv, Stored
<1>3. told \in Objects /\ \A u \in inbox : told[u] = flags[u]
  BY <1>2 DEF Objects
<1> HIDE DEF told
<1>4. /\ c \in Sess /\ c.phase = "selected" /\ c.view = inbox /\ c.told = told
      /\ c.new = {} /\ c.flagged = {} /\ c.gone = {} /\ c.queued = 0
  BY <1>2, <1>3, AwayIsSession, ShownIs DEF UidSets
<1> HIDE DEF c
<1>5. Honest(c, inbox, flags, uidNext)
  BY <1>2, <1>3, <1>4 DEF Honest, Explains, Told
<1> QED
  BY <1>1, <1>4, <1>5, BecomeStep

LEMMA SessionStep ==
  ASSUME IInv, NEW s \in Sessions, Leave(s) \/ Noop(s) \/ Idle(s) \/ Done(s)
  PROVE  Progress
<1> DEFINE c == session[s]
           d == Updated(c, flags)
<1>1. /\ c \in Sess /\ Honest(c, inbox, flags, uidNext) /\ flags \in Objects
      /\ inbox \in SUBSET Uids
  BY InboxIsSetOfUids DEF IInv, SessionsHonest, Stored
<1>2. d \in Sess /\ d.phase = c.phase /\ Honest(d, inbox, flags, uidNext)
  BY <1>1, UpdatedIs, UpdateIsHonest
<1>3. CASE Leave(s)
  <2>1. Become(s, Away)
    BY <1>3 DEF Leave
  <2>2. Honest(Away, inbox, flags, uidNext)
    BY AwayIsSession DEF Honest
  <2> QED
    BY <2>1, <2>2, AwayIsSession, BecomeStep
<1>4. CASE Noop(s)
  <2>1. Become(s, d) /\ c.phase = "selected"
    BY <1>4 DEF Noop, Selected
  <2> HIDE DEF d
  <2> QED
    BY <1>2, <2>1, BecomeStep
<1>5. CASE Idle(s)
  <2> DEFINE e == [d EXCEPT !.phase = "idle"]
  <2>1. Become(s, e) /\ c.phase = "selected"
    BY <1>5 DEF Idle, Selected
  <2>2. e \in Sess /\ e.phase = "idle" /\ Honest(e, inbox, flags, uidNext)
    BY <1>2, <2>1, PhaseIs
  <2> HIDE DEF e
  <2> QED
    BY <2>1, <2>2, BecomeStep
<1>6. CASE Done(s)
  <2> DEFINE e == [c EXCEPT !.phase = "selected"]
  <2>1. Become(s, e) /\ c.phase = "idle"
    BY <1>6 DEF Done
  <2>2. e \in Sess /\ e.phase = "selected" /\ Honest(e, inbox, flags, uidNext)
    BY <1>1, <2>1, PhaseIs
  <2> HIDE DEF e
  <2> QED
    BY <2>1, <2>2, BecomeStep
<1> QED
  BY <1>3, <1>4, <1>5, <1>6

LEMMA SubscribeStep ==
  ASSUME IInv, NEW value \in Subscriptions, Subscribe(value)
  PROVE  Progress
<1>1. UNCHANGED <<mail, uidNext, inbox, ghost, flags, known, session, fetch>>
  BY DEF Subscribe, mirror
<1>2. \/ answer' = "OK" /\ subscription'.stored = subscription'.shown
      \/ answer' = "NO" /\ UNCHANGED subscription
  BY DEF Subscribe
<1>3. IInv'
  BY <1>1, <1>2 DEF IInv, Stored, MirrorMatches, SessionsHonest, FetchesPlanned
<1>4. answer' = "NO" => NothingChanged
  BY <1>1, <1>2 DEF NothingChanged
<1>5. SeenStored
  BY <1>1, NothingSent
<1> QED
  BY <1>3, <1>4, <1>5 DEF Progress

LEMMA ElsewhereStep ==
  ASSUME IInv, Elsewhere
  PROVE  Progress
<1>1. IInv'
  BY InsertStep, DeleteStep, FlagStep DEF Elsewhere
<1>2. answer' = "OK" /\ Fetching(fetch)
  BY DEF Elsewhere, Insert, DeleteElsewhere, FlagElsewhere
<1> QED
  BY <1>1, <1>2, FetchesKept DEF Progress

LEMMA NextStep ==
  ASSUME IInv, Next
  PROVE  Progress
<1>1. ASSUME NEW s \in Sessions, Command(s)
      PROVE  Progress
  <2>1. ASSUME NEW us \in SUBSET session[s].view, NEW numbered \in BOOLEAN,
               \/ \E op \in Ops : Store(s, us, op, numbered)
               \/ \E seen \in BOOLEAN : Fetch(s, us, seen, numbered)
        PROVE  Progress
    BY <2>1, StoreStep, FetchCommandStep
  <2>2. ASSUME NEW numbered \in BOOLEAN, RefuseFetch(s, numbered)
        PROVE  Progress
    BY <2>2, RefuseStep DEF RefuseFetch
  <2>3. CASE SendBatch(s)
    BY <2>3, SendBatchStep
  <2>4. ASSUME NEW us \in SUBSET inbox, NEW close \in BOOLEAN,
               Expunge(s, us, close)
        PROVE  Progress
    BY <2>4, ExpungeStep
  <2>5. CASE Select(s)
    BY <2>5, SelectStep
  <2>6. CASE Leave(s) \/ Noop(s) \/ Idle(s) \/ Done(s)
    BY <2>6, SessionStep
  <2> QED
    BY <1>1, <2>1, <2>2, <2>3, <2>4, <2>5, <2>6 DEF Command
<1> QED
  BY <1>1, ElsewhereStep, SubscribeStep DEF Next

LEMMA InitIInv == Init => IInv
<1> SUFFICES ASSUME Init PROVE IInv
  OBVIOUS
<1>1. PICK m \in OpenedMail, n \in 1..(MaxUid + 1), value \in Subscriptions :
        /\ \A u \in DOMAIN m : u < n
        /\ mail = m /\ uidNext = n /\ inbox = DOMAIN m /\ ghost = {}
        /\ flags = [u \in Uids |-> IF u \in DOMAIN m THEN m[u] ELSE {}]
        /\ known = (UNION {m[u] : u \in DOMAIN m}) \cap Keywords
        /\ subscription = [stored |-> value, shown |-> value]
        /\ session = [s \in Sessions |-> Away]
        /\ fetch = [s \in Sessions |-> NoFetch]
  BY DEF Init
<1>2. DOMAIN m \subseteq Uids /\ m \in [DOMAIN m -> SUBSET Flags]
  BY OpenedMailAssumption
<1>3. Stored
  <2>1. flags \in Objects
    BY <1>1, <1>2 DEF Objects
  <2>2. \A u \in Uids : u >= n => u \notin DOMAIN m
    BY <1>1, UidsAreFinite DEF Uids
  <2> QED
    BY <1>1, <1>2, <2>1, <2>2 DEF Stored
<1>4. MirrorMatches
  BY <1>1, <1>2 DEF MirrorMatches
<1>5. SessionsHonest
  BY <1>1, AwayIsSession DEF SessionsHonest, Honest
<1>6. FetchesPlanned
  BY <1>1, AwayIsSession DEF FetchesPlanned, Planned
<1> QED
  BY <1>3, <1>4, <1>5, <1>6 DEF IInv

LEMMA Inductive == Spec => []IInv
<1>1. IInv /\ [Next]_vars => IInv'
  <2>1. IInv /\ UNCHANGED vars => IInv'
    BY DEF IInv, Stored, MirrorMatches, SessionsHonest, FetchesPlanned, vars
  <2> QED
    BY <2>1, NextStep DEF Progress
<1> QED
  BY <1>1, InitIInv, PTL DEF Spec

-----------------------------------------------------------------------------
(***************************************************************************)
(* The theorems                                                            *)
(***************************************************************************)
\* MirrorMatches: ImapKit's INBOX has the stored messages with their flags,
\* after every command, refused and rolled back ones included, and after every
\* change of another surface.
THEOREM MirrorIsTrue == Spec => []MirrorMatches
BY Inductive, PTL DEF IInv

\* UpdatesExplainMailbox: what a session has been shown and what is queued for
\* it add up to the mailbox, for any limit on its queue.
THEOREM SessionsCanFollow == Spec => []UpdatesExplainMailbox
<1>1. IInv => UpdatesExplainMailbox
  BY DEF IInv, SessionsHonest, Honest, Explains, UpdatesExplainMailbox
<1> QED
  BY <1>1, Inductive, PTL

\* ToldWhatIsStored: the flags a session was last told are the stored ones, or
\* the change is queued for it.
THEOREM FlagsReachSessions == Spec => []ToldWhatIsStored
<1>1. IInv => ToldWhatIsStored
  BY DEF IInv, MirrorMatches, SessionsHonest, Honest, Told, ToldWhatIsStored
<1> QED
  BY <1>1, Inductive, PTL

\* FetchKeepsNumbers: the batches of a FETCH answer the messages it named, for
\* any size of mailbox, batch and view.
THEOREM NumbersAreKept == Spec => []FetchKeepsNumbers
<1>1. IInv => FetchKeepsNumbers
  BY NamedIsBatch DEF FetchKeepsNumbers
<1> QED
  BY <1>1, Inductive, PTL

\* RefusedRunChangesNothing: the run of a handler that was refused, one batch
\* of a FETCH among them, has changed neither the mailbox nor the mirror, nor
\* any session but by updates it had queued.
THEOREM RefusedRunsAreUndone == Spec => RefusedRunChangesNothing
<1>1. IInv /\ [Next]_vars =>
        [answer' = "NO" => NothingChanged]_vars
  BY NextStep DEF Progress
<1>2. IInv /\ [Next]_vars =>
        [answer' = "NO" =>
           /\ UNCHANGED <<mail, inbox, ghost, flags, known, subscription>>
           /\ \A s \in Sessions :
                /\ session'[s].new \subseteq session[s].new
                /\ session'[s].flagged \subseteq session[s].flagged
                /\ session'[s].gone \subseteq session[s].gone
                /\ \A u \in inbox :
                     session'[s].told[u] \in {session[s].told[u], mail[u]}]_vars
  BY <1>1 DEF NothingChanged
<1> QED
  BY <1>2, Inductive, PTL DEF Spec, RefusedRunChangesNothing

\* BodySentIsSeen: a batch that sets \Seen and is not refused leaves its
\* messages stored as seen.
THEOREM BatchesAreSeen == Spec => BodySentIsSeen
<1>1. IInv /\ [Next]_vars => [answer' = "OK" => SeenStored]_vars
  BY NextStep DEF Progress
<1>2. IInv /\ [Next]_vars =>
        [answer' = "OK" =>
           \A s \in Sessions :
             fetch[s].seen /\ session'[s].phase # "away" =>
               \A u \in (Todo(fetch[s]) \ Todo(fetch'[s])) \cap DOMAIN mail' :
                 Seen \in mail'[u]]_vars
  BY <1>1 DEF SeenStored
<1> QED
  BY <1>2, Inductive, PTL DEF Spec, BodySentIsSeen
=============================================================================
