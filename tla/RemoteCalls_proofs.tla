------------------------ MODULE RemoteCalls_proofs -------------------------
(***************************************************************************)
(* Theorems about remote calls, for every set of calls, every set of       *)
(* things a caller asks, every number of slots and every id.               *)
(*                                                                         *)
(* The invariant says of each call alone how far it and its request are    *)
(* (EachUnderway), that whatever is known of a deletion at the server, on  *)
(* the way back or at the caller is true (EachHonest), and that the cursor *)
(* of a repeated wait lies at no match that is still stored (EachCursor).  *)
(* SlotsAreHeld counts over all calls.  A step moves one call and its      *)
(* request, so that each action needs only the facts of that call; what    *)
(* deletes or adds mail, stops or starts the server moves all of them in   *)
(* the same way.                                                           *)
(***************************************************************************)
EXTENDS RemoteCalls, FiniteSetTheorems, WellFoundedInduction, TLAPS

AnyAsk == {Idle.ask} \cup (UNION {Asks[c] : c \in Calls})

\* The words of answers and outcomes.
Words ==
  Refusals \cup
    {"none", "OK", "PENDING", "INTERNAL", "CANCELLED", "INVALID_CURSOR",
     "SHUTTING_DOWN", "FOREIGN", "INVALID_RESPONSE", "SERVER_UNAVAILABLE",
     "ABORTED", "TIMEOUT", "NETWORK", "TIMED_OUT"}

CallRecord ==
  [is: {"idle", "open", "ended"}, ask: AnyAsk,
   aborted: BOOLEAN, timedOut: BOOLEAN, lost: BOOLEAN, proxied: BOOLEAN,
   overdue: BOOLEAN, outcome: Words, start: Int, after: Int, mailbox: Int]

AnswerRecord == [status: Int, code: Words, data: Int, mailbox: Int, mark: Int]

Progress == {"fetching", "waiting", "answering"}
RequestRecord ==
  [is: {"none", "arriving", "delivered"} \cup Progress,
   atOnce: BOOLEAN, signal: BOOLEAN, released: BOOLEAN, answer: AnswerRecord]

MailboxRecord ==
  [id: Nat \ {0}, last: 0..MaxId, stored: SUBSET Nat, matching: SUBSET Nat]

BoxTyped ==
  box \in MailboxRecord /\ box.stored \cup box.matching \subseteq 1..box.last

Typed ==
  /\ BoxTyped
  /\ call \in [Calls -> CallRecord]
  /\ request \in [Calls -> RequestRecord]
  /\ removed \in [Calls -> SUBSET Nat]
  /\ up \in {"up", "stopping", "down"}

-----------------------------------------------------------------------------
(***************************************************************************)
(* What holds of a call k, its request q, the mail r it removed, the       *)
(* mailbox b and the server u.                                             *)
(***************************************************************************)
ViaMcp(k) == k.ask.via \in {"mcp", "legacy", "bridge"}

Underway(k, q, u) ==
  /\ k.is = "idle" => q.is = "none"
  /\ q.is = "fetching" => ViaMcp(k)
  /\ q.is = "waiting" => k.ask.op = "wait"
  /\ q.is \in Progress => u # "down" /\ (q.released <=> q.signal)
  /\ q.is \in {"arriving", "waiting"} => ~q.signal /\ ~q.released

\* What a code tells of the mail a call removed.
Tells(code, ask, r) ==
  /\ code \in Refusals => r = {}
  /\ code = "OK" /\ ask.op = "delete" => r = {ask.id}
  /\ code = "OK" /\ ask.op = "clear" => ask.expected \in {Absent, Cardinality(r)}

Honest(k, q, r) ==
  /\ k.is = "idle" \/ k.ask.op \notin {"delete", "clear"} => r = {}
  /\ q.is \in {"arriving", "fetching", "waiting"} => r = {}
  /\ q.is \in {"answering", "delivered"} => Tells(q.answer.code, k.ask, r)
  /\ k.is = "ended" /\ k.outcome \in Refusals \cup {"OK"} =>
       q.is = "none" /\ Tells(k.outcome, k.ask, r)

Following(k) == k.ask.via = "cli" /\ k.ask.op = "wait"

\* No stored match is above i and not above j.
NoneBetween(b, i, j) == \A m \in b.stored \cap b.matching : ~(i < m /\ m <= j)

\* A cursor that moved has moved over mail of the mailbox it names, and over
\* no match that is still stored.
Followed(k, b) ==
  k.start # Absent /\ k.start # k.after =>
    /\ k.mailbox \in 1..b.id
    /\ k.mailbox = b.id =>
         k.after <= b.last /\ NoneBetween(b, k.start, k.after)

\* The answers that will move it: no match is up to their mark.
Looked(k, q, b) ==
  q.is \in {"answering", "delivered"} /\ q.answer.code = "OK" =>
    /\ q.answer.mailbox \in 1..b.id /\ q.answer.mark \in Nat
    /\ q.answer.mailbox = b.id =>
         /\ q.answer.mark <= b.last
         /\ Following(k) /\ k.after # Absent /\ q.answer.data = 0 =>
              /\ k.mailbox \in {Absent, b.id}
              /\ NoneBetween(b, k.after, q.answer.mark)

Pending(k, q, b) ==
  q.is = "waiting" /\ Following(k) =>
    /\ k.after # Absent /\ k.mailbox \in {Absent, b.id}
    /\ \A m \in b.stored \cap b.matching : m <= k.after

Cursor(k, q, b) ==
  /\ k.is = "open" => (k.start = Absent <=> k.after = Absent)
  /\ Followed(k, b) /\ Looked(k, q, b) /\ Pending(k, q, b)

EachUnderway == \A c \in Calls : Underway(call[c], request[c], up)
EachHonest == \A c \in Calls : Honest(call[c], request[c], removed[c])
EachCursor == \A c \in Calls : Cursor(call[c], request[c], box)

IInv == Typed /\ EachUnderway /\ EachHonest /\ EachCursor /\ SlotsAreHeld

LEMMA Least ==
  ASSUME NEW ids \in SUBSET Nat, ids # {}
  PROVE  First(ids) \in ids /\ \A n \in ids : First(ids) <= n
  <1> DEFINE Below == {pair \in Nat \X Nat : pair[1] < pair[2]}
  <1>1. IsWellFoundedOn(Below, Nat)
    BY NatLessThanWellFounded DEF OpToRel
  <1> HIDE DEF Below
  <1>2. PICK m \in ids : \A n \in ids : <<n, m>> \notin Below
    BY <1>1, WFMin
  <1>3. \A n \in ids : m <= n
    <2> TAKE n \in ids
    <2>1. n \in Nat /\ m \in Nat
      OBVIOUS
    <2>2. n < m => <<n, m>> \in Below
      BY <2>1 DEF Below
    <2>3. ~(n < m)
      BY <1>2, <2>2
    <2> QED
      BY <2>1, <2>3
  <1> QED
    BY <1>3 DEF First

-----------------------------------------------------------------------------
(***************************************************************************)
(* Answers and requests                                                    *)
(***************************************************************************)
LEMMA StatusIsInt == \A code : Status(code) \in Int
  BY DEF Status

\* The words by themselves, so that proofs need not look the sets up.
LEMMA WordsAre ==
  /\ Refusals \subseteq Words
  /\ "none" \in Words /\ "OK" \in Words /\ "PENDING" \in Words
  /\ "INTERNAL" \in Words /\ "CANCELLED" \in Words
  /\ "INVALID_CURSOR" \in Words /\ "SHUTTING_DOWN" \in Words
  /\ "FOREIGN" \in Words /\ "INVALID_RESPONSE" \in Words
  /\ "SERVER_UNAVAILABLE" \in Words /\ "ABORTED" \in Words
  /\ "TIMEOUT" \in Words /\ "NETWORK" \in Words /\ "TIMED_OUT" \in Words
  BY DEF Words

LEMMA RefusalsAre ==
  /\ "REJECTED" \in Refusals /\ "usage" \in Refusals /\ "answered" \in Refusals
  /\ "UNKNOWN_TOOL" \in Refusals /\ "FORBIDDEN_HOST" \in Refusals
  /\ "FORBIDDEN_ORIGIN" \in Refusals /\ "UNAUTHORIZED" \in Refusals
  /\ "TOO_MANY_REQUESTS" \in Refusals /\ "INVALID_ARGUMENT" \in Refusals
  /\ "EMAIL_NOT_FOUND" \in Refusals /\ "COUNT_CHANGED" \in Refusals
  /\ "LIMIT_EXCEEDED" \in Refusals
  BY DEF Refusals

LEMMA NotRefusals ==
  {"none", "OK", "PENDING", "INTERNAL", "CANCELLED", "INVALID_CURSOR",
   "SHUTTING_DOWN", "FOREIGN", "INVALID_RESPONSE", "SERVER_UNAVAILABLE",
   "ABORTED", "TIMEOUT", "NETWORK", "TIMED_OUT"} \cap Refusals = {}
  BY DEF Refusals

LEMMA NoAnswerTyped == NoAnswer \in AnswerRecord
  BY WordsAre DEF NoAnswer, AnswerRecord

LEMMA UnsentTyped ==
  /\ Unsent \in RequestRecord /\ Unsent.is = "none"
  /\ Sent \in RequestRecord /\ Sent.is = "arriving"
  /\ Sent.signal = FALSE /\ Sent.released = FALSE
  <1>1. Unsent \in RequestRecord /\ Unsent.is = "none"
        /\ Unsent.signal = FALSE /\ Unsent.released = FALSE
    BY NoAnswerTyped DEF Unsent, RequestRecord
  <1>2. Sent = [Unsent EXCEPT !.is = "arriving"]
    BY DEF Sent
  <1> QED
    BY <1>1, <1>2 DEF RequestRecord

LEMMA AnswerTyped ==
  ASSUME NEW code \in Words
  PROVE  Answer(code) \in AnswerRecord /\ Answer(code).code = code
  <1>1. Status(code) \in Int
    BY StatusIsInt
  <1> DEFINE status == Status(code)
  <1>2. Answer(code) = [NoAnswer EXCEPT !.code = code, !.status = status]
    BY DEF Answer
  <1>3. status \in Int
    BY <1>1
  <1> HIDE DEF status
  <1> QED
    BY <1>2, <1>3, NoAnswerTyped DEF AnswerRecord

\* An answer of now: the mailbox and how far it has come.
FoundNow(a) ==
  a.code = "OK" /\ a.mailbox = box.id /\ a.mark = box.last

LEMMA FoundTyped ==
  ASSUME box \in MailboxRecord, NEW data \in Int
  PROVE  /\ Found(data) \in AnswerRecord /\ FoundNow(Found(data))
         /\ Found(data).data = data
  <1>1. box.id \in Int /\ box.last \in Int
    BY RemoteAssumption DEF MailboxRecord
  <1>2. Found(data) = [NoAnswer EXCEPT !.code = "OK", !.data = data,
                         !.mailbox = box.id, !.mark = box.last]
    BY DEF Found
  <1> QED
    BY <1>1, <1>2, NoAnswerTyped, WordsAre DEF AnswerRecord, FoundNow

\* The same answer but for its status.
Alike(a, b) ==
  a.code = b.code /\ a.data = b.data /\ a.mailbox = b.mailbox /\ a.mark = b.mark

LEMMA AnsweredTyped ==
  ASSUME NEW c \in Calls, request[c] \in RequestRecord, NEW answer \in AnswerRecord
  PROVE  /\ Answered(c, answer) \in RequestRecord
         /\ Answered(c, answer).is = "answering"
         /\ Answered(c, answer).signal = request[c].signal
         /\ Answered(c, answer).released = request[c].released
         /\ Alike(Answered(c, answer).answer, answer)
  <1> DEFINE told == IF Mcp(c) THEN [answer EXCEPT !.status = 200] ELSE answer
  <1>1. told \in AnswerRecord /\ Alike(told, answer)
    BY DEF AnswerRecord, Alike
  <1>2. Answered(c, answer) = [request[c] EXCEPT !.is = "answering", !.answer = told]
    BY DEF Answered
  <1> HIDE DEF told
  <1>3. Answered(c, answer).answer = told
    BY <1>2 DEF RequestRecord
  <1>4. Answered(c, answer) \in RequestRecord
    BY <1>1, <1>2 DEF RequestRecord, Progress
  <1> QED
    BY <1>1, <1>2, <1>3, <1>4 DEF RequestRecord

-----------------------------------------------------------------------------
(***************************************************************************)
(* How the parts of the invariant move                                     *)
(***************************************************************************)
Sound(k, q, r, b, u) == Underway(k, q, u) /\ Honest(k, q, r) /\ Cursor(k, q, b)

Matches(b) == b.stored \cap b.matching

\* Mail went, or came and matches nothing.
Thinned(b, b2) ==
  b2.id = b.id /\ b.last <= b2.last /\ Matches(b2) \subseteq Matches(b)

\* Mail came, or another mailbox did.
MovedOn(b, b2) ==
  \/ b2.id > b.id
  \/ /\ b2.id = b.id /\ b.last <= b2.last
     /\ \A m \in Matches(b2) : m \in Matches(b) \/ m > b.last

LEMMA CursorThinned ==
  ASSUME NEW b \in MailboxRecord, NEW b2 \in MailboxRecord, Thinned(b, b2),
         NEW k \in CallRecord, NEW q \in RequestRecord, Cursor(k, q, b)
  PROVE  Cursor(k, q, b2)
  <1>1. /\ b.last \in Int /\ b2.last \in Int /\ k.after \in Int
        /\ q.answer.mark \in Int /\ q.answer.mailbox \in Int
    BY RemoteAssumption DEF MailboxRecord, CallRecord, RequestRecord, AnswerRecord
  <1>2. \A i, j : NoneBetween(b, i, j) => NoneBetween(b2, i, j)
    BY DEF Thinned, Matches, NoneBetween
  <1>3. Followed(k, b2)
    BY <1>1, <1>2 DEF Cursor, Followed, Thinned
  <1>4. Looked(k, q, b2)
    BY <1>1, <1>2 DEF Cursor, Looked, Thinned
  <1>5. Pending(k, q, b2)
    BY DEF Cursor, Pending, Thinned, Matches
  <1> QED
    BY <1>3, <1>4, <1>5 DEF Cursor

LEMMA CursorMoves ==
  ASSUME NEW b \in MailboxRecord, NEW b2 \in MailboxRecord, MovedOn(b, b2),
         NEW k \in CallRecord, NEW q \in RequestRecord, Cursor(k, q, b),
         q.is # "waiting"
  PROVE  Cursor(k, q, b2)
  <1>1. /\ b.last \in Int /\ b2.last \in Int /\ k.after \in Int /\ k.mailbox \in Int
        /\ q.answer.mark \in Int /\ q.answer.mailbox \in Int
        /\ b.id \in Int /\ b2.id \in Int
    BY RemoteAssumption DEF MailboxRecord, CallRecord, RequestRecord, AnswerRecord
  <1>2. \A m \in Matches(b2) : m \in Int
    BY DEF Matches, MailboxRecord
  <1>3. Pending(k, q, b2)
    BY DEF Pending
  <1>4. CASE b2.id > b.id
    <2>1. Followed(k, b2)
      BY <1>1, <1>4 DEF Cursor, Followed
    <2>2. Looked(k, q, b2)
      BY <1>1, <1>4 DEF Cursor, Looked
    <2> QED
      BY <1>3, <2>1, <2>2 DEF Cursor
  <1>5. CASE ~(b2.id > b.id)
    <2>1. \A i : \A j \in Int : j <= b.last /\ NoneBetween(b, i, j)
                                  => NoneBetween(b2, i, j)
      BY <1>1, <1>2, <1>5 DEF MovedOn, NoneBetween, Matches
    <2>2. b2.id = b.id /\ b.last <= b2.last
      BY <1>5 DEF MovedOn
    <2>3. Followed(k, b2)
      BY <1>1, <2>1, <2>2 DEF Cursor, Followed
    <2>4. Looked(k, q, b2)
      BY <1>1, <2>1, <2>2 DEF Cursor, Looked
    <2> QED
      BY <1>3, <2>3, <2>4 DEF Cursor
  <1> QED
    BY <1>4, <1>5

\* What the invariant says of a call does not depend on its troubles.
SameCall(k, k2) ==
  /\ k2.is = k.is /\ k2.ask = k.ask /\ k2.outcome = k.outcome
  /\ k2.start = k.start /\ k2.after = k.after /\ k2.mailbox = k.mailbox

LEMMA SoundTroubled ==
  ASSUME NEW k, NEW k2, SameCall(k, k2), NEW q, NEW r, NEW b, NEW u,
         Sound(k, q, r, b, u)
  PROVE  Sound(k2, q, r, b, u)
  <1> USE DEF SameCall, Sound
  <1>1. Underway(k2, q, u)
    BY DEF Underway, ViaMcp
  <1>2. Honest(k2, q, r)
    BY DEF Honest
  <1>3. Cursor(k2, q, b)
    BY DEF Cursor, Followed, Looked, Pending, Following
  <1> QED
    BY <1>1, <1>2, <1>3

\* A call ends, and with it what it may go on to follow.
SameEnd(k, k2, outcome) ==
  /\ k2.is = "ended" /\ k2.outcome = outcome /\ k2.start = Absent
  /\ k2.ask = k.ask /\ k2.after = k.after /\ k2.mailbox = k.mailbox

\* It ends without an answer: whatever its request does, nothing was said.
LEMMA SoundGivenUp ==
  ASSUME NEW k, NEW k2, NEW outcome, SameEnd(k, k2, outcome),
         outcome \notin Refusals \cup {"OK"}, k.is = "open",
         NEW q, NEW r, NEW b, NEW u, Sound(k, q, r, b, u)
  PROVE  Sound(k2, q, r, b, u)
  <1> USE DEF SameEnd, Sound
  <1>1. Underway(k2, q, u)
    BY DEF Underway, ViaMcp
  <1>2. Honest(k2, q, r)
    BY DEF Honest
  <1>3. Cursor(k2, q, b)
    BY DEF Cursor, Followed, Looked, Pending, Following
  <1> QED
    BY <1>1, <1>2, <1>3

\* It ends with the answer delivered.
LEMMA SoundReceived ==
  ASSUME NEW k, NEW k2, NEW outcome, SameEnd(k, k2, outcome), k.is = "open",
         NEW q, q.is = "delivered", NEW q2, q2.is = "none",
         NEW r, NEW b, NEW u, Sound(k, q, r, b, u),
         outcome = q.answer.code \/ outcome \notin Refusals \cup {"OK"}
  PROVE  Sound(k2, q2, r, b, u)
  <1> USE DEF SameEnd, Sound
  <1>1. Underway(k2, q2, u)
    BY DEF Underway, Progress
  <1>2. Honest(k2, q2, r)
    BY DEF Honest
  <1>3. Cursor(k2, q2, b)
    BY DEF Cursor, Followed, Looked, Pending
  <1> QED
    BY <1>1, <1>2, <1>3

\* A request comes to its answer, or its answer to the caller.
LEMMA SoundAnswered ==
  ASSUME NEW k, NEW q, NEW q2, NEW r, NEW r2, NEW b, NEW b2, NEW u,
         Sound(k, q, r, b, u),
         q.is \in {"arriving", "fetching", "waiting", "answering"},
         \/ q2.is = "answering" /\ u # "down" /\ (q2.released <=> q2.signal)
         \/ q2.is = "delivered",
         Tells(q2.answer.code, k.ask, r2),
         k.ask.op \notin {"delete", "clear"} => r2 = {},
         Looked(k, q2, b2), Followed(k, b2)
  PROVE  Sound(k, q2, r2, b2, u)
  <1> USE DEF Sound
  <1>1. k.is # "idle" /\ q.is # "none"
    BY DEF Underway
  <1>2. Underway(k, q2, u)
    BY <1>1 DEF Underway, Progress
  <1>3. Honest(k, q2, r2)
    BY <1>1 DEF Honest
  <1>4. Cursor(k, q2, b2)
    BY DEF Cursor, Pending
  <1> QED
    BY <1>2, <1>3, <1>4

\* An answer that is no success promises nothing, and moves no cursor.
LEMMA SoundRefused ==
  ASSUME NEW k, NEW q, NEW q2, NEW r, NEW b, NEW u,
         Sound(k, q, r, b, u),
         q.is \in {"arriving", "fetching", "waiting"},
         \/ q2.is = "answering" /\ u # "down" /\ (q2.released <=> q2.signal)
         \/ q2.is = "delivered",
         q2.answer.code # "OK"
  PROVE  Sound(k, q2, r, b, u)
  <1>1. r = {}
    BY DEF Sound, Honest
  <1>2. Tells(q2.answer.code, k.ask, r)
    BY <1>1 DEF Tells
  <1>3. Looked(k, q2, b) /\ Followed(k, b)
    BY DEF Looked, Sound, Cursor
  <1> QED
    BY <1>1, <1>2, <1>3, SoundAnswered

-----------------------------------------------------------------------------
(***************************************************************************)
(* The two counters                                                        *)
(***************************************************************************)
Holds(k, q) == ViaMcp(k) /\ q.is \in Progress /\ ~q.signal
Waits(k, q) == ViaMcp(k) /\ q.is = "waiting"

Held == {c \in Calls : Holds(call[c], request[c])}
Queue == {c \in Calls : Waits(call[c], request[c])}

Counted ==
  /\ active = Cardinality(Held) /\ active <= MaxMcpRequests
  /\ waits = Cardinality(Queue) /\ waits <= MaxMcpWaits

LEMMA Counters == SlotsAreHeld <=> Counted
  <1>1. Held = {c \in Calls : Mcp(c) /\ InProgress(c) /\ ~request[c].signal}
    BY DEF Held, Holds, ViaMcp, Mcp, Ask, InProgress, Progress
  <1>2. Queue = {c \in Waiting : Mcp(c)}
    BY DEF Queue, Waits, ViaMcp, Waiting, Mcp, Ask
  <1> QED
    BY <1>1, <1>2 DEF SlotsAreHeld, Counted

\* One call comes under a counter, leaves it, or neither.
CountMoves(n, n2, was, is, max) ==
  /\ (was <=> is) => n2 = n
  /\ ~was /\ is => n2 = n + 1 /\ n < max
  /\ was /\ ~is => n2 = n - 1

AlikeBut(A, B, c) == \A d \in Calls : d # c => (d \in A <=> d \in B)
SetMoves(n, n2, A, B, c, max) == CountMoves(n, n2, c \in A, c \in B, max)

LEMMA OneCount ==
  ASSUME NEW A \in SUBSET Calls, NEW B \in SUBSET Calls, NEW c \in Calls,
         AlikeBut(A, B, c),
         NEW max \in Nat, NEW n, NEW n2, n = Cardinality(A), n <= max,
         SetMoves(n, n2, A, B, c, max)
  PROVE  n2 = Cardinality(B) /\ n2 <= max
  <1> USE DEF AlikeBut, SetMoves
  <1>1. IsFiniteSet(A) /\ IsFiniteSet(B)
    BY RemoteAssumption, FS_Subset
  <1>2. Cardinality(A) \in Nat /\ Cardinality(B) \in Nat
    BY <1>1, FS_CardinalityType
  <1>3. CASE c \in A <=> c \in B
    <2>1. A = B
      BY <1>3
    <2> QED
      BY <1>3, <2>1 DEF CountMoves
  <1>4. CASE c \notin A /\ c \in B
    <2>1. B = A \cup {c}
      BY <1>4
    <2>2. Cardinality(B) = Cardinality(A) + 1
      BY <1>1, <1>4, <2>1, FS_AddElement
    <2> QED
      BY <1>2, <1>4, <2>2 DEF CountMoves
  <1>5. CASE c \in A /\ c \notin B
    <2>1. B = A \ {c}
      BY <1>5
    <2>2. Cardinality(B) = Cardinality(A) - 1
      BY <1>1, <1>5, <2>1, FS_RemoveElement
    <2> QED
      BY <1>2, <1>5, <2>2 DEF CountMoves
  <1> QED
    BY <1>3, <1>4, <1>5

-----------------------------------------------------------------------------
(***************************************************************************)
(* A step of one call                                                      *)
(***************************************************************************)
EachSound == \A c \in Calls : Sound(call[c], request[c], removed[c], box, up)

LEMMA Parts == IInv <=> Typed /\ EachSound /\ SlotsAreHeld
  BY DEF IInv, EachSound, Sound, EachUnderway, EachHonest, EachCursor

LEMMA OneMoves ==
  ASSUME IInv, NEW c \in Calls,
         NEW k2 \in CallRecord, NEW q2 \in RequestRecord, NEW r2 \in SUBSET Nat,
         call' = [call EXCEPT ![c] = k2],
         request' = [request EXCEPT ![c] = q2],
         removed' = [removed EXCEPT ![c] = r2],
         BoxTyped', Thinned(box, box'), up' = up,
         Sound(k2, q2, r2, box', up),
         CountMoves(active, active', Holds(call[c], request[c]), Holds(k2, q2),
                    MaxMcpRequests),
         CountMoves(waits, waits', Waits(call[c], request[c]), Waits(k2, q2),
                    MaxMcpWaits)
  PROVE  IInv'
  <1>1. Typed /\ EachSound /\ Counted
    BY Parts, Counters
  <1>2. Typed'
    BY <1>1 DEF Typed
  <1>3. call'[c] = k2 /\ request'[c] = q2 /\ removed'[c] = r2
    BY <1>1 DEF Typed
  <1>4. \A d \in Calls : d # c =>
          call'[d] = call[d] /\ request'[d] = request[d] /\ removed'[d] = removed[d]
    BY <1>1 DEF Typed
  <1>5. ASSUME NEW d \in Calls
        PROVE  Sound(call'[d], request'[d], removed'[d], box', up')
    <2>1. CASE d = c
      BY <1>3, <2>1
    <2>2. CASE d # c
      <3>1. Sound(call[d], request[d], removed[d], box, up)
        BY <1>1 DEF EachSound
      <3>2. call[d] \in CallRecord /\ request[d] \in RequestRecord
            /\ box \in MailboxRecord /\ box' \in MailboxRecord
        BY <1>1, <1>2 DEF Typed, BoxTyped
      <3>3. Cursor(call[d], request[d], box')
        BY <3>1, <3>2, CursorThinned DEF Sound
      <3> QED
        BY <1>4, <2>2, <3>1, <3>3 DEF Sound
    <2> QED
      BY <2>1, <2>2
  <1>6. EachSound'
    BY <1>5 DEF EachSound
  <1>7. Held \in SUBSET Calls /\ Held' \in SUBSET Calls
        /\ Queue \in SUBSET Calls /\ Queue' \in SUBSET Calls
    BY DEF Held, Queue
  <1>8. AlikeBut(Held, Held', c) /\ AlikeBut(Queue, Queue', c)
    BY <1>4 DEF Held, Queue, AlikeBut
  <1>9. /\ c \in Held <=> Holds(call[c], request[c])
        /\ c \in Held' <=> Holds(k2, q2)
        /\ c \in Queue <=> Waits(call[c], request[c])
        /\ c \in Queue' <=> Waits(k2, q2)
    BY <1>3 DEF Held, Queue
  <1>10. /\ SetMoves(active, active', Held, Held', c, MaxMcpRequests)
         /\ SetMoves(waits, waits', Queue, Queue', c, MaxMcpWaits)
    BY <1>9 DEF SetMoves, CountMoves
  <1>11. active' = Cardinality(Held') /\ active' <= MaxMcpRequests
    BY <1>1, <1>7, <1>8, <1>10, OneCount, RemoteAssumption DEF Counted
  <1>12. waits' = Cardinality(Queue') /\ waits' <= MaxMcpWaits
    BY <1>1, <1>7, <1>8, <1>10, OneCount, RemoteAssumption DEF Counted
  <1>13. Counted'
    BY <1>11, <1>12 DEF Counted
  <1> QED
    BY <1>2, <1>6, <1>13, Parts, Counters, PTL

-----------------------------------------------------------------------------
(***************************************************************************)
(* Steps of the callers                                                    *)
(***************************************************************************)
LEMMA AbsentIs == Absent \in Int /\ Absent \notin Nat /\ Fault \notin Nat
  BY DEF Absent, Fault

LEMMA ThinnedAlready ==
  ASSUME Typed, UNCHANGED box
  PROVE  BoxTyped' /\ Thinned(box, box')
  <1>1. box.last \in Int
    BY RemoteAssumption DEF Typed, BoxTyped, MailboxRecord
  <1> QED
    BY <1>1 DEF Typed, BoxTyped, Thinned

\* A call and its request change, the mailbox and the counters do not.
LEMMA CallerMoves ==
  ASSUME IInv, NEW c \in Calls, NEW k2 \in CallRecord, NEW q2 \in RequestRecord,
         call' = [call EXCEPT ![c] = k2],
         request' = [request EXCEPT ![c] = q2],
         UNCHANGED <<up, box, active, waits, removed>>,
         Sound(k2, q2, removed[c], box, up),
         \/ q2 = request[c] /\ k2.ask = call[c].ask
         \/ q2.is \notin Progress /\ request[c].is \notin Progress
  PROVE  IInv'
  <1>1. Typed
    BY DEF IInv
  <1>2. removed[c] \in SUBSET Nat /\ removed' = [removed EXCEPT ![c] = removed[c]]
    BY <1>1 DEF Typed
  <1>3. BoxTyped' /\ Thinned(box, box')
    BY <1>1, ThinnedAlready
  <1>4. /\ Holds(call[c], request[c]) <=> Holds(k2, q2)
        /\ Waits(call[c], request[c]) <=> Waits(k2, q2)
    BY DEF Holds, Waits, ViaMcp, Progress
  <1>5. /\ CountMoves(active, active', Holds(call[c], request[c]), Holds(k2, q2),
                      MaxMcpRequests)
        /\ CountMoves(waits, waits', Waits(call[c], request[c]), Waits(k2, q2),
                      MaxMcpWaits)
    BY <1>4 DEF CountMoves
  <1>6. Sound(k2, q2, removed[c], box', up) /\ up' = up
    OBVIOUS
  <1> QED
    BY <1>2, <1>3, <1>5, <1>6, OneMoves

\* What the invariant says of one call.
LEMMA OfOne ==
  ASSUME IInv, NEW c \in Calls
  PROVE  /\ call[c] \in CallRecord /\ request[c] \in RequestRecord
         /\ removed[c] \in SUBSET Nat
         /\ call = [call EXCEPT ![c] = call[c]]
         /\ request = [request EXCEPT ![c] = request[c]]
         /\ removed = [removed EXCEPT ![c] = removed[c]]
         /\ Sound(call[c], request[c], removed[c], box, up)
  BY DEF IInv, Typed, EachUnderway, EachHonest, EachCursor, Sound

LEMMA TroubleSteps ==
  ASSUME IInv, NEW c \in Calls,
         CallerAborts(c) \/ ClientTimer(c) \/ ConnectionBreaks(c) \/ DeadlinePasses(c)
  PROVE  IInv'
  <1>1. PICK f \in {"aborted", "timedOut", "lost", "overdue"} :
          call' = [call EXCEPT ![c] = [call[c] EXCEPT ![f] = TRUE]]
    <2>1. CASE CallerAborts(c)
      BY <2>1, OfOne DEF CallerAborts
    <2>2. CASE ClientTimer(c)
      BY <2>2, OfOne DEF ClientTimer
    <2>3. CASE ConnectionBreaks(c)
      BY <2>3, OfOne DEF ConnectionBreaks
    <2>4. CASE DeadlinePasses(c)
      BY <2>4, OfOne DEF DeadlinePasses
    <2> QED
      BY <2>1, <2>2, <2>3, <2>4
  <1> DEFINE k2 == [call[c] EXCEPT ![f] = TRUE]
  <1>2. k2 \in CallRecord /\ SameCall(call[c], k2)
    BY OfOne DEF CallRecord, SameCall
  <1>3. call' = [call EXCEPT ![c] = k2]
    BY <1>1
  <1> HIDE DEF k2
  <1>4. UNCHANGED <<up, box, active, waits, removed, request>>
    BY DEF CallerAborts, ClientTimer, ConnectionBreaks, DeadlinePasses, server, slots
  <1>5. Sound(k2, request[c], removed[c], box, up)
    BY <1>2, OfOne, SoundTroubled
  <1>6. k2.ask = call[c].ask
    BY <1>2 DEF SameCall
  <1> QED
    BY <1>2, <1>3, <1>4, <1>5, <1>6, OfOne, CallerMoves

LEMMA EndedIs ==
  ASSUME IInv, NEW c \in Calls, NEW outcome \in Words
  PROVE  Ended(c, outcome) \in CallRecord /\ SameEnd(call[c], Ended(c, outcome), outcome)
  BY OfOne, AbsentIs DEF Ended, CallRecord, SameEnd

LEMMA FailStep ==
  ASSUME IInv, NEW c \in Calls, Fail(c)
  PROVE  IInv'
  <1>1. Failure(c) \in Words /\ Failure(c) \notin Refusals \cup {"OK"}
    <2>1. Failure(c) \in {"ABORTED", "SERVER_UNAVAILABLE", "TIMEOUT", "NETWORK"}
      BY DEF Failure
    <2> QED
      BY <2>1, WordsAre, NotRefusals
  <1> DEFINE k2 == Ended(c, Failure(c))
  <1>2. k2 \in CallRecord /\ SameEnd(call[c], k2, Failure(c))
    BY <1>1, EndedIs
  <1>3. call' = [call EXCEPT ![c] = k2]
    BY DEF Fail
  <1> HIDE DEF k2
  <1>4. UNCHANGED <<up, box, active, waits, removed, request>>
    BY DEF Fail, server, slots
  <1>5. call[c].is = "open"
    BY DEF Fail, Open
  <1>6. Sound(k2, request[c], removed[c], box, up)
    BY <1>1, <1>2, <1>5, OfOne, SoundGivenUp
  <1>7. k2.ask = call[c].ask
    BY <1>2 DEF SameEnd
  <1> QED
    BY <1>2, <1>3, <1>4, <1>6, <1>7, OfOne, CallerMoves

LEMMA VanishStep ==
  ASSUME IInv, NEW c \in Calls, Vanish(c)
  PROVE  IInv'
  <1>1. request' = [request EXCEPT ![c] = Unsent] /\ request[c].is = "arriving"
        /\ UNCHANGED <<up, box, active, waits, removed, call>>
    BY DEF Vanish, server, slots
  <1>2. Sound(call[c], request[c], removed[c], box, up)
    BY OfOne
  <1>3. Underway(call[c], Unsent, up)
    BY <1>1, <1>2, UnsentTyped DEF Sound, Underway, Progress
  <1>4. Honest(call[c], Unsent, removed[c])
    BY <1>1, <1>2, UnsentTyped DEF Sound, Honest
  <1>5. Cursor(call[c], Unsent, box)
    BY <1>2, UnsentTyped DEF Sound, Cursor, Looked, Pending
  <1>6. Sound(call[c], Unsent, removed[c], box, up)
    BY <1>3, <1>4, <1>5 DEF Sound
  <1>7. Unsent.is \notin Progress /\ request[c].is \notin Progress
    BY <1>1, UnsentTyped DEF Progress
  <1> QED
    BY <1>1, <1>6, <1>7, UnsentTyped, OfOne, CallerMoves

LEMMA ProxyStep ==
  ASSUME IInv, NEW c \in Calls, ProxyAnswers(c)
  PROVE  IInv'
  <1> DEFINE k2 == [call[c] EXCEPT !.proxied = TRUE]
             q2 == [request[c] EXCEPT !.answer = Answer("FOREIGN")]
  <1>1. Answer("FOREIGN") \in AnswerRecord /\ Answer("FOREIGN").code = "FOREIGN"
    BY AnswerTyped, WordsAre
  <1>2. k2 \in CallRecord /\ SameCall(call[c], k2)
    BY OfOne DEF CallRecord, SameCall
  <1>3. q2 \in RequestRecord /\ q2.is = "delivered" /\ q2.answer.code = "FOREIGN"
    BY <1>1, OfOne DEF RequestRecord, ProxyAnswers
  <1>4. call' = [call EXCEPT ![c] = k2] /\ request' = [request EXCEPT ![c] = q2]
    BY OfOne DEF ProxyAnswers
  <1> HIDE DEF k2, q2
  <1>5. UNCHANGED <<up, box, active, waits, removed>> /\ request[c].is = "delivered"
        /\ call[c].is = "open"
    BY DEF ProxyAnswers, server, slots, Open
  <1>6. Sound(call[c], request[c], removed[c], box, up)
    BY OfOne
  <1>7. Underway(call[c], q2, up)
    BY <1>3, <1>5 DEF Underway, Progress
  <1>8. "FOREIGN" # "OK" /\ "FOREIGN" \notin Refusals
    BY NotRefusals
  <1>9. Honest(call[c], q2, removed[c])
    BY <1>3, <1>5, <1>6, <1>8 DEF Sound, Honest, Tells
  <1>10. Cursor(call[c], q2, box)
    BY <1>3, <1>6, <1>8 DEF Sound, Cursor, Looked, Pending
  <1>11. Sound(k2, q2, removed[c], box, up)
    BY <1>2, <1>7, <1>9, <1>10, SoundTroubled DEF Sound
  <1>12. q2.is \notin Progress /\ request[c].is \notin Progress
    BY <1>3, <1>5 DEF Progress
  <1> QED
    BY <1>2, <1>3, <1>4, <1>5, <1>11, <1>12, CallerMoves

LEMMA ReceiveStep ==
  ASSUME IInv, NEW c \in Calls, Receive(c)
  PROVE  IInv'
  <1> DEFINE outcome == ReadAnswer(c, request[c].answer)
             k2 == Ended(c, outcome)
  <1>1. request[c].answer.code \in Words
    BY OfOne DEF RequestRecord, AnswerRecord
  <1>2. outcome \in {request[c].answer.code, "SERVER_UNAVAILABLE", "INVALID_RESPONSE"}
    BY DEF ReadAnswer
  <1>3. outcome \in Words
        /\ (outcome = request[c].answer.code \/ outcome \notin Refusals \cup {"OK"})
    BY <1>1, <1>2, WordsAre, NotRefusals
  <1> HIDE DEF outcome
  <1>4. k2 \in CallRecord /\ SameEnd(call[c], k2, outcome)
    BY <1>3, EndedIs
  <1>5. call' = [call EXCEPT ![c] = k2] /\ request' = [request EXCEPT ![c] = Unsent]
    BY DEF Receive, outcome
  <1> HIDE DEF k2
  <1>6. UNCHANGED <<up, box, active, waits, removed>> /\ request[c].is = "delivered"
        /\ call[c].is = "open"
    BY DEF Receive, Readied, server, slots, Open
  <1>7. Sound(k2, Unsent, removed[c], box, up)
    BY <1>3, <1>4, <1>6, OfOne, UnsentTyped, SoundReceived
  <1>8. Unsent.is \notin Progress /\ request[c].is \notin Progress
    BY <1>6, UnsentTyped DEF Progress
  <1> QED
    BY <1>4, <1>5, <1>6, <1>7, <1>8, UnsentTyped, CallerMoves

-----------------------------------------------------------------------------
(***************************************************************************)
(* The loop of the wait command                                            *)
(***************************************************************************)
\* The cursor moves from k to k2 with the answer a, which found nothing.
Advances(k, k2, a) ==
  /\ k2.after = a.mark
  /\ k2.start = (IF k.start = Absent THEN a.mark ELSE k.start)
  /\ k.after # Absent => k2.mailbox = a.mailbox

\* What was looked at before and what was looked at now leave no gap.
LEMMA FollowedOn ==
  ASSUME NEW k \in CallRecord, NEW k2 \in CallRecord, NEW q \in RequestRecord,
         NEW b \in MailboxRecord, Cursor(k, q, b), Advances(k, k2, q.answer),
         Following(k), k.is = "open",
         q.is = "delivered", q.answer.code = "OK", q.answer.data = 0
  PROVE  /\ Followed(k2, b)
         /\ k2.start # Absent /\ k2.after # Absent
  <1>1. /\ q.answer.mailbox \in 1..b.id /\ q.answer.mark \in Nat
        /\ q.answer.mailbox = b.id =>
             /\ q.answer.mark <= b.last
             /\ k.after # Absent =>
                  k.mailbox \in {Absent, b.id} /\ NoneBetween(b, k.after, q.answer.mark)
    BY DEF Cursor, Looked
  <1>2. k2.start # Absent /\ k2.after # Absent
    BY <1>1, AbsentIs DEF Advances
  <1>3. k.start = Absent <=> k.after = Absent
    BY DEF Cursor
  <1>4. CASE k.after = Absent
    BY <1>2, <1>3, <1>4 DEF Followed, Advances
  <1>5. CASE k.after # Absent
    <2>1. k2.start = k.start /\ k2.mailbox = q.answer.mailbox /\ k2.after = q.answer.mark
      BY <1>3, <1>5 DEF Advances
    <2>2. ASSUME q.answer.mailbox = b.id
          PROVE  NoneBetween(b, k.start, q.answer.mark)
      <3>1. k.mailbox \in {Absent, b.id} /\ NoneBetween(b, k.after, q.answer.mark)
        BY <1>1, <1>5, <2>2
      <3>2. k.start = k.after \/ NoneBetween(b, k.start, k.after)
        <4>1. b.id \in Nat /\ Absent \notin 1..b.id
          BY AbsentIs DEF MailboxRecord
        <4> QED
          BY <1>3, <1>5, <3>1, <4>1 DEF Cursor, Followed
      <3>3. k.start \in Int /\ k.after \in Int
            /\ \A m \in b.stored \cap b.matching : m \in Int
        BY DEF CallRecord, MailboxRecord
      <3> QED
        BY <1>1, <3>1, <3>2, <3>3 DEF NoneBetween
    <2> QED
      BY <1>1, <1>2, <2>1, <2>2 DEF Followed
  <1> QED
    BY <1>2, <1>4, <1>5

LEMMA GoOnIs ==
  ASSUME IInv, NEW c \in Calls, NEW a \in AnswerRecord, CliWait(c)
  PROVE  /\ GoOn(c, a) \in CallRecord /\ Advances(call[c], GoOn(c, a), a)
         /\ GoOn(c, a).is = call[c].is /\ GoOn(c, a).ask = call[c].ask
  <1> DEFINE start == IF call[c].start = Absent THEN a.mark ELSE call[c].start
             mailbox == IF Op(c) = "read" /\ call[c].mailbox # Absent
                        THEN call[c].mailbox ELSE a.mailbox
  <1>1. call[c] \in CallRecord
    BY OfOne
  <1>2. GoOn(c, a) = [call[c] EXCEPT !.after = a.mark, !.start = start, !.mailbox = mailbox]
    BY DEF GoOn
  <1>3. a.mark \in Int /\ start \in Int /\ mailbox \in Int
    BY <1>1 DEF AnswerRecord, CallRecord
  <1>4. call[c].after # Absent => mailbox = a.mailbox
    BY DEF Op, CliWait, Ask
  <1>5. start = (IF call[c].start = Absent THEN a.mark ELSE call[c].start)
    OBVIOUS
  <1> HIDE DEF start, mailbox
  <1>6. GoOn(c, a) \in CallRecord
    BY <1>1, <1>2, <1>3 DEF CallRecord
  <1>7. /\ GoOn(c, a).after = a.mark /\ GoOn(c, a).start = start
        /\ GoOn(c, a).mailbox = mailbox
        /\ GoOn(c, a).is = call[c].is /\ GoOn(c, a).ask = call[c].ask
    BY <1>1, <1>2 DEF CallRecord
  <1> QED
    BY <1>4, <1>5, <1>6, <1>7 DEF Advances

\* The command asks again, or gives up, from where it looked last.
LEMMA WaitOnStep ==
  ASSUME IInv, NEW c \in Calls, WaitOn(c)
  PROVE  IInv'
  <1> DEFINE answer == request[c].answer
             over == Op(c) = "wait" /\ call[c].overdue
             k2 == IF over THEN [GoOn(c, answer) EXCEPT !.is = "ended",
                                                        !.outcome = "TIMED_OUT"]
                           ELSE GoOn(c, answer)
             q2 == IF over THEN Unsent ELSE [Sent EXCEPT !.atOnce = call[c].overdue]
  <1>1. /\ call[c] \in CallRecord /\ request[c] \in RequestRecord
        /\ box \in MailboxRecord /\ answer \in AnswerRecord
    BY OfOne DEF IInv, Typed, BoxTyped, RequestRecord
  <1>2. CliWait(c) /\ call[c].is = "open" /\ request[c].is = "delivered"
        /\ answer.code = "OK" /\ answer.data = 0
        /\ UNCHANGED <<up, box, active, waits, removed>>
    BY DEF WaitOn, Readied, Open, server, slots
  <1>3. call' = [call EXCEPT ![c] = k2] /\ request' = [request EXCEPT ![c] = q2]
    BY DEF WaitOn
  <1>4. /\ GoOn(c, answer) \in CallRecord /\ Advances(call[c], GoOn(c, answer), answer)
        /\ GoOn(c, answer).is = call[c].is /\ GoOn(c, answer).ask = call[c].ask
    BY <1>1, <1>2, GoOnIs
  <1>5. /\ k2 \in CallRecord /\ k2.ask = call[c].ask
        /\ k2.after = GoOn(c, answer).after /\ k2.start = GoOn(c, answer).start
        /\ k2.mailbox = GoOn(c, answer).mailbox
        /\ \/ k2.is = "open" 
           \/ k2.is = "ended" /\ k2.outcome = "TIMED_OUT"
    BY <1>2, <1>4, WordsAre DEF CallRecord
  <1>6. q2 \in RequestRecord /\ q2.is \in {"none", "arriving"}
        /\ ~q2.signal /\ ~q2.released
    BY <1>1, UnsentTyped DEF RequestRecord, Unsent, CallRecord
  <1> HIDE DEF k2, q2
  <1>7. Sound(call[c], request[c], removed[c], box, up)
    BY OfOne
  <1>8. Following(call[c])
    BY <1>2 DEF Following, CliWait, Ask
  <1>9. Advances(call[c], k2, answer)
    BY <1>4, <1>5 DEF Advances
  <1>10. Followed(k2, box) /\ k2.start # Absent /\ k2.after # Absent
    BY <1>1, <1>2, <1>5, <1>7, <1>8, <1>9, FollowedOn DEF Sound
  <1>11. Cursor(k2, q2, box)
    BY <1>6, <1>10 DEF Cursor, Looked, Pending
  <1>12. Underway(k2, q2, up)
    BY <1>5, <1>6 DEF Underway, Progress
  <1>13. removed[c] = {}
    BY <1>7, <1>8 DEF Sound, Honest, Following
  <1>14. "TIMED_OUT" \notin Refusals /\ "TIMED_OUT" # "OK"
    BY NotRefusals
  <1>15. Honest(k2, q2, removed[c])
    BY <1>5, <1>6, <1>13, <1>14 DEF Honest
  <1>16. Sound(k2, q2, removed[c], box, up)
    BY <1>11, <1>12, <1>15 DEF Sound
  <1>17. q2.is \notin Progress /\ request[c].is \notin Progress
    BY <1>2, <1>6 DEF Progress
  <1> QED
    BY <1>2, <1>3, <1>5, <1>6, <1>16, <1>17, CallerMoves

-----------------------------------------------------------------------------
(***************************************************************************)
(* A call begins                                                           *)
(***************************************************************************)
\* No terminal, no inbox: a command line runs a command or is refused.
LEMMA ModeIs ==
  ASSUME NEW line
  PROVE  CliMode(line, FALSE) \in {"usage", "answered", "command"}
  BY DEF CliMode

LEMMA BeginStep ==
  ASSUME IInv, NEW c \in Calls, Begin(c)
  PROVE  IInv'
  <1>1. PICK a \in Asks[c] :
          LET begun == [Idle EXCEPT !.is = "open", !.ask = a,
                          !.start = a.after, !.after = a.after,
                          !.mailbox = IF a.via = "cli" THEN a.mailbox ELSE Absent]
              mode == IF a.via = "cli" THEN CliMode(a.line, FALSE) ELSE "command"
              refused == mode # "command" \/ ClientFault(a)
              outcome == IF mode = "command" THEN "REJECTED" ELSE mode
          IN  /\ call' = [call EXCEPT ![c] =
                   IF refused THEN [begun EXCEPT !.is = "ended", !.outcome = outcome]
                              ELSE begun]
              /\ request' = [request EXCEPT ![c] = IF refused THEN Unsent ELSE Sent]
    BY DEF Begin
  <1> DEFINE mailbox == IF a.via = "cli" THEN a.mailbox ELSE Absent
             begun == [Idle EXCEPT !.is = "open", !.ask = a, !.start = a.after,
                                   !.after = a.after, !.mailbox = mailbox]
             mode == IF a.via = "cli" THEN CliMode(a.line, FALSE) ELSE "command"
             refused == mode # "command" \/ ClientFault(a)
             outcome == IF mode = "command" THEN "REJECTED" ELSE mode
             k2 == IF refused THEN [begun EXCEPT !.is = "ended", !.outcome = outcome]
                   ELSE begun
             q2 == IF refused THEN Unsent ELSE Sent
  <1>2. call' = [call EXCEPT ![c] = k2] /\ request' = [request EXCEPT ![c] = q2]
    BY <1>1
  <1>3. outcome \in Refusals
    BY ModeIs, RefusalsAre
  <1>4. mailbox \in Int /\ a.after \in Int /\ a \in AnyAsk
    BY RemoteAssumption, AbsentIs DEF AnyAsk
  <1>5. /\ q2 \in RequestRecord /\ ~q2.signal /\ ~q2.released
        /\ q2.is = (IF refused THEN "none" ELSE "arriving")
    BY UnsentTyped DEF Unsent
  <1> HIDE DEF mailbox, refused, outcome, q2
  <1>6. Idle \in CallRecord
    BY WordsAre, AbsentIs DEF Idle, CallRecord, AnyAsk
  <1>7. begun \in CallRecord /\ begun.is = "open"
        /\ begun.start = begun.after /\ begun.ask = a
    BY <1>4, <1>6 DEF CallRecord
  <1> HIDE DEF begun
  <1>8. /\ k2 \in CallRecord /\ k2.start = k2.after
        /\ k2.is = (IF refused THEN "ended" ELSE "open")
        /\ refused => k2.outcome = outcome
    BY <1>3, <1>7, WordsAre DEF CallRecord
  <1> HIDE DEF k2
  <1>9. Sound(call[c], request[c], removed[c], box, up) /\ call[c].is = "idle"
        /\ UNCHANGED <<up, box, active, waits, removed>>
    BY OfOne DEF Begin, server, slots
  <1>10. removed[c] = {} /\ request[c].is = "none"
    BY <1>9 DEF Sound, Honest, Underway
  <1>11. Underway(k2, q2, up)
    BY <1>5, <1>8 DEF Underway, Progress
  <1>12. Honest(k2, q2, removed[c])
    <2>1. outcome # "OK"
      BY <1>3, NotRefusals
    <2> QED
      BY <1>3, <1>5, <1>8, <1>10, <2>1 DEF Honest, Tells
  <1>13. Cursor(k2, q2, box)
    BY <1>5, <1>8 DEF Cursor, Followed, Looked, Pending
  <1>14. Sound(k2, q2, removed[c], box, up)
    BY <1>11, <1>12, <1>13 DEF Sound
  <1>15. q2.is \notin Progress /\ request[c].is \notin Progress
    BY <1>5, <1>10 DEF Progress
  <1> QED
    BY <1>2, <1>5, <1>8, <1>9, <1>14, <1>15, CallerMoves

LEMMA ClientSteps ==
  ASSUME IInv, NEW c \in Calls, ClientStep(c)
  PROVE  IInv'
  BY TroubleSteps, FailStep, VanishStep, ProxyStep, ReceiveStep, WaitOnStep, BeginStep
     DEF ClientStep

-----------------------------------------------------------------------------
(***************************************************************************)
(* Steps of the server for one request                                     *)
(***************************************************************************)
\* The request changes, not its call nor the mailbox.
LEMMA ServerMoves ==
  ASSUME IInv, NEW c \in Calls, NEW q2 \in RequestRecord,
         request' = [request EXCEPT ![c] = q2],
         UNCHANGED <<up, box, call, removed>>,
         Sound(call[c], q2, removed[c], box, up),
         CountMoves(active, active', Holds(call[c], request[c]), Holds(call[c], q2),
                    MaxMcpRequests),
         CountMoves(waits, waits', Waits(call[c], request[c]), Waits(call[c], q2),
                    MaxMcpWaits)
  PROVE  IInv'
  <1>1. Typed
    BY DEF IInv
  <1>2. BoxTyped' /\ Thinned(box, box')
    BY <1>1, ThinnedAlready
  <1>3. Sound(call[c], q2, removed[c], box', up) /\ up' = up
        /\ call' = [call EXCEPT ![c] = call[c]]
        /\ removed' = [removed EXCEPT ![c] = removed[c]]
        /\ call[c] \in CallRecord /\ removed[c] \in SUBSET Nat
    BY OfOne
  <1> QED
    BY <1>2, <1>3, OneMoves

LEMMA RefusedStep ==
  ASSUME IInv, NEW c \in Calls, Refused(c)
  PROVE  IInv'
  <1> DEFINE verdict == CheckRequest(Policy, Ask(c).headers)
             q2 == [request[c] EXCEPT !.is = "delivered", !.answer = Answer(verdict)]
  <1>1. verdict \in {"FORBIDDEN_HOST", "FORBIDDEN_ORIGIN", "UNAUTHORIZED"}
    BY DEF Refused, CheckRequest
  <1>2. verdict \in Words /\ verdict # "OK"
    BY <1>1, WordsAre, RefusalsAre
  <1> HIDE DEF verdict
  <1>3. Answer(verdict) \in AnswerRecord /\ Answer(verdict).code = verdict
    BY <1>2, AnswerTyped
  <1>4. q2 \in RequestRecord /\ q2.is = "delivered" /\ q2.answer.code = verdict
    BY <1>3, OfOne DEF RequestRecord
  <1>5. request' = [request EXCEPT ![c] = q2]
    BY OfOne DEF Refused, verdict
  <1> HIDE DEF q2
  <1>6. request[c].is = "arriving" /\ UNCHANGED <<up, box, call, removed, active, waits>>
    BY DEF Refused, Arrived, server, slots
  <1>7. Sound(call[c], q2, removed[c], box, up)
    BY <1>2, <1>4, <1>6, OfOne, SoundRefused
  <1>8. /\ ~Holds(call[c], request[c]) /\ ~Holds(call[c], q2)
        /\ ~Waits(call[c], request[c]) /\ ~Waits(call[c], q2)
    BY <1>4, <1>6 DEF Holds, Waits, Progress
  <1>9. /\ CountMoves(active, active', Holds(call[c], request[c]), Holds(call[c], q2),
                      MaxMcpRequests)
        /\ CountMoves(waits, waits', Waits(call[c], request[c]), Waits(call[c], q2),
                      MaxMcpWaits)
    BY <1>6, <1>8 DEF CountMoves
  <1> QED
    BY <1>4, <1>5, <1>6, <1>7, <1>9, ServerMoves

LEMMA FetchStep ==
  ASSUME IInv, NEW c \in Calls, Fetch(c)
  PROVE  IInv'
  <1>1. /\ up # "down" /\ request[c].is = "arriving" /\ Mcp(c)
        /\ UNCHANGED <<up, box, call, removed, waits>>
    BY DEF Fetch, Arrived, server
  <1>2. Sound(call[c], request[c], removed[c], box, up) /\ ViaMcp(call[c])
    BY <1>1, OfOne DEF ViaMcp, Mcp, Ask
  <1>3. ~Holds(call[c], request[c]) /\ ~Waits(call[c], request[c])
    BY <1>1 DEF Holds, Waits, Progress
  <1>4. CASE active >= MaxMcpRequests
    <2> DEFINE q2 == [request[c] EXCEPT !.is = "delivered",
                                        !.answer = Answer("TOO_MANY_REQUESTS")]
    <2>1. Answer("TOO_MANY_REQUESTS") \in AnswerRecord
          /\ Answer("TOO_MANY_REQUESTS").code = "TOO_MANY_REQUESTS"
      BY AnswerTyped, WordsAre, RefusalsAre
    <2>2. q2 \in RequestRecord /\ q2.is = "delivered" /\ q2.answer.code # "OK"
      BY <2>1, OfOne DEF RequestRecord
    <2>3. request' = [request EXCEPT ![c] = q2] /\ active' = active
      BY <1>4, OfOne DEF Fetch
    <2> HIDE DEF q2
    <2>4. Sound(call[c], q2, removed[c], box, up)
      BY <1>1, <1>2, <2>2, SoundRefused
    <2>5. ~Holds(call[c], q2) /\ ~Waits(call[c], q2)
      BY <2>2 DEF Holds, Waits, Progress
    <2>6. /\ CountMoves(active, active', Holds(call[c], request[c]), Holds(call[c], q2),
                        MaxMcpRequests)
          /\ CountMoves(waits, waits', Waits(call[c], request[c]), Waits(call[c], q2),
                        MaxMcpWaits)
      BY <1>1, <1>3, <2>3, <2>5 DEF CountMoves
    <2> QED
      BY <1>1, <2>2, <2>3, <2>4, <2>6, ServerMoves
  <1>5. CASE ~(active >= MaxMcpRequests)
    <2> DEFINE q2 == [request[c] EXCEPT !.is = "fetching"]
    <2>1. /\ q2 \in RequestRecord /\ q2.is = "fetching"
          /\ q2.signal = request[c].signal /\ q2.released = request[c].released
      BY OfOne DEF RequestRecord, Progress
    <2>2. request' = [request EXCEPT ![c] = q2] /\ active' = active + 1
      BY <1>5, OfOne DEF Fetch
    <2> HIDE DEF q2
    <2>3. ~q2.signal /\ ~q2.released
      BY <1>1, <1>2, <2>1 DEF Sound, Underway
    <2>4. Underway(call[c], q2, up)
      BY <1>1, <1>2, <2>1, <2>3 DEF Sound, Underway
    <2>5. Honest(call[c], q2, removed[c])
      BY <1>1, <1>2, <2>1 DEF Sound, Honest
    <2>6. Cursor(call[c], q2, box)
      BY <1>2, <2>1 DEF Sound, Cursor, Looked, Pending
    <2>7. Holds(call[c], q2) /\ ~Waits(call[c], q2)
      BY <1>2, <2>1, <2>3 DEF Holds, Waits, Progress
    <2>8. active < MaxMcpRequests
      <3>1. active \in Nat
        BY RemoteAssumption, FS_CardinalityType, FS_Subset, Counters DEF IInv, Counted, Held
      <3> QED
        BY <1>5, <3>1, RemoteAssumption
    <2>9. /\ CountMoves(active, active', Holds(call[c], request[c]), Holds(call[c], q2),
                        MaxMcpRequests)
          /\ CountMoves(waits, waits', Waits(call[c], request[c]), Waits(call[c], q2),
                        MaxMcpWaits)
      BY <1>1, <1>3, <2>2, <2>7, <2>8 DEF CountMoves
    <2>10. Sound(call[c], q2, removed[c], box, up)
      BY <2>4, <2>5, <2>6 DEF Sound
    <2> QED
      BY <1>1, <2>1, <2>2, <2>9, <2>10, ServerMoves
  <1> QED
    BY <1>4, <1>5

\* handler.fetch() fails: the slot is given back, once.
LEMMA FetchFailsStep ==
  ASSUME IInv, NEW c \in Calls, FetchFails(c)
  PROVE  IInv'
  <1> DEFINE q2 == [request[c] EXCEPT !.is = "delivered", !.released = TRUE,
                                      !.answer = Answer("INTERNAL")]
  <1>1. /\ request[c].is = "fetching" /\ active' = Release(c)
        /\ UNCHANGED <<up, box, call, removed, waits>>
    BY DEF FetchFails, server
  <1>2. Answer("INTERNAL") \in AnswerRecord /\ Answer("INTERNAL").code = "INTERNAL"
    BY AnswerTyped, WordsAre
  <1>3. q2 \in RequestRecord /\ q2.is = "delivered" /\ q2.answer.code # "OK"
    BY <1>2, OfOne DEF RequestRecord
  <1>4. request' = [request EXCEPT ![c] = q2]
    BY OfOne DEF FetchFails
  <1> HIDE DEF q2
  <1>5. Sound(call[c], request[c], removed[c], box, up)
    BY OfOne
  <1>6. Sound(call[c], q2, removed[c], box, up)
    BY <1>1, <1>3, <1>5, SoundRefused
  <1>7. ViaMcp(call[c]) /\ (request[c].released <=> request[c].signal)
    BY <1>1, <1>5 DEF Sound, Underway, Progress
  <1>8. /\ Holds(call[c], request[c]) <=> ~request[c].released
        /\ ~Holds(call[c], q2) /\ ~Waits(call[c], request[c]) /\ ~Waits(call[c], q2)
    BY <1>1, <1>3, <1>7 DEF Holds, Waits, Progress
  <1>9. /\ CountMoves(active, active', Holds(call[c], request[c]), Holds(call[c], q2),
                      MaxMcpRequests)
        /\ CountMoves(waits, waits', Waits(call[c], request[c]), Waits(call[c], q2),
                      MaxMcpWaits)
    BY <1>1, <1>8 DEF CountMoves, Release
  <1> QED
    BY <1>1, <1>3, <1>4, <1>6, <1>9, ServerMoves

\* The body ends: unless the abort was first, it gives the slot back.
LEMMA BodyEndsStep ==
  ASSUME IInv, NEW c \in Calls, BodyEnds(c)
  PROVE  IInv'
  <1> DEFINE q2 == [request[c] EXCEPT !.is = "delivered", !.released = TRUE]
  <1>1. /\ request[c].is = "answering" /\ UNCHANGED <<up, box, call, removed, waits>>
        /\ active' = IF Mcp(c) THEN Release(c) ELSE active
    BY DEF BodyEnds, server
  <1>2. q2 \in RequestRecord /\ q2.is = "delivered" /\ q2.answer = request[c].answer
    BY OfOne DEF RequestRecord
  <1>3. request' = [request EXCEPT ![c] = q2]
    BY OfOne DEF BodyEnds
  <1> HIDE DEF q2
  <1>4. Sound(call[c], request[c], removed[c], box, up)
    BY OfOne
  <1>5. /\ Tells(q2.answer.code, call[c].ask, removed[c])
        /\ call[c].ask.op \notin {"delete", "clear"} => removed[c] = {}
    BY <1>1, <1>2, <1>4 DEF Sound, Honest
  <1>6. Looked(call[c], q2, box) /\ Followed(call[c], box)
    BY <1>1, <1>2, <1>4 DEF Sound, Cursor, Looked
  <1>7. Sound(call[c], q2, removed[c], box, up)
    BY <1>1, <1>2, <1>4, <1>5, <1>6, SoundAnswered
  <1>8. /\ request[c].released <=> request[c].signal
        /\ Mcp(c) <=> ViaMcp(call[c])
    BY <1>1, <1>4 DEF Sound, Underway, Progress, ViaMcp, Mcp, Ask
  <1>9. /\ Holds(call[c], request[c]) <=> Mcp(c) /\ ~request[c].released
        /\ ~Holds(call[c], q2) /\ ~Waits(call[c], request[c]) /\ ~Waits(call[c], q2)
    BY <1>1, <1>2, <1>8 DEF Holds, Waits, Progress
  <1>10. /\ CountMoves(active, active', Holds(call[c], request[c]), Holds(call[c], q2),
                       MaxMcpRequests)
         /\ CountMoves(waits, waits', Waits(call[c], request[c]), Waits(call[c], q2),
                       MaxMcpWaits)
    BY <1>1, <1>9 DEF CountMoves, Release
  <1> QED
    BY <1>1, <1>2, <1>3, <1>7, <1>10, ServerMoves

\* The client is gone: slot and wait slot are given back at once.
LEMMA NoticeStep ==
  ASSUME IInv, NEW c \in Calls, NoticeDisconnect(c)
  PROVE  IInv'
  <1> DEFINE ends == request[c].is = "waiting"
             is2 == IF ends THEN "answering" ELSE request[c].is
             answer2 == IF ends THEN Answer("CANCELLED") ELSE request[c].answer
             q2 == [request[c] EXCEPT !.signal = TRUE, !.released = TRUE,
                                      !.is = is2, !.answer = answer2]
  <1>1. /\ request[c].is \in Progress /\ ~request[c].signal
        /\ UNCHANGED <<up, box, call, removed>>
        /\ active' = IF Mcp(c) THEN Release(c) ELSE active
        /\ waits' = IF ends /\ Mcp(c) THEN waits - 1 ELSE waits
    BY DEF NoticeDisconnect, InProgress, Progress, server, Waiting
  <1>2. Answer("CANCELLED") \in AnswerRecord /\ Answer("CANCELLED").code = "CANCELLED"
    BY AnswerTyped, WordsAre
  <1>3. request' = [request EXCEPT ![c] = q2]
    BY OfOne DEF NoticeDisconnect, Waiting
  <1>4. is2 \in Progress /\ is2 # "waiting" /\ answer2 \in AnswerRecord
        /\ (~ends => is2 = request[c].is /\ answer2 = request[c].answer)
        /\ (ends => is2 = "answering" /\ answer2.code # "OK")
    BY <1>1, <1>2, OfOne DEF Progress, RequestRecord
  <1> HIDE DEF is2, answer2
  <1>5. q2 \in RequestRecord /\ q2.is = is2 /\ q2.answer = answer2
        /\ q2.signal = TRUE /\ q2.released = TRUE
    BY <1>4, OfOne DEF RequestRecord
  <1> HIDE DEF q2
  <1>6. Sound(call[c], request[c], removed[c], box, up)
    BY OfOne
  <1>7. Sound(call[c], q2, removed[c], box, up)
    <2>1. CASE ends
      <3>1. up # "down"
        BY <1>1, <1>6 DEF Sound, Underway
      <3> QED
        BY <1>4, <1>5, <1>6, <2>1, <3>1, SoundRefused
    <2>2. CASE ~ends
      <3>1. q2.is = request[c].is /\ q2.answer = request[c].answer
        BY <1>4, <1>5, <2>2
      <3>2. Underway(call[c], q2, up)
        BY <1>1, <1>5, <1>6, <2>2, <3>1 DEF Sound, Underway, Progress
      <3>3. Honest(call[c], q2, removed[c])
        BY <1>6, <3>1 DEF Sound, Honest
      <3>4. Cursor(call[c], q2, box)
        BY <1>6, <3>1 DEF Sound, Cursor, Looked, Pending
      <3> QED
        BY <3>2, <3>3, <3>4 DEF Sound
    <2> QED
      BY <2>1, <2>2
  <1>8. ~request[c].released /\ (Mcp(c) <=> ViaMcp(call[c]))
    BY <1>1, <1>6 DEF Sound, Underway, ViaMcp, Mcp, Ask
  <1>9. /\ Holds(call[c], request[c]) <=> Mcp(c)
        /\ Waits(call[c], request[c]) <=> ends /\ Mcp(c)
        /\ ~Holds(call[c], q2) /\ ~Waits(call[c], q2)
    BY <1>1, <1>4, <1>5, <1>8 DEF Holds, Waits
  <1>10. /\ CountMoves(active, active', Holds(call[c], request[c]), Holds(call[c], q2),
                       MaxMcpRequests)
         /\ CountMoves(waits, waits', Waits(call[c], request[c]), Waits(call[c], q2),
                       MaxMcpWaits)
    BY <1>1, <1>8, <1>9 DEF CountMoves, Release
  <1> QED
    BY <1>1, <1>3, <1>5, <1>7, <1>10, ServerMoves

-----------------------------------------------------------------------------
(***************************************************************************)
(* Requests that are carried out                                           *)
(***************************************************************************)
\* An answer of now that found no match may move the cursor of its call: no
\* match is above it yet.
Clear(k) ==
  /\ k.mailbox \in {Absent, box.id}
  /\ \A m \in Matches(box) : m <= k.after

LEMMA LookedNow ==
  ASSUME BoxTyped, NEW k \in CallRecord, NEW q2 \in RequestRecord, FoundNow(q2.answer),
         Following(k) /\ k.after # Absent /\ q2.answer.data = 0 => Clear(k)
  PROVE  Looked(k, q2, box)
  <1>1. box.id \in Nat \ {0} /\ box.last \in Nat /\ k.after \in Int
        /\ \A m \in Matches(box) : m \in Int
    BY RemoteAssumption DEF BoxTyped, MailboxRecord, CallRecord, Matches
  <1>2. Clear(k) => NoneBetween(box, k.after, box.last)
    BY <1>1 DEF Clear, NoneBetween, Matches
  <1> QED
    BY <1>1, <1>2 DEF Looked, FoundNow, Clear

\* A wait or a read is answered: its mail is nobody's loss.
LEMMA SoundFound ==
  ASSUME BoxTyped, NEW k \in CallRecord, NEW q \in RequestRecord,
         NEW q2 \in RequestRecord, NEW r, Sound(k, q, r, box, up), up # "down",
         q.is \in {"arriving", "fetching", "waiting"},
         q2.is = "answering", q2.released <=> q2.signal, FoundNow(q2.answer),
         k.ask.op \notin {"delete", "clear"},
         Following(k) /\ k.after # Absent /\ q2.answer.data = 0 => Clear(k)
  PROVE  Sound(k, q2, r, box, up)
  <1>1. r = {}
    BY DEF Sound, Honest
  <1>2. q2.answer.code = "OK"
    BY DEF FoundNow
  <1>3. Tells(q2.answer.code, k.ask, r)
    BY <1>1, <1>2, NotRefusals DEF Tells
  <1>4. Looked(k, q2, box) /\ Followed(k, box)
    BY LookedNow DEF Sound, Cursor
  <1> QED
    BY <1>1, <1>3, <1>4, SoundAnswered

LEMMA AlikeFound ==
  ASSUME NEW a, NEW a2, Alike(a2, a), FoundNow(a)
  PROVE  FoundNow(a2)
  BY DEF Alike, FoundNow

\* A wait ends with what it found, or with nothing: the timer's case.
LEMMA WaitTimerStep ==
  ASSUME IInv, NEW c \in Calls, WaitTimer(c)
  PROVE  IInv'
  <1> DEFINE q2 == Answered(c, Found(0))
  <1>1. /\ request[c].is = "waiting" /\ UNCHANGED <<up, box, call, removed, active>>
        /\ EndWaits({c}, Found(0))
    BY DEF WaitTimer, Waiting, server
  <1>2. BoxTyped /\ request[c] \in RequestRecord /\ call[c] \in CallRecord
        /\ Sound(call[c], request[c], removed[c], box, up)
    BY OfOne DEF IInv, Typed
  <1>3. Found(0) \in AnswerRecord /\ FoundNow(Found(0)) /\ Found(0).data = 0
    BY <1>2, FoundTyped DEF BoxTyped
  <1>4. /\ q2 \in RequestRecord /\ q2.is = "answering" /\ q2.signal = request[c].signal
        /\ q2.released = request[c].released /\ Alike(q2.answer, Found(0))
    BY <1>2, <1>3, AnsweredTyped
  <1>5. request' = [request EXCEPT ![c] = q2]
    BY <1>1 DEF EndWaits, IInv, Typed
  <1>6. waits' = waits - Cardinality({d \in {c} : Mcp(d)})
    BY <1>1 DEF EndWaits
  <1> HIDE DEF q2
  <1>7. FoundNow(q2.answer)
    BY <1>3, <1>4, AlikeFound
  <1>8. /\ call[c].ask.op = "wait" /\ up # "down"
        /\ ~request[c].signal /\ ~request[c].released
        /\ Following(call[c]) => Clear(call[c])
    BY <1>1, <1>2 DEF Sound, Underway, Progress, Cursor, Pending, Clear, Matches
  <1>9. Sound(call[c], q2, removed[c], box, up)
    BY <1>1, <1>2, <1>4, <1>7, <1>8, SoundFound
  <1>10. Mcp(c) <=> ViaMcp(call[c])
    BY DEF ViaMcp, Mcp, Ask
  <1>11. /\ Holds(call[c], request[c]) <=> Mcp(c)
         /\ Holds(call[c], q2) <=> Mcp(c)
         /\ Waits(call[c], request[c]) <=> Mcp(c)
         /\ ~Waits(call[c], q2)
    BY <1>1, <1>4, <1>8, <1>10 DEF Holds, Waits, Progress
  <1>12. waits' = IF Mcp(c) THEN waits - 1 ELSE waits
    <2>1. waits \in Nat
      BY RemoteAssumption, FS_CardinalityType, FS_Subset, Counters
         DEF IInv, Counted, Queue
    <2>2. CASE Mcp(c)
      <3>1. {d \in {c} : Mcp(d)} = {c}
        BY <2>2
      <3> QED
        BY <1>6, <2>2, <3>1, FS_Singleton
    <2>3. CASE ~Mcp(c)
      <3>1. {d \in {c} : Mcp(d)} = {}
        BY <2>3
      <3> QED
        BY <1>6, <2>1, <2>3, <3>1, FS_EmptySet
    <2> QED
      BY <2>2, <2>3
  <1>13. /\ CountMoves(active, active', Holds(call[c], request[c]), Holds(call[c], q2),
                       MaxMcpRequests)
         /\ CountMoves(waits, waits', Waits(call[c], request[c]), Waits(call[c], q2),
                       MaxMcpWaits)
    BY <1>1, <1>11, <1>12 DEF CountMoves
  <1> QED
    BY <1>1, <1>4, <1>5, <1>9, <1>13, ServerMoves

\* What the answer to a wait may be: a refusal, a match, or that there is
\* none, or none yet.
LEMMA WaitAnswerIs ==
  ASSUME Typed, NEW args
  PROVE  /\ WaitAnswer(args) \in AnswerRecord
         /\ WaitAnswer(args).code = "OK" =>
              /\ FoundNow(WaitAnswer(args))
              /\ WaitAnswer(args).data = 0 =>
                   args.mailboxId \in {Absent, box.id} /\ MatchesAfter(args.afterId) = {}
         /\ WaitAnswer(args).code = "PENDING" =>
              args.mailboxId \in {Absent, box.id} /\ MatchesAfter(args.afterId) = {}
  <1> DEFINE answer == WaitAnswer(args)
             found == MatchesAfter(args.afterId)
  <1>1. found \subseteq 1..box.last /\ box \in MailboxRecord /\ box.last \in Nat
    BY RemoteAssumption DEF MatchesAfter, Typed, BoxTyped, MailboxRecord
  <1>2. ASSUME NEW w \in Refusals \cup {"SHUTTING_DOWN", "INVALID_CURSOR"}
        PROVE  /\ Answer(w) \in AnswerRecord
               /\ Answer(w).code # "OK" /\ Answer(w).code # "PENDING"
    <2>1. w \in Words /\ w # "OK" /\ w # "PENDING"
      BY WordsAre, NotRefusals
    <2> QED
      BY <2>1, AnswerTyped
  <1>3. CASE answer \in {Answer("INVALID_ARGUMENT"), Answer("SHUTTING_DOWN"),
                         Answer("INVALID_CURSOR"), Answer("LIMIT_EXCEEDED")}
    <2>1. /\ answer \in AnswerRecord
          /\ answer.code # "OK" /\ answer.code # "PENDING"
      BY <1>2, <1>3, RefusalsAre
    <2> QED
      BY <2>1
  <1>4. CASE answer = Found(First(found)) /\ found # {}
    <2>1. First(found) \in found
      BY <1>1, <1>4, Least
    <2>2. First(found) \in Int /\ First(found) # 0
      BY <1>1, <2>1
    <2>3. answer \in AnswerRecord /\ FoundNow(answer) /\ answer.data # 0
      BY <1>1, <1>4, <2>2, FoundTyped
    <2> QED
      BY <2>3 DEF FoundNow
  <1>5. CASE args.mailboxId \in {Absent, box.id} /\ found = {} /\ answer = Found(0)
    <2>1. answer \in AnswerRecord /\ FoundNow(answer) /\ answer.data = 0
      BY <1>1, <1>5, FoundTyped
    <2> QED
      BY <1>5, <2>1
  <1>6. CASE args.mailboxId \in {Absent, box.id} /\ found = {} /\ answer = Answer("PENDING")
    <2>1. answer \in AnswerRecord /\ answer.code = "PENDING"
      BY <1>6, AnswerTyped, WordsAre
    <2> QED
      BY <1>6, <2>1
  <1> QED
    BY <1>3, <1>4, <1>5, <1>6 DEF WaitAnswer

-----------------------------------------------------------------------------
(***************************************************************************)
(* Requests that wait                                                      *)
(***************************************************************************)
\* What call c may be answered when it asks to wait.
Waited(c, answer) ==
  /\ answer \in AnswerRecord
  /\ answer.code = "OK" => FoundNow(answer)
  /\ /\ CliWait(c)
     /\ answer.code = "PENDING" \/ (answer.code = "OK" /\ answer.data = 0)
     => Clear(call[c])

LEMMA WaitAnswerWaited ==
  ASSUME IInv, NEW c \in Calls
  PROVE  Waited(c, WaitAnswer(WaitArguments(c)))
  <1> DEFINE args == WaitArguments(c)
  <1>1. CliWait(c) => args.afterId = call[c].after /\ args.mailboxId = call[c].mailbox
    BY DEF WaitArguments
  <1> HIDE DEF args
  <1>2. Typed
    BY DEF IInv
  <1>3. call[c].after \in Int /\ \A m \in Matches(box) : m \in Int
    BY <1>2, OfOne DEF CallRecord, Typed, BoxTyped, MailboxRecord, Matches
  <1>4. ASSUME CliWait(c), args.mailboxId \in {Absent, box.id},
               MatchesAfter(args.afterId) = {}
        PROVE  Clear(call[c])
    BY <1>1, <1>3, <1>4 DEF Clear, MatchesAfter, Matches
  <1>5. /\ WaitAnswer(args) \in AnswerRecord
        /\ WaitAnswer(args).code = "OK" =>
             /\ FoundNow(WaitAnswer(args))
             /\ WaitAnswer(args).data = 0 =>
                  args.mailboxId \in {Absent, box.id} /\ MatchesAfter(args.afterId) = {}
        /\ WaitAnswer(args).code = "PENDING" =>
             args.mailboxId \in {Absent, box.id} /\ MatchesAfter(args.afterId) = {}
    BY <1>2, WaitAnswerIs
  <1>6. Waited(c, WaitAnswer(args))
    BY <1>4, <1>5 DEF Waited
  <1> QED
    BY <1>6 DEF args

\* A refusal without looking.
LEMMA RefusalWaited ==
  ASSUME NEW c \in Calls, NEW w \in Words, w # "OK", w # "PENDING"
  PROVE  Waited(c, Answer(w)) /\ Answer(w).code = w
  BY AnswerTyped DEF Waited

LEMMA SoundWaited ==
  ASSUME IInv, NEW c \in Calls, NEW answer, Waited(c, answer),
         answer.code # "PENDING", Op(c) = "wait",
         request[c].is \in {"arriving", "fetching"}, up # "down"
  PROVE  /\ Answered(c, answer) \in RequestRecord
         /\ Answered(c, answer).is = "answering"
         /\ Answered(c, answer).signal = request[c].signal
         /\ Sound(call[c], Answered(c, answer), removed[c], box, up)
  <1> DEFINE q2 == Answered(c, answer)
  <1>1. /\ call[c] \in CallRecord /\ request[c] \in RequestRecord /\ BoxTyped
        /\ Sound(call[c], request[c], removed[c], box, up)
    BY OfOne DEF IInv, Typed
  <1>2. /\ q2 \in RequestRecord /\ q2.is = "answering" /\ q2.signal = request[c].signal
        /\ q2.released = request[c].released /\ Alike(q2.answer, answer)
    BY <1>1, AnsweredTyped DEF Waited
  <1> HIDE DEF q2
  <1>3. q2.released <=> q2.signal
    BY <1>1, <1>2 DEF Sound, Underway, Progress
  <1>4. Sound(call[c], q2, removed[c], box, up)
    <2>1. CASE answer.code # "OK"
      <3>1. q2.answer.code # "OK"
        BY <1>2, <2>1 DEF Alike
      <3> QED
        BY <1>1, <1>2, <1>3, <3>1, SoundRefused
    <2>2. CASE answer.code = "OK"
      <3>1. FoundNow(q2.answer) /\ q2.answer.data = answer.data
        BY <1>2, <2>2, AlikeFound DEF Waited, Alike
      <3>2. call[c].ask.op = "wait"
        BY DEF Op, CliWait, Ask
      <3>3. Following(call[c]) /\ call[c].after # Absent /\ q2.answer.data = 0
              => Clear(call[c])
        BY <2>2, <3>1 DEF Waited, Following, CliWait, Ask
      <3> QED
        BY <1>1, <1>2, <1>3, <3>1, <3>2, <3>3, SoundFound
    <2> QED
      BY <2>1, <2>2
  <1> QED
    BY <1>2, <1>4 DEF q2

LEMMA SoundPends ==
  ASSUME IInv, NEW c \in Calls, NEW answer, Waited(c, answer),
         answer.code = "PENDING", Op(c) = "wait",
         request[c].is \in {"arriving", "fetching"}, up # "down",
         ~request[c].signal,
         NEW q2, q2 = [request[c] EXCEPT !.is = "waiting"]
  PROVE  /\ q2 \in RequestRecord /\ q2.is = "waiting" /\ ~q2.signal
         /\ Sound(call[c], q2, removed[c], box, up)
  <1>1. /\ call[c] \in CallRecord /\ request[c] \in RequestRecord
        /\ Sound(call[c], request[c], removed[c], box, up)
    BY OfOne
  <1>2. /\ q2 \in RequestRecord /\ q2.is = "waiting" /\ q2.signal = request[c].signal
        /\ q2.released = request[c].released
    BY <1>1 DEF RequestRecord, Progress
  <1>3. ~q2.signal /\ ~q2.released
    BY <1>1, <1>2 DEF Sound, Underway, Progress
  <1>4. call[c].ask.op = "wait" /\ (CliWait(c) => call[c].after # Absent)
    BY DEF Op, CliWait, Ask
  <1>5. Underway(call[c], q2, up)
    BY <1>1, <1>2, <1>3, <1>4 DEF Sound, Underway
  <1>6. Honest(call[c], q2, removed[c])
    BY <1>1, <1>2 DEF Sound, Honest
  <1>7. Pending(call[c], q2, box)
    BY <1>4 DEF Pending, Waited, Clear, Following, CliWait, Ask, Matches
  <1>8. Cursor(call[c], q2, box)
    BY <1>1, <1>2, <1>7 DEF Sound, Cursor, Looked
  <1> QED
    BY <1>2, <1>3, <1>5, <1>6, <1>8 DEF Sound

-----------------------------------------------------------------------------
(***************************************************************************)
(* Requests that delete                                                    *)
(***************************************************************************)
\* What Perform() replies and removes.
ReplyOf(c) == IF Op(c) = "read" THEN "OK" ELSE Reply(Ask(c))
GoneBy(c) == IF Op(c) = "read" THEN {} ELSE Removes(Ask(c))

LEMMA ReplyTells ==
  ASSUME Typed, NEW c \in Calls, Op(c) # "wait"
  PROVE  /\ ReplyOf(c) \in Words /\ GoneBy(c) \subseteq box.stored
         /\ Tells(ReplyOf(c), Ask(c), GoneBy(c))
         /\ Ask(c).op \notin {"delete", "clear"} => GoneBy(c) = {}
  <1> DEFINE a == Ask(c)
  <1>1. box.stored \subseteq 1..MaxId
    BY RemoteAssumption DEF Typed, BoxTyped, MailboxRecord
  <1>2. "OK" \notin Refusals /\ "OK" \in Words
    BY NotRefusals, WordsAre
  <1>3. CASE Op(c) = "read"
    <2>1. a.op \notin {"delete", "clear"} /\ ReplyOf(c) = "OK" /\ GoneBy(c) = {}
      BY <1>3 DEF Op, CliWait, Ask, ReplyOf, GoneBy
    <2> QED
      BY <1>2, <2>1 DEF Tells
  <1>4. CASE Op(c) # "read"
    <2>1. ReplyOf(c) = Reply(a) /\ GoneBy(c) = Removes(a)
      BY <1>4 DEF ReplyOf, GoneBy
    <2> HIDE DEF a
    <2>2. CASE a.op = "delete"
      <3>1. Removes(a) = {a.id} \cap box.stored
        BY <2>2 DEF Removes
      <3>2. a.id \in box.stored => ParseId(a.id, MaxId) # Fault
        BY <1>1, AbsentIs DEF ParseId
      <3>3. CASE a.id \in box.stored
        <4>1. Reply(a) = "OK" /\ Removes(a) = {a.id}
          BY <2>2, <3>1, <3>2, <3>3 DEF Reply
        <4> QED
          BY <1>2, <2>1, <2>2, <3>3, <4>1 DEF Tells, a
      <3>4. CASE a.id \notin box.stored
        <4>1. Reply(a) \in {"INVALID_ARGUMENT", "EMAIL_NOT_FOUND"} /\ Removes(a) = {}
          BY <2>2, <3>1, <3>4 DEF Reply
        <4>2. Reply(a) \in Refusals /\ Reply(a) # "OK"
          BY <4>1, RefusalsAre
        <4> QED
          BY <2>1, <2>2, <4>1, <4>2, WordsAre DEF Tells, a
      <3> QED
        BY <3>3, <3>4
    <2>3. CASE a.op = "clear"
      <3>1. CASE a.expected \in {Absent, Cardinality(box.stored)}
        <4>1. Reply(a) = "OK" /\ Removes(a) = box.stored
          BY <2>3, <3>1 DEF Reply, Removes
        <4> QED
          BY <1>2, <2>1, <2>3, <3>1, <4>1 DEF Tells, a
      <3>2. CASE a.expected \notin {Absent, Cardinality(box.stored)}
        <4>1. Reply(a) = "COUNT_CHANGED" /\ Removes(a) = {}
          BY <2>3, <3>2 DEF Reply, Removes
        <4>2. Reply(a) \in Refusals /\ Reply(a) # "OK"
          BY <4>1, RefusalsAre
        <4> QED
          BY <2>1, <2>3, <4>1, <4>2, WordsAre DEF Tells, a
      <3> QED
        BY <3>1, <3>2
    <2>4. CASE a.op \notin {"delete", "clear"}
      <3>1. Reply(a) = "OK" /\ Removes(a) = {}
        BY <2>4 DEF Reply, Removes
      <3> QED
        BY <1>2, <2>1, <2>4, <3>1 DEF Tells, a
    <2> QED
      BY <2>2, <2>3, <2>4
  <1> QED
    BY <1>3, <1>4

LEMMA PerformMoves ==
  ASSUME IInv, NEW c \in Calls, Perform(c), Op(c) # "wait",
         request[c].is = "fetching" \/ (request[c].is = "arriving" /\ ~ViaMcp(call[c])),
         up # "down", UNCHANGED <<up, call, active, waits>>
  PROVE  IInv'
  <1> DEFINE reply == ReplyOf(c)
             gone == GoneBy(c)
             answer == IF reply = "OK" THEN Found(0) ELSE Answer(reply)
             q2 == Answered(c, answer)
             r2 == removed[c] \cup gone
  <1>1. /\ box' = [box EXCEPT !.stored = @ \ gone]
        /\ removed' = [removed EXCEPT ![c] = r2]
        /\ request' = [request EXCEPT ![c] = q2]
    BY OfOne DEF Perform, ReplyOf, GoneBy
  <1>2. /\ call[c] \in CallRecord /\ request[c] \in RequestRecord
        /\ removed[c] \in SUBSET Nat /\ Typed /\ BoxTyped
        /\ Sound(call[c], request[c], removed[c], box, up)
    BY OfOne DEF IInv, Typed
  <1>3. /\ reply \in Words /\ gone \subseteq box.stored
        /\ Tells(reply, call[c].ask, gone)
        /\ call[c].ask.op \notin {"delete", "clear"} => gone = {}
    BY <1>2, ReplyTells DEF Ask
  <1> HIDE DEF reply, gone
  <1>4. answer \in AnswerRecord /\ answer.code = reply
        /\ (reply = "OK" => FoundNow(answer))
    BY <1>2, <1>3, FoundTyped, AnswerTyped DEF BoxTyped, FoundNow
  <1> HIDE DEF answer
  <1>5. /\ q2 \in RequestRecord /\ q2.is = "answering" /\ q2.signal = request[c].signal
        /\ q2.released = request[c].released /\ Alike(q2.answer, answer)
    BY <1>2, <1>4, AnsweredTyped
  <1> HIDE DEF q2
  <1>6. /\ box' \in MailboxRecord /\ box'.id = box.id /\ box'.last = box.last
        /\ box'.stored \subseteq box.stored /\ box'.matching = box.matching
    BY <1>1, <1>2 DEF BoxTyped, MailboxRecord
  <1>7. BoxTyped' /\ Thinned(box, box')
    <2>1. box.last \in Int
      BY <1>2, RemoteAssumption DEF BoxTyped, MailboxRecord
    <2> QED
      BY <1>2, <1>6, <2>1 DEF BoxTyped, Thinned, Matches
  <1>8. removed[c] = {}
    BY <1>2 DEF Sound, Honest
  <1>9. r2 = gone /\ r2 \in SUBSET Nat
    BY <1>2, <1>3, <1>8 DEF BoxTyped, MailboxRecord
  <1> HIDE DEF r2
  <1>10. Looked(call[c], q2, box)
    <2>1. CASE reply = "OK"
      <3>1. FoundNow(q2.answer)
        BY <1>4, <1>5, <2>1, AlikeFound
      <3>2. ~(Following(call[c]) /\ call[c].after # Absent)
        BY DEF Following, Op, CliWait, Ask
      <3> QED
        BY <1>2, <1>5, <3>1, <3>2, LookedNow
    <2>2. CASE reply # "OK"
      BY <1>4, <1>5, <2>2 DEF Looked, Alike
    <2> QED
      BY <2>1, <2>2
  <1>11. Cursor(call[c], q2, box)
    BY <1>2, <1>5, <1>10 DEF Sound, Cursor, Pending
  <1>12. Cursor(call[c], q2, box')
    BY <1>2, <1>5, <1>6, <1>7, <1>11, CursorThinned DEF BoxTyped
  <1>13. q2.released <=> q2.signal
    BY <1>2, <1>5 DEF Sound, Underway, Progress
  <1>14. Tells(q2.answer.code, call[c].ask, r2)
    BY <1>3, <1>4, <1>5, <1>9 DEF Alike
  <1>15. Looked(call[c], q2, box') /\ Followed(call[c], box')
    BY <1>12 DEF Cursor
  <1>16. request[c].is \in {"arriving", "fetching", "waiting", "answering"}
    OBVIOUS
  <1>17. call[c].ask.op \notin {"delete", "clear"} => r2 = {}
    BY <1>3, <1>9
  <1>18. Sound(call[c], q2, r2, box', up)
    BY <1>2, <1>5, <1>13, <1>14, <1>15, <1>16, <1>17, SoundAnswered
  <1>19. /\ Holds(call[c], request[c]) <=> Holds(call[c], q2)
         /\ ~Waits(call[c], request[c]) /\ ~Waits(call[c], q2)
    BY <1>5 DEF Holds, Waits, Progress
  <1>20. /\ CountMoves(active, active', Holds(call[c], request[c]), Holds(call[c], q2),
                       MaxMcpRequests)
         /\ CountMoves(waits, waits', Waits(call[c], request[c]), Waits(call[c], q2),
                       MaxMcpWaits)
    BY <1>19 DEF CountMoves
  <1>21. call' = [call EXCEPT ![c] = call[c]] /\ up' = up
    BY OfOne
  <1> QED
    BY <1>1, <1>2, <1>5, <1>7, <1>9, <1>18, <1>20, <1>21, OneMoves

-----------------------------------------------------------------------------
(***************************************************************************)
(* Routes and tools                                                        *)
(***************************************************************************)
\* A request is answered, or comes to wait, without touching the mailbox.
LEMMA WaitedMoves ==
  ASSUME IInv, NEW c \in Calls, NEW answer, Waited(c, answer), Op(c) = "wait",
         up # "down", UNCHANGED <<up, box, call, removed, active>>,
         \/ request[c].is = "fetching" /\ ViaMcp(call[c])
         \/ request[c].is = "arriving" /\ ~ViaMcp(call[c]),
         \/ /\ answer.code = "PENDING" /\ ~request[c].signal
            /\ request' = [request EXCEPT ![c] = [request[c] EXCEPT !.is = "waiting"]]
            /\ waits' = IF ViaMcp(call[c]) THEN waits + 1 ELSE waits
            /\ ViaMcp(call[c]) => waits < MaxMcpWaits
         \/ /\ answer.code # "PENDING"
            /\ request' = [request EXCEPT ![c] = Answered(c, answer)]
            /\ waits' = waits
  PROVE  IInv'
  <1>1. ~Waits(call[c], request[c])
    BY DEF Waits
  <1>2. CASE answer.code = "PENDING"
    <2> DEFINE q2 == [request[c] EXCEPT !.is = "waiting"]
    <2>1. /\ ~request[c].signal /\ request' = [request EXCEPT ![c] = q2]
          /\ waits' = IF ViaMcp(call[c]) THEN waits + 1 ELSE waits
          /\ ViaMcp(call[c]) => waits < MaxMcpWaits
      BY <1>2
    <2>2. /\ q2 \in RequestRecord /\ q2.is = "waiting" /\ ~q2.signal
          /\ Sound(call[c], q2, removed[c], box, up)
      BY <1>2, <2>1, SoundPends
    <2> HIDE DEF q2
    <2>3. /\ Holds(call[c], request[c]) <=> Holds(call[c], q2)
          /\ Waits(call[c], q2) <=> ViaMcp(call[c])
      BY <2>1, <2>2 DEF Holds, Waits, Progress
    <2>4. /\ CountMoves(active, active', Holds(call[c], request[c]), Holds(call[c], q2),
                        MaxMcpRequests)
          /\ CountMoves(waits, waits', Waits(call[c], request[c]), Waits(call[c], q2),
                        MaxMcpWaits)
      BY <1>1, <2>1, <2>3 DEF CountMoves
    <2> QED
      BY <2>1, <2>2, <2>4, ServerMoves
  <1>3. CASE answer.code # "PENDING"
    <2> DEFINE q2 == Answered(c, answer)
    <2>1. request' = [request EXCEPT ![c] = q2] /\ waits' = waits
      BY <1>3
    <2>2. /\ q2 \in RequestRecord /\ q2.is = "answering" /\ q2.signal = request[c].signal
          /\ Sound(call[c], q2, removed[c], box, up)
      BY <1>3, SoundWaited
    <2> HIDE DEF q2
    <2>3. /\ Holds(call[c], request[c]) <=> Holds(call[c], q2)
          /\ ~Waits(call[c], q2)
      BY <2>2 DEF Holds, Waits, Progress
    <2>4. /\ CountMoves(active, active', Holds(call[c], request[c]), Holds(call[c], q2),
                        MaxMcpRequests)
          /\ CountMoves(waits, waits', Waits(call[c], request[c]), Waits(call[c], q2),
                        MaxMcpWaits)
      BY <1>1, <2>1, <2>3 DEF CountMoves
    <2> QED
      BY <2>1, <2>2, <2>4, ServerMoves
  <1> QED
    BY <1>2, <1>3

LEMMA RouteStep ==
  ASSUME IInv, NEW c \in Calls, Route(c)
  PROVE  IInv'
  <1>1. /\ up # "down" /\ request[c].is = "arriving" /\ ~ViaMcp(call[c])
        /\ UNCHANGED <<up, call, active, waits>>
    BY DEF Route, Arrived, server, slots, ViaMcp, Mcp, Ask
  <1>2. CASE Op(c) # "wait"
    <2>1. Perform(c)
      BY <1>2 DEF Route
    <2> QED
      BY <1>1, <1>2, <2>1, PerformMoves
  <1>3. CASE Op(c) = "wait"
    <2> DEFINE answer == WaitAnswer(WaitArguments(c))
    <2>1. /\ request' = [request EXCEPT ![c] =
               IF answer.code = "PENDING"
               THEN [request[c] EXCEPT !.is = "waiting"] ELSE Answered(c, answer)]
          /\ UNCHANGED <<box, removed>>
      BY <1>3, OfOne DEF Route
    <2>2. Waited(c, answer)
      BY WaitAnswerWaited
    <2>3. ~request[c].signal
      BY <1>1, OfOne DEF Sound, Underway
    <2> HIDE DEF answer
    <2> QED
      BY <1>1, <1>3, <2>1, <2>2, <2>3, WaitedMoves
  <1> QED
    BY <1>2, <1>3

LEMMA CallToolStep ==
  ASSUME IInv, NEW c \in Calls, CallTool(c)
  PROVE  IInv'
  <1>1. request[c].is = "fetching" /\ UNCHANGED <<up, call, active>>
    BY DEF CallTool, server
  <1>2. ViaMcp(call[c]) /\ up # "down"
    BY <1>1, OfOne DEF Sound, Underway, Progress
  <1>3. CASE UnknownTool(c)
    <2> DEFINE q2 == Answered(c, Answer("UNKNOWN_TOOL"))
    <2>1. request' = [request EXCEPT ![c] = q2] /\ UNCHANGED <<box, waits, removed>>
      BY <1>3 DEF CallTool
    <2>2. Answer("UNKNOWN_TOOL") \in AnswerRecord
          /\ Answer("UNKNOWN_TOOL").code = "UNKNOWN_TOOL"
      BY AnswerTyped, WordsAre, RefusalsAre
    <2>3. /\ call[c] \in CallRecord /\ request[c] \in RequestRecord
          /\ Sound(call[c], request[c], removed[c], box, up)
      BY OfOne
    <2>4. /\ q2 \in RequestRecord /\ q2.is = "answering"
          /\ q2.signal = request[c].signal /\ q2.released = request[c].released
          /\ Alike(q2.answer, Answer("UNKNOWN_TOOL"))
      BY <2>2, <2>3, AnsweredTyped
    <2> HIDE DEF q2
    <2>5. q2.answer.code # "OK" /\ (q2.released <=> q2.signal)
      BY <1>1, <2>2, <2>3, <2>4 DEF Alike, Sound, Underway, Progress
    <2>6. Sound(call[c], q2, removed[c], box, up)
      BY <1>1, <1>2, <2>3, <2>4, <2>5, SoundRefused
    <2>7. /\ Holds(call[c], request[c]) <=> Holds(call[c], q2)
          /\ ~Waits(call[c], request[c]) /\ ~Waits(call[c], q2)
      BY <1>1, <2>4 DEF Holds, Waits, Progress
    <2>8. /\ CountMoves(active, active', Holds(call[c], request[c]), Holds(call[c], q2),
                        MaxMcpRequests)
          /\ CountMoves(waits, waits', Waits(call[c], request[c]), Waits(call[c], q2),
                        MaxMcpWaits)
      BY <1>1, <2>1, <2>7 DEF CountMoves
    <2> QED
      BY <1>1, <2>1, <2>4, <2>6, <2>8, ServerMoves
  <1>4. CASE ~UnknownTool(c) /\ Op(c) # "wait"
    <2>1. Perform(c) /\ UNCHANGED waits
      BY <1>4 DEF CallTool
    <2> QED
      BY <1>1, <1>2, <1>4, <2>1, PerformMoves
  <1>5. CASE ~UnknownTool(c) /\ Op(c) = "wait"
    <2>1. PICK answer :
            /\ answer =
                 IF ~Readable(WaitArguments(c)) THEN Answer("INVALID_ARGUMENT")
                 ELSE IF waits >= MaxMcpWaits THEN Answer("LIMIT_EXCEEDED")
                 ELSE IF request[c].signal THEN Answer("CANCELLED")
                 ELSE WaitAnswer(WaitArguments(c))
            /\ IF answer.code = "PENDING"
               THEN /\ request' = [request EXCEPT ![c].is = "waiting"]
                    /\ waits' = waits + 1
               ELSE /\ request' = [request EXCEPT ![c] = Answered(c, answer)]
                    /\ UNCHANGED waits
            /\ UNCHANGED <<box, removed>>
      BY <1>5 DEF CallTool
    <2>2. waits \in Nat
      BY RemoteAssumption, FS_CardinalityType, FS_Subset, Counters
         DEF IInv, Counted, Queue
    <2>3. /\ "INVALID_ARGUMENT" \in Words /\ "LIMIT_EXCEEDED" \in Words
          /\ "CANCELLED" \in Words
      BY WordsAre, RefusalsAre
    <2>4. Waited(c, answer)
      BY <2>1, <2>3, WaitAnswerWaited, RefusalWaited
    <2>5. answer.code = "PENDING" => ~request[c].signal /\ waits < MaxMcpWaits
      BY <2>1, <2>2, <2>3, RefusalWaited, RemoteAssumption
    <2>6. [request EXCEPT ![c].is = "waiting"]
            = [request EXCEPT ![c] = [request[c] EXCEPT !.is = "waiting"]]
      BY OfOne
    <2> QED
      BY <1>1, <1>2, <1>5, <2>1, <2>4, <2>5, <2>6, WaitedMoves
  <1> QED
    BY <1>3, <1>4, <1>5

LEMMA ServerSteps ==
  ASSUME IInv, NEW c \in Calls, ServerStep(c)
  PROVE  IInv'
  BY RefusedStep, RouteStep, FetchStep, CallToolStep, FetchFailsStep, BodyEndsStep,
     WaitTimerStep, NoticeStep
     DEF ServerStep

-----------------------------------------------------------------------------
(***************************************************************************)
(* Steps of the whole server                                               *)
(***************************************************************************)
\* All waits end, or none: the counters follow.
LEMMA EndWaitsCounts ==
  ASSUME IInv, NEW ended \in {{}, Waiting}, NEW answer \in AnswerRecord,
         EndWaits(ended, answer), UNCHANGED <<call, active>>
  PROVE  /\ Counted' /\ request' \in [Calls -> RequestRecord]
         /\ \A c \in Calls :
              /\ c \in ended => request'[c] = Answered(c, answer)
              /\ c \notin ended => request'[c] = request[c]
  <1>1. Typed /\ Counted
    BY Counters DEF IInv
  <1>2. ended \subseteq Calls
    BY DEF Waiting
  <1>3. request' = [c \in Calls |-> IF c \in ended THEN Answered(c, answer) ELSE request[c]]
    BY DEF EndWaits
  <1>4. \A c \in Calls :
          /\ c \in ended => request'[c] = Answered(c, answer)
          /\ c \notin ended => request'[c] = request[c]
    BY <1>3
  <1>5. \A c \in Calls : Answered(c, answer) \in RequestRecord
    BY OfOne, AnsweredTyped
  <1>6. request' \in [Calls -> RequestRecord]
    BY <1>1, <1>3, <1>5 DEF Typed
  <1>7. ASSUME NEW c \in Calls
        PROVE  /\ Holds(call'[c], request'[c]) <=> Holds(call[c], request[c])
               /\ Waits(call'[c], request'[c])
                    <=> Waits(call[c], request[c]) /\ c \notin ended
    <2>1. CASE c \notin ended
      BY <1>4, <2>1
    <2>2. CASE c \in ended
      <3>1. request[c].is = "waiting" /\ request'[c].is = "answering"
            /\ request'[c].signal = request[c].signal
        BY <1>4, <2>2, OfOne, AnsweredTyped DEF Waiting
      <3> QED
        BY <2>2, <3>1 DEF Holds, Waits, Progress
    <2> QED
      BY <2>1, <2>2
  <1>8. Held' = Held
    BY <1>7 DEF Held
  <1>9. waits' = waits - Cardinality({c \in ended : Mcp(c)})
    BY DEF EndWaits
  <1>10. waits' = Cardinality(Queue') /\ waits' <= MaxMcpWaits
    <2>1. waits \in Nat
      BY <1>1, RemoteAssumption, FS_CardinalityType, FS_Subset DEF Counted, Queue
    <2>2. CASE ended = {}
      <3>1. {c \in ended : Mcp(c)} = {} /\ Queue' = Queue
        BY <1>7, <2>2 DEF Queue
      <3> QED
        BY <1>1, <1>9, <2>1, <3>1, FS_EmptySet DEF Counted
    <2>3. CASE ended = Waiting
      <3>1. {c \in ended : Mcp(c)} = Queue
        BY <2>3 DEF Queue, Waits, ViaMcp, Waiting, Mcp, Ask
      <3>2. Queue' = {}
        BY <1>7, <2>3 DEF Queue, Waits, Waiting
      <3>3. Cardinality({c \in ended : Mcp(c)}) = waits /\ Cardinality(Queue') = 0
        BY <1>1, <3>1, <3>2, FS_EmptySet DEF Counted
      <3>4. waits' = 0 /\ MaxMcpWaits \in Nat
        BY <1>9, <2>1, <3>3, RemoteAssumption
      <3> QED
        BY <3>3, <3>4
    <2> QED
      BY <2>2, <2>3
  <1>11. Counted'
    BY <1>1, <1>8, <1>10 DEF Counted
  <1> QED
    BY <1>4, <1>6, <1>11

\* A wait that ends with a match: the message that just came.
LEMMA SoundMatched ==
  ASSUME NEW k \in CallRecord, NEW q \in RequestRecord, NEW q2 \in RequestRecord, NEW r,
         NEW b2 \in MailboxRecord, box \in MailboxRecord, MovedOn(box, b2),
         Sound(k, q, r, box, up), up # "down", q.is = "waiting",
         q2.is = "answering", q2.released <=> q2.signal,
         q2.answer.code = "OK", q2.answer.data # 0,
         q2.answer.mailbox = b2.id, q2.answer.mark = b2.last
  PROVE  Sound(k, q2, r, b2, up)
  <1>1. r = {} /\ k.ask.op = "wait"
    BY DEF Sound, Honest, Underway
  <1>2. Tells(q2.answer.code, k.ask, r)
    BY <1>1, NotRefusals DEF Tells
  <1>3. b2.id \in 1..b2.id /\ b2.last \in Nat
    BY RemoteAssumption DEF MailboxRecord
  <1>4. Looked(k, q2, b2)
    BY <1>3 DEF Looked
  <1>5. Cursor(k, Unsent, box)
    BY UnsentTyped DEF Sound, Cursor, Looked, Pending
  <1>6. Followed(k, b2)
    BY <1>5, UnsentTyped, CursorMoves DEF Cursor
  <1> QED
    BY <1>1, <1>2, <1>4, <1>6, SoundAnswered

LEMMA ArriveStep ==
  ASSUME IInv, Arrive
  PROVE  IInv'
  <1> DEFINE id == box.last + 1
             found == [Found(id) EXCEPT !.mark = id]
  <1>1. PICK matching \in Arrivals :
          /\ box' = [box EXCEPT !.last = id, !.stored = @ \union {id},
                       !.matching = IF matching THEN @ \union {id} ELSE @]
          /\ EndWaits(IF matching THEN Waiting ELSE {}, found)
    BY DEF Arrive
  <1>2. up = "up" /\ box.last < MaxId /\ UNCHANGED <<up, active, call, removed>>
    BY DEF Arrive, server
  <1>3. matching \in BOOLEAN
    BY RemoteAssumption
  <1>4. Typed /\ BoxTyped /\ box \in MailboxRecord /\ box.last \in Nat /\ id \in 0..MaxId
    BY <1>2, RemoteAssumption DEF IInv, Typed, BoxTyped, MailboxRecord
  <1>5. /\ Found(id) \in AnswerRecord /\ Found(id).code = "OK" /\ Found(id).data = id
        /\ Found(id).mailbox = box.id
    BY <1>4, FoundTyped DEF FoundNow
  <1>6. /\ found \in AnswerRecord /\ found.code = "OK" /\ found.data = id
        /\ found.mailbox = box.id /\ found.mark = id
    BY <1>4, <1>5 DEF AnswerRecord
  <1> DEFINE ended == IF matching THEN Waiting ELSE {}
  <1>7. EndWaits(ended, found) /\ ended \in {{}, Waiting}
    BY <1>1
  <1> HIDE DEF found
  <1>8. /\ box'.id = box.id /\ box'.last = id
        /\ box'.stored = box.stored \cup {id}
        /\ box'.matching = IF matching THEN box.matching \cup {id} ELSE box.matching
        /\ box' \in MailboxRecord
    <2> DEFINE stored == box.stored \cup {id}
               matches == IF matching THEN box.matching \cup {id} ELSE box.matching
    <2>1. box' = [box EXCEPT !.last = id, !.stored = stored, !.matching = matches]
      BY <1>1
    <2>2. stored \in SUBSET Nat /\ matches \in SUBSET Nat
      BY <1>3, <1>4 DEF MailboxRecord
    <2>3. matches = IF matching THEN box.matching \cup {id} ELSE box.matching
      OBVIOUS
    <2>4. id \in 0..MaxId /\ stored = box.stored \cup {id}
      BY <1>4
    <2> HIDE DEF stored, matches, id
    <2>5. /\ box' \in MailboxRecord /\ box'.id = box.id /\ box'.last = id
          /\ box'.stored = stored /\ box'.matching = matches
      BY <1>4, <2>1, <2>2, <2>4 DEF MailboxRecord
    <2> QED
      BY <2>3, <2>4, <2>5
  <1>9. BoxTyped'
    BY <1>4, <1>8 DEF BoxTyped
  <1>10. MovedOn(box, box')
    BY <1>4, <1>8 DEF MovedOn, Matches
  <1>11. ~matching => Thinned(box, box')
    BY <1>4, <1>8 DEF Thinned, Matches, BoxTyped
  <1>12. matching => ended = Waiting
    OBVIOUS
  <1>13. ~matching => ended = {}
    OBVIOUS
  <1> HIDE DEF ended
  <1>14. /\ Counted' /\ request' \in [Calls -> RequestRecord]
         /\ \A c \in Calls :
              /\ c \in ended => request'[c] = Answered(c, found)
              /\ c \notin ended => request'[c] = request[c]
    BY <1>2, <1>6, <1>7, EndWaitsCounts
  <1>15. Typed'
    BY <1>2, <1>4, <1>9, <1>14 DEF Typed
  <1>16. ASSUME NEW c \in Calls
         PROVE  Sound(call'[c], request'[c], removed'[c], box', up')
    <2>1. /\ call[c] \in CallRecord /\ request[c] \in RequestRecord
          /\ Sound(call[c], request[c], removed[c], box, up)
      BY OfOne
    <2>2. CASE c \in ended
      <3>1. request[c].is = "waiting"
        BY <1>3, <1>12, <1>13, <2>2 DEF Waiting
      <3>2. /\ request'[c] \in RequestRecord /\ request'[c].is = "answering"
            /\ request'[c].signal = request[c].signal
            /\ request'[c].released = request[c].released
            /\ Alike(request'[c].answer, found)
        BY <1>6, <1>14, <2>1, <2>2, AnsweredTyped
      <3>3. request'[c].released <=> request'[c].signal
        BY <2>1, <3>1, <3>2 DEF Sound, Underway, Progress
      <3>4. /\ request'[c].answer.code = "OK" /\ request'[c].answer.data # 0
            /\ request'[c].answer.mailbox = box'.id /\ request'[c].answer.mark = box'.last
        BY <1>4, <1>6, <1>8, <3>2 DEF Alike
      <3>5. Sound(call[c], request'[c], removed[c], box', up)
        BY <1>2, <1>4, <1>8, <1>10, <2>1, <3>1, <3>2, <3>3, <3>4, SoundMatched
      <3> QED
        BY <1>2, <3>5
    <2>3. CASE c \notin ended
      <3>1. request'[c] = request[c]
        BY <1>14, <2>3
      <3>2. CASE matching
        <4>1. request[c].is # "waiting"
          BY <1>12, <2>3, <3>2 DEF Waiting
        <4>2. Cursor(call[c], request[c], box')
          BY <1>4, <1>8, <1>10, <2>1, <4>1, CursorMoves DEF Sound
        <4> QED
          BY <1>2, <2>1, <3>1, <4>2 DEF Sound
      <3>3. CASE ~matching
        <4>1. Cursor(call[c], request[c], box')
          BY <1>4, <1>8, <1>11, <2>1, <3>3, CursorThinned DEF Sound
        <4> QED
          BY <1>2, <2>1, <3>1, <4>1 DEF Sound
      <3> QED
        BY <1>3, <3>2, <3>3
    <2> QED
      BY <2>2, <2>3
  <1>17. EachSound'
    BY <1>16 DEF EachSound
  <1> QED
    BY <1>14, <1>15, <1>17, Parts, Counters, PTL

LEMMA StopStep ==
  ASSUME IInv, Stop
  PROVE  IInv'
  <1> DEFINE answer == Answer("SHUTTING_DOWN")
  <1>1. /\ up = "up" /\ up' = "stopping" /\ EndWaits(Waiting, answer)
        /\ UNCHANGED <<box, active, call, removed>>
    BY DEF Stop
  <1>2. answer \in AnswerRecord /\ answer.code # "OK"
    BY AnswerTyped, WordsAre
  <1>3. Typed
    BY DEF IInv
  <1> HIDE DEF answer
  <1>4. /\ Counted' /\ request' \in [Calls -> RequestRecord]
        /\ \A c \in Calls :
             /\ c \in Waiting => request'[c] = Answered(c, answer)
             /\ c \notin Waiting => request'[c] = request[c]
    BY <1>1, <1>2, EndWaitsCounts
  <1>5. Typed'
    BY <1>1, <1>3, <1>4 DEF Typed, BoxTyped
  <1>6. ASSUME NEW c \in Calls
        PROVE  Sound(call'[c], request'[c], removed'[c], box', up')
    <2>1. /\ request[c] \in RequestRecord
          /\ Sound(call[c], request[c], removed[c], box, up)
      BY OfOne
    <2>2. Sound(call[c], request[c], removed[c], box, up')
      BY <1>1, <2>1 DEF Sound, Underway
    <2>3. CASE c \in Waiting
      <3>1. /\ request'[c].is = "answering"
            /\ request'[c].signal = request[c].signal
            /\ request'[c].released = request[c].released
            /\ Alike(request'[c].answer, answer)
        BY <1>2, <1>4, <2>1, <2>3, AnsweredTyped
      <3>2. request[c].is = "waiting"
        BY <2>3 DEF Waiting
      <3>3. (request'[c].released <=> request'[c].signal) /\ request'[c].answer.code # "OK"
        BY <1>2, <2>1, <3>1, <3>2 DEF Sound, Underway, Progress, Alike
      <3>4. Sound(call[c], request'[c], removed[c], box, up')
        BY <1>1, <2>2, <3>1, <3>2, <3>3, SoundRefused
      <3> QED
        BY <1>1, <3>4
    <2>4. CASE c \notin Waiting
      BY <1>1, <1>4, <2>2, <2>4
    <2> QED
      BY <2>3, <2>4
  <1>7. EachSound'
    BY <1>6 DEF EachSound
  <1> QED
    BY <1>4, <1>5, <1>7, Parts, Counters, PTL

\* The process ends: what is not delivered is gone, and its slots with it.
LEMMA ExitStep ==
  ASSUME IInv, Exit
  PROVE  IInv'
  <1>1. /\ up' = "down" /\ active' = 0 /\ waits' = 0 /\ UNCHANGED <<box, removed>>
        /\ request' = [c \in Calls |->
             IF request[c].is = "delivered" THEN request[c] ELSE Unsent]
        /\ call' = [c \in Calls |->
             IF Open(c) /\ request[c].is # "delivered"
             THEN [call[c] EXCEPT !.lost = TRUE] ELSE call[c]]
    BY DEF Exit
  <1>2. Typed
    BY DEF IInv
  <1>3. ASSUME NEW c \in Calls
        PROVE  /\ request'[c] \in RequestRecord
               /\ \/ request'[c].is = "none"
                  \/ request'[c] = request[c] /\ request[c].is = "delivered"
    <2>1. request'[c] = IF request[c].is = "delivered" THEN request[c] ELSE Unsent
      BY <1>1
    <2> QED
      BY <2>1, OfOne, UnsentTyped
  <1>4. ASSUME NEW c \in Calls
        PROVE  call'[c] \in CallRecord /\ SameCall(call[c], call'[c])
    <2>1. call'[c] = IF Open(c) /\ request[c].is # "delivered"
                     THEN [call[c] EXCEPT !.lost = TRUE] ELSE call[c]
      BY <1>1
    <2>2. [call[c] EXCEPT !.lost = TRUE] \in CallRecord
          /\ SameCall(call[c], [call[c] EXCEPT !.lost = TRUE])
      BY OfOne DEF CallRecord, SameCall
    <2>3. call[c] \in CallRecord /\ SameCall(call[c], call[c])
      BY OfOne DEF SameCall
    <2> QED
      BY <2>1, <2>2, <2>3
  <1>5. Typed'
    BY <1>1, <1>2, <1>3, <1>4 DEF Typed, BoxTyped
  <1>6. ASSUME NEW c \in Calls
        PROVE  Sound(call'[c], request'[c], removed'[c], box', up')
    <2>1. Sound(call'[c], request[c], removed[c], box, up)
      BY <1>4, OfOne, SoundTroubled
    <2>2. request'[c].is \notin Progress \cup {"arriving"}
      BY <1>3 DEF Progress
    <2>3. Underway(call'[c], request'[c], up')
      BY <1>3, <2>1, <2>2 DEF Sound, Underway, Progress
    <2>4. Honest(call'[c], request'[c], removed[c])
      BY <1>3, <2>1 DEF Sound, Honest
    <2>5. Cursor(call'[c], request'[c], box)
      BY <1>3, <2>1 DEF Sound, Cursor, Looked, Pending
    <2> QED
      BY <1>1, <2>3, <2>4, <2>5 DEF Sound
  <1>7. EachSound'
    BY <1>6 DEF EachSound
  <1>8. Held' = {} /\ Queue' = {}
    BY <1>3 DEF Held, Queue, Holds, Waits, Progress
  <1>9. Cardinality(Held') = 0 /\ Cardinality(Queue') = 0
    BY <1>8, FS_EmptySet
  <1>10. Counted'
    BY <1>1, <1>9, RemoteAssumption DEF Counted
  <1> QED
    BY <1>5, <1>7, <1>10, Parts, Counters, PTL

\* It starts again, with the mailbox it had or another one.
LEMMA StartStep ==
  ASSUME IInv, Start
  PROVE  IInv'
  <1>1. /\ up = "down" /\ up' = "up" /\ UNCHANGED <<active, waits, call, request, removed>>
        /\ \/ box' = box
           \/ box' = [id |-> box.id + 1, last |-> 0, stored |-> {}, matching |-> {}]
    BY DEF Start, slots
  <1>2. Typed /\ Counted
    BY Counters DEF IInv
  <1>3. BoxTyped' /\ MovedOn(box, box')
    BY <1>1, <1>2, RemoteAssumption DEF Typed, BoxTyped, MailboxRecord, MovedOn, Matches
  <1>4. Typed'
    BY <1>1, <1>2, <1>3 DEF Typed
  <1>5. ASSUME NEW c \in Calls
        PROVE  Sound(call'[c], request'[c], removed'[c], box', up')
    <2>1. /\ call[c] \in CallRecord /\ request[c] \in RequestRecord
          /\ Sound(call[c], request[c], removed[c], box, up)
      BY OfOne
    <2>2. request[c].is \notin Progress /\ request[c].is # "waiting"
      BY <1>1, <2>1 DEF Sound, Underway, Progress
    <2>3. Cursor(call[c], request[c], box')
      BY <1>2, <1>3, <2>1, <2>2, CursorMoves DEF Typed, BoxTyped, Sound
    <2>4. Underway(call[c], request[c], up')
      BY <1>1, <2>1 DEF Sound, Underway
    <2> QED
      BY <1>1, <2>1, <2>3, <2>4 DEF Sound
  <1>6. EachSound'
    BY <1>5 DEF EachSound
  <1>7. Counted'
    BY <1>1, <1>2 DEF Counted, Held, Queue
  <1> QED
    BY <1>4, <1>6, <1>7, Parts, Counters, PTL

-----------------------------------------------------------------------------
(***************************************************************************)
(* The bridge process, and steps that change nothing here                  *)
(***************************************************************************)
LEMMA FinishBridgeStep ==
  ASSUME IInv, FinishBridge
  PROVE  IInv'
  <1>1. /\ UNCHANGED <<up, box, active, waits, request, removed>>
        /\ call' = [c \in Calls |-> IF Open(c) /\ Ask(c).via = "bridge"
                                    THEN [call[c] EXCEPT !.aborted = TRUE] ELSE call[c]]
    BY DEF FinishBridge, server, slots
  <1>2. Typed /\ Counted
    BY Counters DEF IInv
  <1>3. ASSUME NEW c \in Calls
        PROVE  call'[c] \in CallRecord /\ SameCall(call[c], call'[c])
    <2>1. call'[c] = IF Open(c) /\ Ask(c).via = "bridge"
                     THEN [call[c] EXCEPT !.aborted = TRUE] ELSE call[c]
      BY <1>1
    <2>2. [call[c] EXCEPT !.aborted = TRUE] \in CallRecord
          /\ SameCall(call[c], [call[c] EXCEPT !.aborted = TRUE])
      BY OfOne DEF CallRecord, SameCall
    <2>3. call[c] \in CallRecord /\ SameCall(call[c], call[c])
      BY OfOne DEF SameCall
    <2> QED
      BY <2>1, <2>2, <2>3
  <1>4. Typed'
    BY <1>1, <1>2, <1>3 DEF Typed, BoxTyped
  <1>5. \A c \in Calls : Sound(call'[c], request'[c], removed'[c], box', up')
    BY <1>1, <1>3, OfOne, SoundTroubled
  <1>6. EachSound'
    BY <1>5 DEF EachSound
  <1>7. Held' = Held /\ Queue' = Queue
    BY <1>1, <1>3 DEF Held, Queue, Holds, Waits, ViaMcp, SameCall
  <1>8. Counted'
    BY <1>1, <1>2, <1>7 DEF Counted
  <1> QED
    BY <1>4, <1>6, <1>8, Parts, Counters, PTL

LEMMA SameKeeps ==
  ASSUME IInv, UNCHANGED <<up, box, active, waits, call, request, removed>>
  PROVE  IInv'
  <1>1. Typed /\ EachSound /\ Counted
    BY Parts, Counters
  <1>2. Typed' /\ EachSound' /\ Counted'
    BY <1>1 DEF Typed, BoxTyped, EachSound, Counted, Held, Queue
  <1> QED
    BY <1>2, Parts, Counters, PTL

-----------------------------------------------------------------------------
LEMMA InitialInv == Init => IInv
  <1> SUFFICES ASSUME Init PROVE IInv
    OBVIOUS
  <1>1. Idle \in CallRecord /\ Idle.is = "idle" /\ Idle.start = Absent /\ Idle.after = Absent
    BY WordsAre, AbsentIs DEF Idle, CallRecord, AnyAsk
  <1>2. \A c \in Calls : call[c] = Idle /\ request[c] = Unsent /\ removed[c] = {}
    BY DEF Init
  <1>3. BoxTyped
    BY RemoteAssumption DEF Init, BoxTyped, MailboxRecord
  <1>4. Typed
    BY <1>1, <1>3, UnsentTyped DEF Init, Typed
  <1>5. Underway(Idle, Unsent, up)
    BY UnsentTyped DEF Underway, Progress
  <1>6. Honest(Idle, Unsent, {})
    BY <1>1, UnsentTyped DEF Honest
  <1>7. Cursor(Idle, Unsent, box)
    BY <1>1, UnsentTyped DEF Cursor, Followed, Looked, Pending
  <1>8. EachSound
    BY <1>2, <1>5, <1>6, <1>7 DEF EachSound, Sound
  <1>9. Held = {} /\ Queue = {}
    BY <1>2, UnsentTyped DEF Held, Queue, Holds, Waits, Progress
  <1>10. Cardinality(Held) = 0 /\ Cardinality(Queue) = 0
    BY <1>9, FS_EmptySet
  <1>11. Counted
    BY <1>10, RemoteAssumption DEF Init, Counted
  <1> QED
    BY <1>4, <1>8, <1>11, Parts, Counters

LEMMA StepInv == IInv /\ [Next]_vars => IInv'
  <1> SUFFICES ASSUME IInv, [Next]_vars PROVE IInv'
    OBVIOUS
  <1>1. CASE StartBridge \/ ExitBridge \/ UNCHANGED vars
    <2>1. UNCHANGED <<up, box, active, waits, call, request, removed>>
      BY <1>1 DEF StartBridge, ExitBridge, vars, server, slots
    <2> QED
      BY <2>1, SameKeeps
  <1>2. CASE \E c \in Calls : ServerStep(c) \/ ClientStep(c)
    BY <1>2, ServerSteps, ClientSteps
  <1>3. CASE Arrive
    BY <1>3, ArriveStep
  <1>4. CASE Stop
    BY <1>4, StopStep
  <1>5. CASE Exit
    BY <1>5, ExitStep
  <1>6. CASE Start
    BY <1>6, StartStep
  <1>7. CASE FinishBridge
    BY <1>7, FinishBridgeStep
  <1> QED
    BY <1>1, <1>2, <1>3, <1>4, <1>5, <1>6, <1>7 DEF Next

LEMMA Invariant == Spec => []IInv
  BY InitialInv, StepInv, PTL DEF Spec

-----------------------------------------------------------------------------
\* Both counters of the endpoint agree with the calls in progress and stay
\* below their limits, whatever ended the calls and in whatever order the
\* abort, the end of the body and the error came.
THEOREM SlotsAreReturned == Spec => []SlotsAreHeld
  <1>1. IInv => SlotsAreHeld
    BY DEF IInv
  <1> QED
    BY <1>1, Invariant, PTL

\* What a caller is told of a deletion is true, with any number of callers
\* deleting the same mail, restarts in between and answers of proxies.
THEOREM OutcomesAreHonest == Spec => []HonestOutcome
  <1>1. IInv => HonestOutcome
    BY DEF IInv, EachHonest, Honest, Tells, HonestOutcome, Ask
  <1> QED
    BY <1>1, Invariant, PTL

\* The wait command never steps over a stored match: every answer that moves
\* its cursor found no match up to its mark, in the mailbox the cursor is of.
THEOREM WaitMissesNothing == Spec => []NoMatchSkipped
  <1>1. ASSUME IInv, NEW c \in Calls, call[c].start # Absent, call[c].mailbox = box.id,
               NEW m \in MatchesAfter(call[c].start)
        PROVE  m > call[c].after
    <2>1. Followed(call[c], box)
      BY <1>1 DEF IInv, EachCursor, Cursor
    <2>2. /\ call[c].start \in Int /\ call[c].after \in Int /\ m \in Int
          /\ m \in box.stored \cap box.matching /\ m > call[c].start
      BY <1>1, OfOne DEF IInv, Typed, BoxTyped, MailboxRecord, CallRecord, MatchesAfter
    <2> QED
      BY <1>1, <2>1, <2>2 DEF Followed, NoneBetween
  <1>2. IInv => NoMatchSkipped
    BY <1>1 DEF NoMatchSkipped
  <1> QED
    BY <1>2, Invariant, PTL
=============================================================================
