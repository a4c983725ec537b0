------------------------- MODULE ImapSession_proofs -------------------------
(***************************************************************************)
(* PasswordsStayPrivate, DeadlinesKept and PacedFetchFits for any command  *)
(* lines, sizes, limits and times.                                         *)
(*                                                                         *)
(* Passwords: the rules of the command line hold of the configuration for  *)
(* ever (LegalConfig), and a session compares credentials only after       *)
(* checking the policy derived from it, for AUTHENTICATE one line later    *)
(* than for LOGIN (Checked).                                               *)
(*                                                                         *)
(* Deadlines: until login the one timer of a session and its age add up to *)
(* PreAuthMs, and since the login takes the timer over as it stands, it    *)
(* needs silent <= age and PreAuthMs <= IdleMs for the timer to be early   *)
(* enough afterwards (TimerCovers).  It may then be too early: CheckTime   *)
(* sets it again, so that nobody is logged out with time left.             *)
(*                                                                         *)
(* Output: what planFetch() plans is a sequence of sizes of which none is  *)
(* beyond MaxResponseBytes, whatever is asked for (PlanOf), and the loop   *)
(* sends one of them only when it fits over LowWater (FetchFits).          *)
(***************************************************************************)
EXTENDS ImapSession, SequenceTheorems, WellFoundedInduction,
        TLAPS

LegalConfig ==
  \E c \in CommandLines : Runs(c) /\ config = Configured(c)

Checked ==
  /\ sasl => MayAuthenticate
  /\ exposed => AllowsPlaintextImapAuth(config)

Clocks ==
  /\ age \in Nat /\ silent \in Nat /\ timer \in Nat \cup {Off}
  /\ socket = "open" => ended = "no"

TimerCovers ==
  socket = "open" =>
    /\ timer # Off
    /\ IF Unauthenticated
       THEN age + timer = PreAuthMs /\ silent <= age
       ELSE silent + timer <= IdleMs

NoneTooEarly == ended = "autologout" => Remaining <= 0

IInv ==
  /\ LegalConfig
  /\ Checked
  /\ Clocks
  /\ TimerCovers
  /\ NoneTooEarly

-----------------------------------------------------------------------------
(***************************************************************************)
(* The configuration and the credentials                                   *)
(***************************************************************************)
\* What a command line that runs allows on plaintext connections.
LEMMA RulesProtect ==
  ASSUME NEW c \in CommandLines, Runs(c),
         AllowsPlaintextImapAuth(Configured(c))
  PROVE  /\ Configured(c).host = "loopback"
         /\ Configured(c).credentials => Configured(c).insecure
<1>1. c \in CommandLine
  BY SessionAssumption
<1>2. c.host \in Hosts
  BY <1>1 DEF CommandLine
<1> QED
  BY <1>2 DEF Runs, UsageError, ExposureFault, AllowsPlaintextImapAuth,
     Configured, Hosts

LEMMA Limits ==
  /\ MaxMessageBytes \in Nat \ {0} /\ MiB \in Nat \ {0}
  /\ PreAuthMs \in Nat \ {0} /\ IdleMs \in Nat \ {0} /\ PreAuthMs <= IdleMs
BY SessionAssumption

LEMMA OffIsNoTime == Off \notin Nat
BY DEF Off

LEMMA InitIInv == Init => IInv
<1> SUFFICES ASSUME Init PROVE IInv
  OBVIOUS
<1>1. LegalConfig /\ Checked
  <2>1. \E c \in CommandLines : Runs(c) /\ config = Configured(c)
    BY DEF Init
  <2>2. ~sasl /\ ~exposed
    BY DEF Init
  <2> QED
    BY <2>1, <2>2 DEF LegalConfig, Checked
<1>2. Clocks
  BY Limits DEF Init, Clocks
<1>3. TimerCovers
  <2>1. Unauthenticated /\ age = 0 /\ silent = 0 /\ timer = PreAuthMs
    BY DEF Init, Unauthenticated
  <2> QED
    BY <2>1, Limits, OffIsNoTime DEF TimerCovers
<1>4. NoneTooEarly
  BY DEF Init, NoneTooEarly
<1> QED
  BY <1>1, <1>2, <1>3, <1>4 DEF IInv

\* The only steps that compare credentials, or get ready to, are those of
\* LOGIN and AUTHENTICATE; TLS once negotiated stays.
LEMMA AuthStep ==
  ASSUME LegalConfig, Checked, [Next]_vars
  PROVE  (LegalConfig /\ Checked)'
<1> USE DEF LegalConfig, Checked, MayAuthenticate
<1>1. CASE UNCHANGED auth
  BY <1>1 DEF auth
<1>2. ASSUME NEW right \in BOOLEAN, LoginCommand(right)
      PROVE  (LegalConfig /\ Checked)'
  BY <1>2 DEF LoginCommand, Compare
<1>3. CASE AuthenticateCommand
  BY <1>3 DEF AuthenticateCommand
<1>4. CASE StartTlsCommand
  BY <1>4 DEF StartTlsCommand
<1>5. CASE Run
  <2>1. \/ \E right \in BOOLEAN : LoginCommand(right)
        \/ AuthenticateCommand \/ StartTlsCommand \/ UNCHANGED auth
    BY <1>5 DEF Run, InboxOnlyCommand
  <2> QED
    BY <1>1, <1>2, <1>3, <1>4, <2>1
<1>6. CASE SaslLine
  <2>1. sasl /\ ~sasl' /\ UNCHANGED <<config, secure>>
    BY <1>6 DEF SaslLine
  <2>2. exposed' => exposed \/ ~secure
    BY <1>6 DEF SaslLine, Compare
  <2> QED
    BY <2>1, <2>2
<1>7. CASE Handshake
  BY <1>7 DEF Handshake
<1> QED
  BY <1>1, <1>5, <1>6, <1>7
  DEF Next, Input, Schedule, CheckDone, NextBatch, Notify, ClientReads,
      ClientCloses, DrainTimeout, CheckTime, Tick, vars

-----------------------------------------------------------------------------
(***************************************************************************)
(* The clocks                                                              *)
(***************************************************************************)
\* What the work of a session does to its end and its timer.
Undisturbed == UNCHANGED <<socket, ended, timer>>

Gone(why) ==
  /\ socket' \in {"ending", "destroyed"}
  /\ ended' = why \/ (ended # "no" /\ ended' = ended)
  /\ timer' \in {timer, Off}

LEMMA Endings ==
  /\ \A why : Destroy(why) => Gone(why)
  /\ \A why : Bye(why) => Gone(why)
BY DEF Destroy, Bye, Gone, Off

\* Every way out of an action but the timers' leaves an open session its timer,
\* and none gives the timeout as a reason.
LEMMA Disturbances ==
  ASSUME Clocks, [Next]_vars, ~Tick, ~CheckTime
  PROVE  \/ Undisturbed
         \/ \E why \in {"unread", "fetch", "drain", "commands", "logout",
                       "client"} \cup {ended} : Gone(why)
<1> DEFINE Goal ==
      \/ Undisturbed
      \/ \E why \in {"unread", "fetch", "drain", "commands", "logout",
                    "client"} \cup {ended} : Gone(why)
<1>1. CASE Input
  BY <1>1 DEF Input, Undisturbed
<1>2. CASE Schedule
  BY <1>2, Endings DEF Schedule, Undisturbed
<1>3. CASE SaslLine
  BY <1>3, Endings DEF SaslLine, Write, Undisturbed
<1>4. CASE Run
  <2>1. ASSUME NEW items \in Requests, NEW sizes, FetchCommand(items, sizes)
        PROVE  Goal
    BY <2>1, Endings DEF FetchCommand, Answer, Write, Undisturbed
  <2>2. CASE CheckCommand
    BY <2>2 DEF CheckCommand, Undisturbed
  <2> QED
    BY <1>4, <2>1, <2>2, Endings DEF Run, Answer, Write, Undisturbed
<1>5. CASE Handshake
  BY <1>5, Endings DEF Handshake, Undisturbed
<1>6. CASE CheckDone
  BY <1>6, Endings DEF CheckDone, Write, Undisturbed
<1>7. CASE NextBatch
  BY <1>7, Endings DEF NextBatch, Write, Undisturbed
<1>8. CASE Notify
  BY <1>8, Endings DEF Notify, Write, Undisturbed
<1>9. CASE ClientReads
  BY <1>9, Endings DEF ClientReads, Undisturbed
<1>10. CASE ClientCloses
  BY <1>10, Endings DEF ClientCloses
<1>11. CASE DrainTimeout
  BY <1>11, Endings DEF DrainTimeout, Undisturbed
<1>12. CASE UNCHANGED vars
  BY <1>12 DEF vars, clock, Undisturbed
<1> QED
  BY <1>1, <1>2, <1>3, <1>4, <1>5, <1>6, <1>7, <1>8, <1>9, <1>10, <1>11,
     <1>12 DEF Next

\* Commands and input leave the clocks to run on, or set back the idle time,
\* and only an open session gets either.
LEMMA StateChanges ==
  ASSUME [Next]_vars, ~Tick
  PROVE  /\ age' = age /\ silent' \in {silent, 0}
         /\ Unauthenticated' => Unauthenticated
         /\ socket # "open" => silent' = silent /\ (Unauthenticated' <=> Unauthenticated)
<1> DEFINE Goal == /\ age' = age /\ silent' \in {silent, 0}
                   /\ state' \in {state, "Authenticated"}
                   /\ socket # "open" => UNCHANGED <<silent, state>>
<1>a. SUFFICES Goal
  BY DEF Unauthenticated
<1>1. CASE UNCHANGED auth /\ UNCHANGED <<age, silent>>
  BY <1>1 DEF auth
<1>2. CASE Input
  BY <1>2 DEF Input, Reading, auth
<1>3. CASE SaslLine
  BY <1>3 DEF SaslLine, Compare
<1>4. CASE Run
  BY <1>4 DEF Run, Idle, LoginCommand, Compare, AuthenticateCommand,
     InboxOnlyCommand, StartTlsCommand, auth
<1>5. CASE Handshake
  BY <1>5 DEF Handshake
<1> QED
  BY <1>1, <1>2, <1>3, <1>4, <1>5
  DEF Next, Schedule, CheckDone, NextBatch, Notify, ClientReads, ClientCloses,
      DrainTimeout, CheckTime, vars, clock

LEMMA EarlyEnough ==
  ASSUME NEW s \in Nat, NEW t \in Nat, NEW r \in Nat, r <= s,
         NEW limit \in Nat, s + t <= limit
  PROVE  r + t <= limit
OBVIOUS

LEMMA ClockStep ==
  ASSUME Clocks, TimerCovers, NoneTooEarly, [Next]_vars
  PROVE  (Clocks /\ TimerCovers /\ NoneTooEarly)'
<1> DEFINE Goal == (Clocks /\ TimerCovers /\ NoneTooEarly)'
<1> USE Limits, OffIsNoTime DEF Clocks, TimerCovers, NoneTooEarly
<1>1. CASE Tick
  <2>1. /\ UNCHANGED <<socket, ended>> /\ timer # 0
        /\ (Unauthenticated' <=> Unauthenticated) /\ timer' = Later(timer)
    BY <1>1 DEF Tick, auth, Unauthenticated
  <2>2. CASE socket = "open"
    <3>1. /\ age' = IF Unauthenticated THEN MinOf(age + 1, PreAuthMs + 1) ELSE 0
          /\ silent' = MinOf(silent + 1, IdleMs + 1)
      BY <1>1, <2>2 DEF Tick
    <3>2. timer \in Nat \ {0} /\ timer' = timer - 1 /\ ended' = "no"
      BY <2>1, <2>2 DEF Later
    <3>3. CASE Unauthenticated
      BY <2>1, <2>2, <3>1, <3>2, <3>3 DEF MinOf
    <3>4. CASE ~Unauthenticated
      BY <2>1, <2>2, <3>1, <3>2, <3>4 DEF MinOf
    <3> QED
      BY <3>3, <3>4
  <2>3. CASE socket # "open"
    <3>1. UNCHANGED <<age, silent>>
      BY <1>1, <2>3 DEF Tick
    <3> QED
      BY <2>1, <2>3, <3>1 DEF Later, Remaining
  <2> QED
    BY <2>2, <2>3
<1>2. CASE CheckTime
  <2>1. /\ UNCHANGED <<age, silent>> /\ timer = 0
        /\ (Unauthenticated' <=> Unauthenticated)
    BY <1>2 DEF CheckTime, auth, Unauthenticated
  <2>2. CASE socket # "open" /\ timer' = Off /\ UNCHANGED <<socket, ended>>
    BY <2>1, <2>2 DEF Remaining
  <2>3. CASE /\ socket = "open" /\ Remaining > 0
             /\ timer' = Remaining /\ UNCHANGED <<socket, ended>>
    BY <2>1, <2>3 DEF Remaining
  <2>4. CASE socket = "open" /\ Remaining <= 0 /\ Gone("autologout")
    BY <2>1, <2>4 DEF Gone, Remaining
  <2> QED
    BY <1>2, <2>2, <2>3, <2>4, Endings DEF CheckTime
<1>3. CASE ~Tick /\ ~CheckTime
  <2>1. \/ Undisturbed
        \/ \E why \in {"unread", "fetch", "drain", "commands", "logout",
                      "client"} \cup {ended} : Gone(why)
    BY <1>3, Disturbances
  <2>2. /\ age' = age /\ silent' \in {silent, 0}
        /\ Unauthenticated' => Unauthenticated
        /\ socket # "open" => silent' = silent /\ (Unauthenticated' <=> Unauthenticated)
    BY <1>3, StateChanges
  <2>3. silent' \in Nat /\ silent' <= silent
    BY <2>2
  <2>4. CASE Undisturbed
    <3>1. UNCHANGED <<socket, ended, timer>>
      BY <2>4 DEF Undisturbed
    <3>2. Clocks'
      BY <2>2, <2>3, <3>1
    <3>3. NoneTooEarly'
      BY <2>2, <3>1 DEF Remaining
    <3>4. TimerCovers'
      <4>1. CASE socket = "open" /\ Unauthenticated
        <5>1. /\ timer' \in Nat /\ timer' # Off
              /\ age' + timer' = PreAuthMs /\ silent' <= age'
          BY <2>2, <2>3, <3>1, <4>1
        <5>2. silent' + timer' <= IdleMs
          BY <2>2, <2>3, <5>1, EarlyEnough
        <5> QED
          BY <5>1, <5>2
      <4>2. CASE socket = "open" /\ ~Unauthenticated
        <5>1. timer' \in Nat /\ timer' # Off /\ silent + timer' <= IdleMs
          BY <3>1, <4>2
        <5>2. silent' + timer' <= IdleMs
          BY <2>3, <5>1, EarlyEnough
        <5> QED
          BY <2>2, <4>2, <5>1, <5>2
      <4>3. CASE socket # "open"
        BY <3>1, <4>3
      <4> QED
        BY <4>1, <4>2, <4>3
    <3> QED
      BY <3>2, <3>3, <3>4
  <2>5. ASSUME NEW why \in {"unread", "fetch", "drain", "commands", "logout",
                            "client"} \cup {ended}, Gone(why)
        PROVE  Goal
    <3>1. socket' # "open" /\ timer' \in {timer, Off}
      BY <2>5 DEF Gone
    <3>2. ended' = "autologout" => ended = "autologout"
      BY <2>5 DEF Gone
    <3>3. NoneTooEarly'
      BY <2>2, <3>1, <3>2 DEF Remaining
    <3>4. Clocks' /\ TimerCovers'
      BY <2>2, <2>3, <3>1
    <3> QED
      BY <3>3, <3>4
  <2> QED
    BY <2>1, <2>4, <2>5
<1> QED
  BY <1>1, <1>2, <1>3

LEMMA IInvStep == IInv /\ [Next]_vars => IInv'
BY AuthStep, ClockStep DEF IInv

LEMMA Inductive == Spec => []IInv
BY InitIInv, IInvStep, PTL DEF Spec

-----------------------------------------------------------------------------
(***************************************************************************)
(* The plan of a FETCH                                                     *)
(*                                                                         *)
(* planFetch() is written with folds over sequences, which are functions   *)
(* on the sets of positions.  A fold stays in a set that its operation     *)
(* does not leave; that there is such a function at all is shown for any   *)
(* table of operations on the set.                                         *)
(***************************************************************************)
LEMMA LeastNumber ==
  ASSUME NEW T \in SUBSET Nat, T # {}
  PROVE  \E i \in T : \A j \in T : i <= j
<1> DEFINE Below == {pair \in Nat \X Nat : pair[1] < pair[2]}
<1>1. IsWellFoundedOn(Below, Nat)
  BY NatLessThanWellFounded DEF OpToRel
<1> HIDE DEF Below
<1>2. PICK i \in T : \A j \in T : <<j, i>> \notin Below
  BY <1>1, WFMin
<1>3. ASSUME NEW j \in T PROVE i <= j
  <2>1. i \in Nat /\ j \in Nat /\ (j < i => <<j, i>> \in Below)
    BY DEF Below
  <2> QED
    BY <1>2, <2>1
<1> QED
  BY <1>3

LEMMA TopIs ==
  ASSUME NEW m \in Nat, NEW s \in SUBSET (1..m), m \in s
  PROVE  Max(s) = m /\ s \ {m} \in SUBSET (1..(m - 1))
<1>1. \A i \in s : i \in 1..m /\ m >= i
  OBVIOUS
<1>2. \A x \in s : (\A y \in s : x >= y) => x = m
  BY <1>1
<1>3. Max(s) = m
  BY <1>1, <1>2 DEF Max
<1> QED
  BY <1>1, <1>3

LEMMA WithoutTop ==
  ASSUME NEW m \in Nat, NEW s \in SUBSET (1..m), m \notin s
  PROVE  s \in SUBSET (1..(m - 1))
OBVIOUS

LEMMA FoldStays ==
  ASSUME NEW n \in Nat, NEW A, NEW f, f[{}] \in A,
         \A s \in SUBSET (1..n) : s # {} /\ f[s \ {Max(s)}] \in A => f[s] \in A
  PROVE  \A s \in SUBSET (1..n) : f[s] \in A
<1> DEFINE Leaves == {m \in 0..n : \E s \in SUBSET (1..m) : f[s] \notin A}
<1>1. SUFFICES ASSUME Leaves # {} PROVE FALSE
  <2>1. n \in 0..n
    OBVIOUS
  <2> QED
    BY <2>1
<1>2. PICK m \in Leaves : \A k \in Leaves : m <= k
  <2>1. Leaves \in SUBSET Nat
    OBVIOUS
  <2> QED
    BY <1>1, <2>1, LeastNumber
<1>3. PICK s \in SUBSET (1..m) : f[s] \notin A
  BY <1>2
<1>4. m \in Nat /\ m <= n
  OBVIOUS
<1>5. s # {}
  BY <1>3
<1>6. m # 0
  <2>1. 1..0 = {}
    OBVIOUS
  <2>2. s \in SUBSET (1..m)
    BY <1>3
  <2>3. m = 0 => s \subseteq {}
    BY <2>1, <2>2
  <2> QED
    BY <1>5, <2>3
<1>7. \A t \in SUBSET (1..(m - 1)) : f[t] \in A
  <2>1. m - 1 \notin Leaves /\ m - 1 \in 0..n
    BY <1>2, <1>4, <1>6
  <2> QED
    BY <2>1
<1>8. m \in s
  BY <1>3, <1>4, <1>7, WithoutTop
<1>9. f[s \ {Max(s)}] \in A
  BY <1>4, <1>7, <1>8, TopIs
<1>10. s \in SUBSET (1..n)
  BY <1>4
<1> QED
  BY <1>3, <1>5, <1>9, <1>10

\* f folds the operations op over the sets of positions up to m.
Folds(f, m, base, op) ==
  \A s \in SUBSET (1..m) :
    f[s] = IF s = {} THEN base ELSE op[Max(s)][f[s \ {Max(s)}]]

Foldable(m, A, base, op) ==
  \E f \in [SUBSET (1..m) -> A] : Folds(f, m, base, op)

LEMMA NothingToFold ==
  ASSUME NEW A, NEW base \in A, NEW op
  PROVE  Foldable(0, A, base, op)
<1> DEFINE f == [s \in SUBSET (1..0) |-> base]
<1>1. 1..0 = {}
  OBVIOUS
<1>2. \A s \in SUBSET (1..0) : s = {} /\ f[s] = base
  BY <1>1
<1>3. f \in [SUBSET (1..0) -> A]
  OBVIOUS
<1> HIDE DEF f
<1>4. Folds(f, 0, base, op)
  BY <1>2 DEF Folds
<1> QED
  BY <1>3, <1>4 DEF Foldable

LEMMA FoldOneMore ==
  ASSUME NEW m \in Nat \ {0}, NEW A, NEW base \in A,
         NEW op, op[m] \in [A -> A], Foldable(m - 1, A, base, op)
  PROVE  Foldable(m, A, base, op)
<1>1. PICK g \in [SUBSET (1..(m - 1)) -> A] : Folds(g, m - 1, base, op)
  BY DEF Foldable
<1> DEFINE f == [s \in SUBSET (1..m) |->
                   IF m \in s THEN op[m][g[s \ {m}]] ELSE g[s]]
<1>2. f \in [SUBSET (1..m) -> A]
  <2> SUFFICES ASSUME NEW s \in SUBSET (1..m) PROVE f[s] \in A
    OBVIOUS
  <2>1. CASE m \in s
    BY <2>1, TopIs
  <2>2. CASE m \notin s
    BY <2>2, WithoutTop
  <2> QED
    BY <2>1, <2>2
<1>3. \A t \in SUBSET (1..(m - 1)) : f[t] = g[t]
  OBVIOUS
<1>4. Folds(f, m, base, op)
  <2> SUFFICES ASSUME NEW s \in SUBSET (1..m)
               PROVE  f[s] = IF s = {} THEN base
                             ELSE op[Max(s)][f[s \ {Max(s)}]]
    BY DEF Folds
  <2>1. CASE m \in s
    <3>1. Max(s) = m /\ s \ {m} \in SUBSET (1..(m - 1))
      BY <2>1, TopIs
    <3>2. f[s] = op[m][g[s \ {m}]] /\ f[s \ {m}] = g[s \ {m}]
      BY <1>3, <2>1, <3>1
    <3> HIDE DEF f
    <3> QED
      BY <2>1, <3>1, <3>2
  <2>2. CASE m \notin s
    <3>1. s \in SUBSET (1..(m - 1)) /\ s \ {Max(s)} \in SUBSET (1..(m - 1))
      BY <2>2, WithoutTop
    <3>2. f[s] = g[s] /\ f[s \ {Max(s)}] = g[s \ {Max(s)}]
      BY <1>3, <3>1
    <3>3. g[s] = IF s = {} THEN base ELSE op[Max(s)][g[s \ {Max(s)}]]
      BY <1>1, <3>1 DEF Folds
    <3> HIDE DEF f
    <3> QED
      BY <3>2, <3>3
  <2> QED
    BY <2>1, <2>2
<1> HIDE DEF f
<1> QED
  BY <1>2, <1>4 DEF Foldable

LEMMA FoldExists ==
  ASSUME NEW n \in Nat, NEW A, NEW base \in A, NEW op \in [1..n -> [A -> A]]
  PROVE  Foldable(n, A, base, op)
<1> DEFINE Lacks == {m \in 0..n : ~Foldable(m, A, base, op)}
<1>1. SUFFICES ASSUME Lacks # {} PROVE FALSE
  <2>1. n \in 0..n
    OBVIOUS
  <2> QED
    BY <2>1
<1>2. PICK m \in Lacks : \A k \in Lacks : m <= k
  <2>1. Lacks \in SUBSET Nat
    OBVIOUS
  <2> QED
    BY <1>1, <2>1, LeastNumber
<1>3. m \in 0..n /\ ~Foldable(m, A, base, op)
  OBVIOUS
<1>4. m \in Nat \ {0}
  BY <1>3, NothingToFold
<1>5. Foldable(m - 1, A, base, op)
  <2>1. m - 1 \notin Lacks
    <3>1. m - 1 < m
      BY <1>4
    <3> HIDE DEF Lacks
    <3> QED
      BY <1>2, <1>4, <3>1
  <2> QED
    BY <1>3, <1>4, <2>1
<1>6. op[m] \in [A -> A]
  BY <1>3, <1>4
<1> QED
  BY <1>3, <1>4, <1>5, <1>6, FoldOneMore


LEMMA TopIn ==
  ASSUME NEW n \in Nat, NEW s \in SUBSET (1..n), s # {}
  PROVE  Max(s) \in s /\ s \ {Max(s)} \in SUBSET (1..n)
<1> DEFINE T == {k \in 0..n : n - k \in s}
<1>1. T \in SUBSET Nat
  OBVIOUS
<1>a. T # {}
  <2>1. PICK i \in s : TRUE
    OBVIOUS
  <2>2. n - i \in 0..n /\ n - (n - i) = i
    BY <2>1
  <2>3. n - i \in T
    BY <2>1, <2>2
  <2> HIDE DEF T
  <2> QED
    BY <2>3
<1>2. PICK k \in T : \A j \in T : k <= j
  BY <1>1, <1>a, LeastNumber
<1>3. ASSUME NEW i \in s PROVE n - k >= i
  <2>1. n - i \in T
    OBVIOUS
  <2>2. k <= n - i
    BY <1>2, <2>1
  <2> QED
    BY <2>2
<1>4. n - k \in s
  OBVIOUS
<1> HIDE DEF T
<1>5. \E x \in s : \A y \in s : x >= y
  BY <1>3, <1>4
<1>6. Max(s) \in s
  BY <1>5 DEF Max
<1> QED
  BY <1>6

\* g folds the operations op as long as its values are in A.
FoldsIn(g, n, A, base, op) ==
  /\ g[{}] = base
  /\ \A s \in SUBSET (1..n) :
       s # {} /\ g[s \ {Max(s)}] \in A => g[s] = op[Max(s)][g[s \ {Max(s)}]]

\* So does g when anything does.
FoldsIfAny(g, n, A, base, op) ==
  \A f \in [SUBSET (1..n) -> A] :
    Folds(f, n, base, op) => FoldsIn(g, n, A, base, op)

Outcome(value, n, A, op) == \E i \in 1..n, a \in A : value = op[i][a]

\* A fold of numbers, or of anything its operation keeps in A.
LEMMA FoldTyped ==
  ASSUME NEW n \in Nat, NEW A, NEW base \in A, NEW op \in [1..n -> [A -> A]],
         NEW g, FoldsIfAny(g, n, A, base, op)
  PROVE  /\ g[1..n] \in A
         /\ n # 0 => Outcome(g[1..n], n, A, op)
<1>1. Foldable(n, A, base, op)
  BY FoldExists
<1>2. FoldsIn(g, n, A, base, op)
  BY <1>1 DEF Foldable, FoldsIfAny
<1>3. ASSUME NEW s \in SUBSET (1..n), s # {}, g[s \ {Max(s)}] \in A
      PROVE  g[s] \in A
  <2>1. g[s] = op[Max(s)][g[s \ {Max(s)}]]
    BY <1>2, <1>3 DEF FoldsIn
  <2>2. Max(s) \in 1..n
    BY <1>3, TopIn
  <2>3. op[Max(s)] \in [A -> A]
    BY <2>2
  <2> QED
    BY <1>3, <2>1, <2>3
<1>4. g[{}] \in A
  BY <1>2 DEF FoldsIn
<1>5. \A s \in SUBSET (1..n) : g[s] \in A
  BY <1>3, <1>4, FoldStays
<1>6. ASSUME n # 0
      PROVE  Outcome(g[1..n], n, A, op)
  <2> DEFINE s == 1..n
  <2>1. s \in SUBSET (1..n)
    OBVIOUS
  <2>2. s # {}
    <3>1. 1 \in s
      BY <1>6
    <3> QED
      BY <3>1
  <2> HIDE DEF s
  <2>3. Max(s) \in s /\ s \ {Max(s)} \in SUBSET (1..n)
    BY <2>1, <2>2, TopIn
  <2>4. g[s \ {Max(s)}] \in A /\ Max(s) \in 1..n
    BY <1>5, <2>1, <2>3
  <2>5. g[s] = op[Max(s)][g[s \ {Max(s)}]]
    BY <1>2, <2>1, <2>2, <2>4 DEF FoldsIn
  <2>6. \E i \in 1..n, a \in A : g[s] = op[i][a]
    BY <2>4, <2>5
  <2> QED
    BY <2>6 DEF s, Outcome
<1>7. g[1..n] \in A
  BY <1>5
<1> QED
  BY <1>6, <1>7

\* The sizes a FETCH adds up, its estimates and its batches.
LEMMA SumIsNumber ==
  ASSUME NEW n \in Nat, NEW sizes \in [1..n -> Nat]
  PROVE  Sum(sizes) \in Nat
<1> DEFINE Step(f) ==
      [s \in SUBSET (1..n) |->
         IF s = {} THEN 0 ELSE f[s \ {Max(s)}] + sizes[Max(s)]]
<1> DEFINE op == [i \in 1..n |-> [a \in Nat |-> a + sizes[i]]]
<1> DEFINE g == CHOOSE f : f = Step(f)
<1>1. Sum(sizes) = g[1..n]
  <2>1. DOMAIN sizes = 1..n
    OBVIOUS
  <2> QED
    BY <2>1 DEF Sum, FoldLeft, MapThenFoldSet
<1>2. op \in [1..n -> [Nat -> Nat]]
  OBVIOUS
<1>3. ASSUME NEW s \in SUBSET (1..n), s # {}, NEW a \in Nat
      PROVE  op[Max(s)][a] = a + sizes[Max(s)]
  BY <1>3, TopIn
<1> HIDE DEF op
<1>4. ASSUME NEW f \in [SUBSET (1..n) -> Nat], Folds(f, n, 0, op)
      PROVE  f = Step(f)
  <2>1. ASSUME NEW s \in SUBSET (1..n), s # {} PROVE f[s \ {Max(s)}] \in Nat
    BY <2>1, TopIn
  <2>2. ASSUME NEW s \in SUBSET (1..n) PROVE f[s] = Step(f)[s]
    BY <1>3, <1>4, <2>1 DEF Folds
  <2> HIDE DEF Step
  <2>3. DOMAIN Step(f) = SUBSET (1..n) /\ Step(f) = [s \in SUBSET (1..n) |-> Step(f)[s]]
    BY DEF Step
  <2> QED
    BY <2>2, <2>3
<1>5. ASSUME g = Step(g)
      PROVE  FoldsIn(g, n, Nat, 0, op)
  <2> HIDE DEF g
  <2>1. ASSUME NEW s \in SUBSET (1..n)
        PROVE  g[s] = IF s = {} THEN 0 ELSE g[s \ {Max(s)}] + sizes[Max(s)]
    BY <1>5
  <2> HIDE DEF Step
  <2> QED
    BY <1>3, <2>1 DEF FoldsIn
<1>6. ASSUME NEW f, f = Step(f) PROVE g = Step(g)
  <2> HIDE DEF Step
  <2> QED
    BY <1>6
<1> HIDE DEF g
<1>7. FoldsIfAny(g, n, Nat, 0, op)
  <2> HIDE DEF Step
  <2>1. ASSUME NEW f \in [SUBSET (1..n) -> Nat], Folds(f, n, 0, op)
        PROVE  FoldsIn(g, n, Nat, 0, op)
    BY <1>4, <1>5, <1>6, <2>1
  <2> QED
    BY <2>1 DEF FoldsIfAny
<1>8. g[1..n] \in Nat
  BY <1>2, <1>7, FoldTyped
<1> QED
  BY <1>1, <1>8

LEMMA ItemEstimateIsNumber ==
  ASSUME NEW octets \in Nat, NEW item \in FetchItem
  PROVE  ItemEstimate(octets, item) \in Nat
<1>1. item.of \in {"content", "structure", "envelope", "other"}
      /\ item.partial \in Nat \cup {Off}
  BY DEF FetchItem
<1>2. CASE item.of = "content"
  BY <1>1, <1>2 DEF ItemEstimate, MinOf
<1>3. CASE item.of \in {"structure", "envelope"}
  BY <1>3 DEF ItemEstimate
<1>4. CASE item.of = "other"
  BY <1>4 DEF ItemEstimate
<1> QED
  BY <1>1, <1>2, <1>3, <1>4

LEMMA EstimateIsNumber ==
  ASSUME NEW octets \in Nat, NEW items \in Seq(FetchItem)
  PROVE  Estimate(octets, items) \in Nat
<1> DEFINE n == Len(items)
<1> DEFINE size == [i \in 1..n |-> ItemEstimate(octets, items[i])]
<1> DEFINE Step(f) ==
      [s \in SUBSET (1..n) |->
         IF s = {} THEN 0
         ELSE f[s \ {Max(s)}] + ItemEstimate(octets, items[Max(s)])]
<1> DEFINE op == [i \in 1..n |-> [a \in Nat |-> a + size[i]]]
<1> DEFINE g == CHOOSE f : f = Step(f)
<1>0. n \in Nat /\ size \in [1..n -> Nat]
  <2>1. ASSUME NEW i \in 1..n PROVE ItemEstimate(octets, items[i]) \in Nat
    <3>1. items[i] \in FetchItem
      OBVIOUS
    <3> QED
      BY <3>1, ItemEstimateIsNumber
  <2> QED
    BY <2>1
<1>1. Estimate(octets, items) = g[1..n]
  <2>1. DOMAIN items = 1..n
    OBVIOUS
  <2> QED
    BY <2>1 DEF Estimate, FoldLeft, MapThenFoldSet
<1>a. \A i \in 1..n : size[i] = ItemEstimate(octets, items[i])
  OBVIOUS
<1> HIDE DEF size, n
<1>2. op \in [1..n -> [Nat -> Nat]]
  BY <1>0
<1>3. ASSUME NEW s \in SUBSET (1..n), s # {}, NEW a \in Nat
      PROVE  op[Max(s)][a] = a + ItemEstimate(octets, items[Max(s)])
  BY <1>0, <1>a, <1>3, TopIn
<1> HIDE DEF op
<1>4. ASSUME NEW f \in [SUBSET (1..n) -> Nat], Folds(f, n, 0, op)
      PROVE  f = Step(f)
  <2>1. ASSUME NEW s \in SUBSET (1..n), s # {} PROVE f[s \ {Max(s)}] \in Nat
    BY <1>0, <2>1, TopIn
  <2>2. ASSUME NEW s \in SUBSET (1..n) PROVE f[s] = Step(f)[s]
    BY <1>3, <1>4, <2>1 DEF Folds
  <2> HIDE DEF Step
  <2>3. DOMAIN Step(f) = SUBSET (1..n) /\ Step(f) = [s \in SUBSET (1..n) |-> Step(f)[s]]
    BY DEF Step
  <2> QED
    BY <2>2, <2>3
<1>5. ASSUME g = Step(g)
      PROVE  FoldsIn(g, n, Nat, 0, op)
  <2> HIDE DEF g
  <2>1. ASSUME NEW s \in SUBSET (1..n)
        PROVE  g[s] = IF s = {} THEN 0 ELSE g[s \ {Max(s)}]
                                            + ItemEstimate(octets, items[Max(s)])
    BY <1>5
  <2> HIDE DEF Step
  <2> QED
    BY <1>3, <2>1 DEF FoldsIn
<1>6. ASSUME NEW f, f = Step(f) PROVE g = Step(g)
  <2> HIDE DEF Step
  <2> QED
    BY <1>6
<1> HIDE DEF g
<1>7. FoldsIfAny(g, n, Nat, 0, op)
  <2> HIDE DEF Step
  <2>1. ASSUME NEW f \in [SUBSET (1..n) -> Nat], Folds(f, n, 0, op)
        PROVE  FoldsIn(g, n, Nat, 0, op)
    BY <1>4, <1>5, <1>6, <2>1
  <2> QED
    BY <2>1 DEF FoldsIfAny
<1>8. g[1..n] \in Nat
  BY <1>0, <1>2, <1>7, FoldTyped
<1> QED
  BY <1>1, <1>8

Sizes == 0..MaxResponseBytes

LEMMA Bounds ==
  /\ Budget \in Nat /\ MaxResponseBytes \in Nat \ {0}
  /\ BatchBytes \in Nat /\ BatchBytes <= MaxResponseBytes
  /\ LowWater \in Nat /\ LowWater + MaxResponseBytes <= Budget
BY Limits DEF Budget, MaxResponseBytes, BatchBytes, LowWater

LEMMA ExtendTyped ==
  ASSUME NEW plan \in Seq(Sizes), NEW size \in Sizes
  PROVE  Extend(plan, size) \in Seq(Sizes) \ {<<>>}
<1>1. CASE plan # <<>> /\ Last(plan) + size <= BatchBytes
  <2>1. Len(plan) \in 1..Len(plan) /\ plan[Len(plan)] \in Sizes
    BY <1>1
  <2>2. plan[Len(plan)] + size \in Sizes
    BY <1>1, <2>1, Bounds DEF Last, Sizes
  <2>3. Extend(plan, size)
          = [plan EXCEPT ![Len(plan)] = plan[Len(plan)] + size]
    BY <1>1 DEF Extend
  <2> QED
    BY <1>1, <2>1, <2>2, <2>3
<1>2. CASE ~(plan # <<>> /\ Last(plan) + size <= BatchBytes)
  <2>1. Extend(plan, size) = Append(plan, size)
    BY <1>2 DEF Extend
  <2> QED
    BY <2>1
<1> QED
  BY <1>1, <1>2

LEMMA BatchesAreSizes ==
  ASSUME NEW n \in Nat, n # 0, NEW sizes \in [1..n -> Sizes]
  PROVE  Batches(sizes) \in Seq(Sizes) \ {<<>>}
<1> DEFINE Step(f) ==
      [s \in SUBSET (1..n) |->
         IF s = {} THEN <<>> ELSE Extend(f[s \ {Max(s)}], sizes[Max(s)])]
<1> DEFINE op == [i \in 1..n |-> [a \in Seq(Sizes) |-> Extend(a, sizes[i])]]
<1> DEFINE g == CHOOSE f : f = Step(f)
<1>1. Batches(sizes) = g[1..n]
  <2>1. DOMAIN sizes = 1..n
    OBVIOUS
  <2> QED
    BY <2>1 DEF Batches, FoldLeft, MapThenFoldSet
<1>2. op \in [1..n -> [Seq(Sizes) -> Seq(Sizes)]]
  BY ExtendTyped
<1>3. ASSUME NEW s \in SUBSET (1..n), s # {}, NEW a \in Seq(Sizes)
      PROVE  op[Max(s)][a] = Extend(a, sizes[Max(s)])
  BY <1>3, TopIn
<1> HIDE DEF op
<1>4. ASSUME NEW f \in [SUBSET (1..n) -> Seq(Sizes)], Folds(f, n, <<>>, op)
      PROVE  f = Step(f)
  <2>1. ASSUME NEW s \in SUBSET (1..n), s # {} PROVE f[s \ {Max(s)}] \in Seq(Sizes)
    BY <2>1, TopIn
  <2>2. ASSUME NEW s \in SUBSET (1..n) PROVE f[s] = Step(f)[s]
    BY <1>3, <1>4, <2>1 DEF Folds
  <2> HIDE DEF Step
  <2>3. DOMAIN Step(f) = SUBSET (1..n) /\ Step(f) = [s \in SUBSET (1..n) |-> Step(f)[s]]
    BY DEF Step
  <2> QED
    BY <2>2, <2>3
<1>5. ASSUME g = Step(g)
      PROVE  FoldsIn(g, n, Seq(Sizes), <<>>, op)
  <2> HIDE DEF g
  <2>1. ASSUME NEW s \in SUBSET (1..n)
        PROVE  g[s] = IF s = {} THEN <<>>
                     ELSE Extend(g[s \ {Max(s)}], sizes[Max(s)])
    BY <1>5
  <2> HIDE DEF Step
  <2> QED
    BY <1>3, <2>1 DEF FoldsIn
<1>6. ASSUME NEW f, f = Step(f) PROVE g = Step(g)
  <2> HIDE DEF Step
  <2> QED
    BY <1>6
<1> HIDE DEF g
<1>7. FoldsIfAny(g, n, Seq(Sizes), <<>>, op)
  <2> HIDE DEF Step
  <2>1. ASSUME NEW f \in [SUBSET (1..n) -> Seq(Sizes)], Folds(f, n, <<>>, op)
        PROVE  FoldsIn(g, n, Seq(Sizes), <<>>, op)
    BY <1>4, <1>5, <1>6, <2>1
  <2> QED
    BY <2>1 DEF FoldsIfAny
<1>8. /\ g[1..n] \in Seq(Sizes)
      /\ Outcome(g[1..n], n, Seq(Sizes), op)
  <2>1. <<>> \in Seq(Sizes)
    OBVIOUS
  <2>2. /\ g[1..n] \in Seq(Sizes)
        /\ n # 0 => Outcome(g[1..n], n, Seq(Sizes), op)
    BY <1>2, <1>7, <2>1, FoldTyped
  <2> QED
    BY <2>2
<1>9. \A i \in 1..n, a \in Seq(Sizes) : op[i][a] # <<>>
  BY ExtendTyped DEF op
<1> QED
  BY <1>1, <1>8, <1>9 DEF Outcome

LEMMA PlanOf ==
  ASSUME NEW items \in Requests, NEW n \in 1..MaxFetched, NEW octets \in Octets,
         NEW sizes, sizes = [i \in 1..n |-> Estimate(octets, items)],
         ~Refused(items, sizes)
  PROVE  Sum(sizes) \in Nat /\ Batches(sizes) \in Seq(Sizes) \ {<<>>}
<1>1. items \in Seq(FetchItem) /\ octets \in Nat /\ n \in Nat \ {0}
  BY Limits, SessionAssumption
<1>2. Estimate(octets, items) \in Nat
  BY <1>1, EstimateIsNumber
<1>3. sizes \in [1..n -> Nat] /\ DOMAIN sizes = 1..n
  BY <1>2
<1>4. ASSUME NEW i \in 1..n PROVE sizes[i] \in Sizes
  <2>1. i \in DOMAIN sizes /\ sizes[i] \in Nat
    BY <1>3
  <2>2. ~(sizes[i] > MaxResponseBytes)
    BY <2>1 DEF Refused
  <2> QED
    BY <2>1, <2>2, Bounds DEF Sizes
<1>5. sizes \in [1..n -> Sizes]
  BY <1>3, <1>4
<1> QED
  BY <1>1, <1>3, <1>5, SumIsNumber, BatchesAreSizes

-----------------------------------------------------------------------------
(***************************************************************************)
(* The output of a FETCH                                                   *)
(***************************************************************************)
FetchFits ==
  /\ PacedFetchFits
  /\ pending \in Nat
  /\ batches \in Seq(Sizes)
  /\ busy = "fetch" => batches # <<>>

OtherEnds == {"unread", "drain", "autologout", "commands", "logout", "client"}

\* What a step other than a batch does to the output of a FETCH.
Calm ==
  /\ ended' \in OtherEnds \cup {ended}
  /\ pending' \in Nat
  /\ \/ UNCHANGED <<busy, batches>>
     \/ busy' # "fetch" /\ batches' \in {batches, <<>>}

LEMMA CalmFits ==
  ASSUME FetchFits, Calm
  PROVE  FetchFits'
<1>1. ended' # "fetch"
  BY DEF FetchFits, PacedFetchFits, Calm, OtherEnds
<1>2. batches' \in Seq(Sizes) /\ (busy' = "fetch" => batches' # <<>>)
  <2>1. <<>> \in Seq(Sizes)
    OBVIOUS
  <2> QED
    BY <2>1 DEF FetchFits, Calm
<1> QED
  BY <1>1, <1>2 DEF FetchFits, PacedFetchFits, Calm

LEMMA CalmEnds ==
  ASSUME pending \in Nat, NEW why \in OtherEnds \cup {ended}
  PROVE  /\ Destroy(why) => Calm
         /\ Bye(why) => Calm
<1>1. Destroy(why) => Calm
  BY DEF Destroy, Calm
<1> QED
  BY <1>1 DEF Bye, Buffer, Calm

LEMMA CalmWrites ==
  ASSUME pending \in Nat, Buffer(1), UNCHANGED ended,
         UNCHANGED <<busy, batches>> \/ (busy' = "no" /\ UNCHANGED batches)
  PROVE  Calm
BY DEF Buffer, Calm

\* A batch, or a FETCH small enough to be answered at once, is written only
\* when at most LowWater is pending, and then fits.
LEMMA RoomForOne ==
  ASSUME pending \in Nat, pending <= LowWater, NEW n \in Sizes
  PROVE  ~(pending + n > Budget) /\ pending + n \in Nat
BY Bounds DEF Sizes

LEMMA FetchCommandFits ==
  ASSUME FetchFits, NEW items \in Requests, NEW n \in 1..MaxFetched,
         NEW octets \in Octets,
         FetchCommand(items, [i \in 1..n |-> Estimate(octets, items)])
  PROVE  FetchFits'
<1> DEFINE sizes == [i \in 1..n |-> Estimate(octets, items)]
<1>1. pending \in Nat
  BY DEF FetchFits
<1>2. FetchCommand(items, sizes)
  OBVIOUS
<1>3. ~Refused(items, sizes) =>
        Sum(sizes) \in Nat /\ Batches(sizes) \in Seq(Sizes) \ {<<>>}
  BY PlanOf
<1> HIDE DEF sizes
<1>4. CASE Answer(1, "unread")
  BY <1>1, <1>4, CalmEnds, CalmWrites, CalmFits
  DEF Answer, Write, Done, OtherEnds
<1>5. CASE /\ ~Refused(items, sizes) /\ Sum(sizes) <= BatchBytes
           /\ pending <= LowWater /\ Answer(Sum(sizes), "fetch")
  <2>1. Sum(sizes) \in Sizes
    BY <1>3, <1>5, Bounds DEF Sizes
  <2>2. ~(pending + Sum(sizes) > Budget) /\ pending + Sum(sizes) \in Nat
    BY <1>1, <1>5, <2>1, RoomForOne
  <2>3. /\ Buffer(Sum(sizes)) /\ Done
        /\ UNCHANGED <<socket, ended, timer>>
    BY <1>5, <2>2 DEF Answer, Write
  <2>4. UNCHANGED <<ended, busy, batches>> /\ pending' \in Nat
    BY <2>2, <2>3 DEF Buffer, Done
  <2> QED
    BY <2>4 DEF FetchFits, PacedFetchFits
<1>6. CASE /\ ~Refused(items, sizes)
           /\ batches' = IF Sum(sizes) <= BatchBytes THEN <<Sum(sizes)>>
                         ELSE Batches(sizes)
           /\ UNCHANGED <<output, socket, ended, waiting, chunk, timer>>
  <2>1. UNCHANGED <<pending, ended>>
    BY <1>6 DEF output
  <2>2. CASE Sum(sizes) <= BatchBytes
    <3>1. Sum(sizes) \in Sizes
      BY <1>3, <1>6, <2>2, Bounds DEF Sizes
    <3>2. <<Sum(sizes)>> \in Seq(Sizes) /\ <<Sum(sizes)>> # <<>>
      BY <3>1
    <3>3. batches' = <<Sum(sizes)>>
      BY <1>6, <2>2
    <3>4. batches' \in Seq(Sizes) /\ batches' # <<>>
      BY <3>2, <3>3
    <3> QED
      BY <2>1, <3>4 DEF FetchFits, PacedFetchFits
  <2>3. CASE ~(Sum(sizes) <= BatchBytes)
    <3>1. batches' \in Seq(Sizes) /\ batches' # <<>>
      BY <1>3, <1>6, <2>3
    <3> QED
      BY <2>1, <3>1 DEF FetchFits, PacedFetchFits
  <2> QED
    BY <2>2, <2>3
<1> QED
  BY <1>2, <1>4, <1>5, <1>6 DEF FetchCommand

LEMMA NextBatchFits ==
  ASSUME FetchFits, NextBatch
  PROVE  FetchFits'
<1>1. pending \in Nat /\ batches \in Seq(Sizes) /\ batches # <<>>
  BY DEF FetchFits, NextBatch, Looping
<1>2. CASE pending <= LowWater
  <2>1. PICK n \in {1, Head(batches)} :
               Write(n, "fetch",
                     /\ batches' = Tail(batches)
                     /\ busy' = IF Len(batches) = 1 THEN "no" ELSE busy
                     /\ UNCHANGED <<waiting, chunk, queued>>)
    BY <1>2 DEF NextBatch
  <2>2. n \in Sizes
    <3>1. Head(batches) \in Sizes
      BY <1>1
    <3>2. 1 \in Sizes
      BY Bounds DEF Sizes
    <3> QED
      BY <2>1, <3>1, <3>2
  <2>3. ~(pending + n > Budget) /\ pending + n \in Nat
    BY <1>1, <1>2, <2>2, RoomForOne
  <2>4. /\ pending' = pending + n /\ ended' = ended
        /\ batches' = Tail(batches)
        /\ busy' = IF Len(batches) = 1 THEN "no" ELSE busy
    BY <2>1, <2>3 DEF Write, Buffer
  <2>5. Tail(batches) \in Seq(Sizes) /\ (Len(batches) # 1 => Tail(batches) # <<>>)
    <3>1. Tail(batches) \in Seq(Sizes) /\ Len(Tail(batches)) = Len(batches) - 1
      BY <1>1, HeadTailProperties
    <3>2. Len(batches) \in Nat
      BY <1>1
    <3>3. Len(<<>>) = 0
      OBVIOUS
    <3>4. Tail(batches) = <<>> => Len(Tail(batches)) = Len(<<>>)
      BY Zenon
    <3> QED
      BY <3>1, <3>2, <3>3, <3>4
  <2> QED
    BY <2>3, <2>4, <2>5 DEF FetchFits, PacedFetchFits
<1>3. CASE ~(pending <= LowWater)
  BY <1>3 DEF NextBatch, FetchFits, PacedFetchFits, output
<1> QED
  BY <1>2, <1>3

LEMMA OtherStepsAreCalm ==
  ASSUME pending \in Nat, [Next]_vars, ~NextBatch,
         \A items \in Requests, n \in 1..MaxFetched, octets \in Octets :
           ~FetchCommand(items, [i \in 1..n |-> Estimate(octets, items)])
  PROVE  Calm
<1> USE CalmEnds, CalmWrites DEF OtherEnds
<1>1. CASE Input
  BY <1>1 DEF Input, Calm, output
<1>2. CASE Schedule
  BY <1>2 DEF Schedule, Calm, output
<1>3. CASE SaslLine
  BY <1>3 DEF SaslLine, Write
<1>4. CASE Run
  <2>1. CASE Answer(1, "unread")
    BY <2>1 DEF Answer, Write, Done
  <2>2. CASE Write(1, "unread", chunk' = 0 /\ queued' = 0
                                /\ UNCHANGED <<busy, batches, waiting>>)
    BY <2>2 DEF Write
  <2>3. CASE CheckCommand
    BY <2>3 DEF CheckCommand, Calm, output
  <2>4. CASE Bye("logout")
    BY <2>4
  <2> QED
    BY <1>4, <2>1, <2>2, <2>3, <2>4 DEF Run
<1>5. CASE Handshake
  <2>1. CASE UNCHANGED <<socket, output, work, timer, ended>>
    BY <2>1 DEF Calm, output, work
  <2>2. CASE Destroy("client")
    BY <2>2
  <2> QED
    BY <1>5, <2>1, <2>2 DEF Handshake
<1>6. CASE CheckDone
  BY <1>6 DEF CheckDone, Write
<1>7. CASE Notify
  BY <1>7 DEF Notify, Write, work
<1>8. CASE ClientReads
  <2>1. PICK n \in 0..(pending - 1) :
          \/ Destroy(ended)
          \/ /\ pending' = 0
             /\ UNCHANGED <<socket, busy, batches, chunk, queued, timer, ended>>
          \/ /\ pending' = n
             /\ UNCHANGED <<socket, needDrain, drainTimer, work, timer, ended>>
    BY <1>8 DEF ClientReads
  <2> QED
    BY <2>1 DEF Calm, work
<1>9. CASE ClientCloses
  BY <1>9 DEF ClientCloses
<1>10. CASE DrainTimeout
  BY <1>10 DEF DrainTimeout, Calm, work
<1>11. CASE CheckTime
  BY <1>11 DEF CheckTime, Calm, output, work
<1>12. CASE Tick
  BY <1>12 DEF Tick, Calm, work
<1>13. CASE UNCHANGED vars
  BY <1>13 DEF vars, Calm, output, work
<1> QED
  BY <1>1, <1>2, <1>3, <1>4, <1>5, <1>6, <1>7, <1>8, <1>9, <1>10, <1>11,
     <1>12, <1>13 DEF Next

LEMMA FetchFitsStep == FetchFits /\ [Next]_vars => FetchFits'
<1> SUFFICES ASSUME FetchFits, [Next]_vars PROVE FetchFits'
  OBVIOUS
<1>1. pending \in Nat
  BY DEF FetchFits
<1> QED
  BY <1>1, NextBatchFits, FetchCommandFits, OtherStepsAreCalm, CalmFits

LEMMA InitFetchFits == Init => FetchFits
<1> SUFFICES ASSUME Init PROVE FetchFits
  OBVIOUS
<1>1. <<>> \in Seq(Sizes)
  OBVIOUS
<1>2. ended = "no" /\ pending = 0 /\ batches = <<>> /\ busy = "no"
  BY DEF Init
<1> QED
  BY <1>1, <1>2 DEF FetchFits, PacedFetchFits

-----------------------------------------------------------------------------
\* PasswordsStayPrivate: whatever command lines servers are started with, a
\* session without TLS that compares credentials belongs to a server on
\* loopback, and to one without a password unless its user insisted.
THEOREM PasswordsArePrivate == Spec => []PasswordsStayPrivate
<1>1. IInv => PasswordsStayPrivate
  BY RulesProtect DEF IInv, LegalConfig, Checked, PasswordsStayPrivate
<1> QED
  BY <1>1, Inductive, PTL

\* DeadlinesKept: no open session is ever past its deadline, and none is
\* logged out by time before it, for any PreAuthMs up to IdleMs.
THEOREM DeadlinesAreExact == Spec => []DeadlinesKept
<1>1. IInv => DeadlinesKept
  BY Limits, OffIsNoTime
  DEF IInv, Clocks, TimerCovers, NoneTooEarly, DeadlinesKept
<1> QED
  BY <1>1, Inductive, PTL

\* PacedFetchFits: whatever the sizes of the messages and the items asked for,
\* a batch is sent only when it fits on what may be pending, so that no
\* session is ever destroyed for the output of a FETCH whose responses are no
\* larger than their estimates (the upper bound of output-control.ts).
THEOREM PacingFits == Spec => []PacedFetchFits
<1>1. FetchFits => PacedFetchFits
  BY DEF FetchFits
<1> QED
  BY <1>1, InitFetchFits, FetchFitsStep, PTL DEF Spec
=============================================================================
