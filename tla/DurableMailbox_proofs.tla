----------------------- MODULE DurableMailbox_proofs -----------------------
(***************************************************************************)
(* Theorems about the snapshot writer, for any callers of flush() and any  *)
(* number of commits, failures and retries, and about the mailbox it makes *)
(* durable, for any number of processes.                                   *)
(*                                                                         *)
(* The argument: the field writing names the only call with a write        *)
(* (OneWriter), so the temporary file holds its snapshot and snapshots     *)
(* only get newer (WholeSnapshots).  awaiting and resuming are one queue   *)
(* that a settled write moves from the one to the other (QueuesAreSets).   *)
(* Its owner comes first and clears the field before a waiter looks at it  *)
(* (OwnerLeads).  The flush of close() comes last, and with it the queue   *)
(* runs empty for good (CloseComesLast).                                   *)
(***************************************************************************)
EXTENDS DurableMailbox, FiniteSetTheorems, SequenceTheorems, TLAPS

OneWriter ==
  \A c \in Calls :
    /\ call[c] = "writing" <=> c = writing
    /\ job[c].step # "none" <=> c = writing

\* What a write carries is at least what its caller asked for and at least
\* what is in the file.
WholeSnapshots ==
  /\ disk \in Nat /\ disk <= mem
  /\ \A c \in Calls :
       /\ goal[c] <= owed
       /\ job[c].step # "none" => /\ job[c].data \in Nat
                                  /\ disk <= job[c].data
                                  /\ job[c].data <= mem
                                  /\ goal[c] <= job[c].data
       /\ job[c].step = "renaming" => tmp = job[c].data
       /\ job[c].step = "done" => disk = job[c].data

\* Who stands in the queue is pending, and nobody stands there twice.
QueuesAreSets ==
  /\ \A i \in 1..Len(awaiting) : Busy(awaiting[i])
  /\ \A i \in 1..Len(resuming) : Busy(resuming[i])
  /\ \A i, j \in 1..Len(awaiting) : awaiting[i] = awaiting[j] => i = j
  /\ \A i, j \in 1..Len(resuming) : resuming[i] = resuming[j] => i = j
  /\ \A i \in 1..Len(awaiting), j \in 1..Len(resuming) :
       awaiting[i] # resuming[j]

OwnerLeads ==
  /\ writing = None => awaiting = <<>>
  /\ writing # None /\ job[writing].step \in Active =>
       awaiting # <<>> /\ awaiting[1] = writing
  /\ writing # None /\ job[writing].step \notin Active =>
       awaiting = <<>> /\ resuming # <<>> /\ resuming[1] = writing

\* Before close() its call is idle; after it, it is the last of the queue, or
\* it has returned and there is neither a queue nor a write.
CloseComesLast ==
  /\ ~closed => call[Final] = "idle" /\ ~released
  /\ closed =>
       /\ ~timer
       /\ IF Busy(Final)
          THEN /\ ~released
               /\ resuming # <<>> => resuming[Len(resuming)] = Final
               /\ resuming = <<>> =>
                    awaiting # <<>> /\ awaiting[Len(awaiting)] = Final
          ELSE call[Final] # "idle" /\ writing = None /\ resuming = <<>>

IInv ==
  /\ TypeOK
  /\ OneWriter
  /\ WholeSnapshots
  /\ QueuesAreSets
  /\ OwnerLeads
  /\ CloseComesLast
  /\ UnsavedIsRemembered

-----------------------------------------------------------------------------
LEMMA BoundsAreNat ==
  MaxRevision \in Nat /\ MaxFailures \in Nat /\ MaxRetries \in Nat
BY BoundsAssumption

\* The type invariant in two halves, which the steps change apart.
Numbers ==
  /\ mem \in 0..MaxRevision /\ owed \in 0..mem
  /\ disk \in Nat \cup {Torn} /\ tmp \in Nat \cup {None, Torn}
  /\ goal \in [Calls -> 0..MaxRevision]
  /\ failures \in 0..MaxFailures

Control ==
  /\ {timer, dirty, closed, released, failedSince} \subseteq BOOLEAN
  /\ writing \in Calls \cup {None}
  /\ job \in [Calls -> Jobs]
  /\ call \in [Calls -> {"idle", "waiting", "writing", "ok", "failed"}]
  /\ awaiting \in Seq(Calls) /\ resuming \in Seq(Calls)

LEMMA Halves == TypeOK <=> Numbers /\ Control
BY DEF TypeOK, Numbers, Control

LEMMA IdleIsJob == Idle \in Jobs
BY BoundsAreNat DEF Idle, Jobs

LEMMA NewJob ==
  ASSUME NEW r \in Nat
  PROVE  [step |-> "opening", data |-> r, attempt |-> 0] \in Jobs
BY BoundsAreNat DEF Jobs, Active

LEMMA RetriedJob ==
  ASSUME NEW j \in Jobs, j.attempt < MaxRetries
  PROVE  [j EXCEPT !.attempt = @ + 1] \in Jobs
BY BoundsAreNat DEF Jobs

LEMMA InitIInv == Init => IInv
<1> SUFFICES ASSUME Init PROVE IInv
  OBVIOUS
<1> USE DEF Init
<1>1. Numbers
  BY BoundsAreNat DEF Numbers
<1>2. Control
  <2>1. /\ job \in [Calls -> Jobs]
        /\ call \in [Calls -> {"idle", "waiting", "writing", "ok", "failed"}]
        /\ awaiting \in Seq(Calls) /\ resuming \in Seq(Calls)
    BY IdleIsJob
  <2> QED
    BY <2>1 DEF Control
<1>3. OneWriter /\ WholeSnapshots /\ OwnerLeads /\ UnsavedIsRemembered
  BY CallsAssumption
  DEF OneWriter, WholeSnapshots, OwnerLeads, UnsavedIsRemembered, Idle
<1>4. QueuesAreSets /\ CloseComesLast
  BY CallsAssumption DEF QueuesAreSets, CloseComesLast, Busy, Calls
<1> QED
  BY <1>1, <1>2, <1>3, <1>4, Halves DEF IInv

\* The calls of flush() differ in who makes them and in what close() sets;
\* a settled write resumes its owner or a waiter.
LEMMA Steps ==
  ASSUME [Next]_vars
  PROVE  \/ Commit
         \/ \E c \in Calls : FlushNow(c) /\ closed' = closed /\ c # Final
                             /\ (timer \/ ~closed)
         \/ FlushNow(Final) /\ ~closed /\ closed' = TRUE
         \/ Resume
         \/ \E c \in Calls : FileStep(c) \/ RenameBusy(c) \/ WriteFails(c)
         \/ Release
         \/ UNCHANGED vars
BY CallsAssumption DEF Next, TimerFires, Flush, Close, Calls

LEMMA NumbersStep ==
  ASSUME TypeOK, WholeSnapshots, [Next]_vars
  PROVE  Numbers'
<1>1. Numbers
  BY Halves
<1> USE <1>1, BoundsAreNat DEF Numbers
<1>2. CASE Commit
  BY <1>2 DEF Commit, Schedule, calls
<1>3. ASSUME NEW c \in Calls, FlushNow(c) PROVE Numbers'
  BY <1>3 DEF FlushNow, files, history
<1>4. CASE Resume
  BY <1>4 DEF Resume, files, history
<1>5. ASSUME NEW c \in Calls, FileStep(c) \/ RenameBusy(c) \/ WriteFails(c)
      PROVE  Numbers'
  <2> USE DEF files, history
  <2>1. CASE OpenTemporary(c)
    BY <2>1 DEF OpenTemporary
  <2>2. CASE WriteTemporary(c)
    BY <2>2 DEF WriteTemporary, At, WholeSnapshots
  <2>3. CASE Rename(c)
    BY <2>3 DEF Rename, At, WholeSnapshots
  <2>4. CASE RemoveTemporary(c)
    BY <2>4 DEF RemoveTemporary
  <2>5. CASE RenameBusy(c)
    BY <2>5 DEF RenameBusy
  <2>6. CASE WriteFails(c)
    BY <2>6 DEF WriteFails
  <2> QED
    BY <1>5, <2>1, <2>2, <2>3, <2>4, <2>5, <2>6 DEF FileStep
<1>6. CASE Release
  BY <1>6 DEF Release, files, calls, history
<1>7. CASE UNCHANGED vars
  BY <1>7 DEF vars, files, calls, history
<1> QED
  BY <1>2, <1>3, <1>4, <1>5, <1>6, <1>7, Steps, CallsAssumption DEF Calls

LEMMA ControlStep ==
  ASSUME TypeOK, [Next]_vars
  PROVE  Control'
<1>1. Control /\ mem \in Nat
  BY Halves, BoundsAreNat DEF Numbers
<1> USE <1>1 DEF Control
<1>2. CASE Commit
  BY <1>2 DEF Commit, Schedule, calls
<1>3. ASSUME NEW c \in Calls, NEW woken \in Seq(Calls), Enter(c, woken),
             timer' \in BOOLEAN, closed' \in BOOLEAN,
             UNCHANGED <<released, failedSince>>
      PROVE  Control'
  <2>1. CASE AwaitWrite(c, woken)
    BY <1>3, <2>1 DEF AwaitWrite
  <2>2. CASE Return(c, "ok", woken) /\ UNCHANGED <<writing, job>>
    BY <1>3, <2>2 DEF Return
  <2>3. CASE StartWrite(c, woken)
    <3>1. job' \in [Calls -> Jobs]
      BY <2>3, NewJob DEF StartWrite
    <3>2. /\ call' \in [Calls -> {"idle", "waiting", "writing", "ok", "failed"}]
          /\ awaiting' \in Seq(Calls) /\ resuming' \in Seq(Calls)
      BY <2>3 DEF StartWrite
    <3> QED
      BY <1>3, <2>3, <3>1, <3>2 DEF StartWrite
  <2> QED
    BY <1>3, <2>1, <2>2, <2>3 DEF Enter
<1>4. ASSUME NEW c \in Calls, FlushNow(c), closed' \in BOOLEAN PROVE Control'
  <2>1. Enter(c, <<>>) /\ <<>> \in Seq(Calls)
    BY <1>4 DEF FlushNow
  <2> QED
    BY <1>3, <1>4, <2>1 DEF FlushNow, history
<1>5. CASE Resume
  <2>1. Head(resuming) \in Calls /\ Tail(resuming) \in Seq(Calls)
    BY <1>5 DEF Resume
  <2>2. CASE ResumeOwner(Head(resuming), Tail(resuming))
    BY <1>5, <2>1, <2>2, IdleIsJob DEF Resume, ResumeOwner, Return, history
  <2>3. CASE ResumeWaiter(Head(resuming), Tail(resuming))
    BY <1>3, <1>5, <2>1, <2>3 DEF Resume, ResumeWaiter, history
  <2> QED
    BY <1>5, <2>2, <2>3 DEF Resume
<1>6. ASSUME NEW c \in Calls, FileStep(c) \/ RenameBusy(c) \/ WriteFails(c)
      PROVE  Control'
  <2> USE DEF SettleWrite, At, fields, history
  <2>1. ASSUME NEW step \in {"writing", "renaming", "removing", "done", "failed"},
               Step(c, step)
        PROVE  job' \in [Calls -> Jobs]
    BY <2>1 DEF Step, Jobs, Active
  <2>2. CASE OpenTemporary(c)
    BY <2>1, <2>2 DEF OpenTemporary
  <2>3. CASE WriteTemporary(c)
    BY <2>1, <2>3 DEF WriteTemporary
  <2>4. CASE Rename(c)
    BY <2>1, <2>4 DEF Rename
  <2>5. CASE RemoveTemporary(c)
    BY <2>1, <2>5 DEF RemoveTemporary
  <2>6. CASE RenameBusy(c)
    <3>1. [job[c] EXCEPT !.attempt = @ + 1] \in Jobs
      BY <2>6, RetriedJob DEF RenameBusy
    <3> QED
      BY <2>6, <3>1 DEF RenameBusy
  <2>7. CASE WriteFails(c)
    BY <2>1, <2>7 DEF WriteFails
  <2> QED
    BY <1>6, <2>2, <2>3, <2>4, <2>5, <2>6, <2>7 DEF FileStep
<1>7. CASE Release
  BY <1>7 DEF Release, fields, calls, history
<1>8. CASE UNCHANGED vars
  BY <1>8 DEF vars, fields, calls, history
<1> QED
  BY <1>2, <1>4, <1>5, <1>6, <1>7, <1>8, Steps, CallsAssumption DEF Calls

LEMMA TypeStep == IInv /\ [Next]_vars => TypeOK'
BY NumbersStep, ControlStep, Halves DEF IInv, Numbers, Control, TypeOK

\* What a call that enters the loop of flush() changes: nothing of a write
\* in flight, and only its own entries.
LEMMA EnterWriter ==
  ASSUME TypeOK, OneWriter, NEW c \in Calls, NEW woken, Enter(c, woken),
         call[c] # "writing"
  PROVE  /\ OneWriter'
         /\ \A d \in Calls \ {c} : job'[d] = job[d] /\ call'[d] = call[d]
         /\ writing # None =>
              /\ writing' = writing /\ job' = job /\ call'[c] = "waiting"
              /\ awaiting' = Append(awaiting, c)
         /\ writing = None =>
              \/ /\ writing' = None /\ job' = job /\ call'[c] = "ok"
                 /\ ~dirty /\ awaiting' = awaiting
              \/ /\ writing' = c /\ call'[c] = "writing"
                 /\ awaiting' = Append(awaiting, c)
                 /\ job'[c] = [step |-> "opening", data |-> mem, attempt |-> 0]
         /\ resuming' = woken
<1> USE CallsAssumption, Halves DEF Control, OneWriter
<1>1. CASE AwaitWrite(c, woken) /\ writing # None
  BY <1>1 DEF AwaitWrite
<1>2. CASE writing = None /\ ~dirty /\ Return(c, "ok", woken)
           /\ UNCHANGED <<writing, job>>
  BY <1>2 DEF Return
<1>3. CASE writing = None /\ StartWrite(c, woken)
  BY <1>3 DEF StartWrite
<1> QED
  BY <1>1, <1>2, <1>3 DEF Enter

\* What a step of writeFileAtomic changes: it is a step of the one writer, and
\* at its end the queue is ready to go on.
LEMMA FileWriter ==
  ASSUME TypeOK, OneWriter,
         NEW c \in Calls, FileStep(c) \/ RenameBusy(c) \/ WriteFails(c)
  PROVE  /\ c = writing /\ writing' = writing /\ job[c].step \in Active
         /\ call' = call /\ resuming = <<>>
         /\ \A d \in Calls \ {c} : job'[d] = job[d]
         /\ job'[c].data = job[c].data
         /\ \/ job'[c].step \in Active /\ UNCHANGED <<awaiting, resuming>>
            \/ /\ job'[c].step \in {"done", "failed"}
               /\ resuming' = awaiting /\ awaiting' = <<>>
         /\ UNCHANGED <<timer, closed, released, mem, owed, goal>>
<1>1. job \in [Calls -> Jobs] /\ (job[c].step # "none" => c = writing)
  BY Halves DEF Control, OneWriter
<1>2. DOMAIN job[c] = {"step", "data", "attempt"}
  BY <1>1 DEF Jobs
<1> USE <1>1, <1>2 DEF Step, SettleWrite, At, Active, files, fields, history
<1>3. CASE OpenTemporary(c)
  BY <1>3 DEF OpenTemporary
<1>4. CASE WriteTemporary(c)
  BY <1>4 DEF WriteTemporary
<1>5. CASE Rename(c)
  BY <1>5 DEF Rename
<1>6. CASE RemoveTemporary(c)
  BY <1>6 DEF RemoveTemporary
<1>7. CASE RenameBusy(c)
  BY <1>7 DEF RenameBusy
<1>8. CASE WriteFails(c)
  BY <1>8 DEF WriteFails
<1> QED
  BY <1>3, <1>4, <1>5, <1>6, <1>7, <1>8 DEF FileStep

LEMMA WriterStep == IInv /\ [Next]_vars => OneWriter'
<1> SUFFICES ASSUME TypeOK, OneWriter, [Next]_vars PROVE OneWriter'
  BY DEF IInv
<1>1. Control
  BY Halves
<1> USE <1>1, CallsAssumption DEF Control, OneWriter
<1>2. CASE Commit
  BY <1>2 DEF Commit, calls
<1>3. ASSUME NEW c \in Calls, FlushNow(c) PROVE OneWriter'
  BY <1>3, EnterWriter DEF FlushNow, Busy
<1>4. CASE Resume
  <2>1. Head(resuming) \in Calls
    BY <1>4 DEF Resume
  <2>2. CASE ResumeOwner(Head(resuming), Tail(resuming))
    BY <1>4, <2>1, <2>2 DEF ResumeOwner, Return, Idle
  <2>3. CASE ResumeWaiter(Head(resuming), Tail(resuming))
    BY <2>1, <2>3, EnterWriter DEF ResumeWaiter
  <2> QED
    BY <1>4, <2>2, <2>3 DEF Resume
<1>5. ASSUME NEW c \in Calls, FileStep(c) \/ RenameBusy(c) \/ WriteFails(c)
      PROVE  OneWriter'
  BY <1>5, FileWriter DEF Active
<1>6. CASE Release
  BY <1>6 DEF Release, fields, calls
<1>7. CASE UNCHANGED vars
  BY <1>7 DEF vars, fields, calls
<1> QED
  BY <1>2, <1>3, <1>4, <1>5, <1>6, <1>7, Steps DEF Calls

\* An owner that comes to the head of the queue finds its write settled.
LEMMA OwnerResumes ==
  ASSUME IInv, resuming # <<>>, call[resuming[1]] = "writing"
  PROVE  /\ writing = resuming[1] /\ writing # None
         /\ job[writing].step \notin Active /\ awaiting = <<>>
<1> USE DEF IInv
<1>1. awaiting \in Seq(Calls) /\ resuming \in Seq(Calls)
  BY Halves DEF Control
<1>2. 1 \in 1..Len(resuming) /\ resuming[1] \in Calls
  BY <1>1
<1>3. writing = resuming[1] /\ writing # None
  BY <1>2, CallsAssumption DEF OneWriter
<1>4. awaiting # <<>> => 1 \in 1..Len(awaiting) /\ awaiting[1] # resuming[1]
  BY <1>1, <1>2 DEF QueuesAreSets
<1> QED
  BY <1>3, <1>4 DEF OwnerLeads

\* A snapshot is taken when the writer starts, of a state that everything
\* owed is part of, and what is renamed is whole.
LEMMA SnapshotStep ==
  IInv /\ [Next]_vars => (WholeSnapshots /\ UnsavedIsRemembered)'
<1> DEFINE Goal == (WholeSnapshots /\ UnsavedIsRemembered)'
<1> SUFFICES ASSUME IInv, [Next]_vars PROVE Goal
  OBVIOUS
<1>1. TypeOK /\ OneWriter
  BY DEF IInv
<1>2. /\ mem \in Nat /\ owed \in Nat /\ owed <= mem
      /\ goal \in [Calls -> Nat] /\ Control
  BY <1>1, BoundsAreNat, Halves DEF Numbers
<1>3. WholeSnapshots /\ UnsavedIsRemembered
  BY DEF IInv
<1> USE <1>2, <1>3, CallsAssumption
        DEF WholeSnapshots, UnsavedIsRemembered, InFlight
<1>4. CASE Commit
  BY <1>4 DEF Commit, Schedule, calls
<1>5. ASSUME NEW c \in Calls, FlushNow(c) PROVE Goal
  <2>1. call[c] # "writing" /\ Enter(c, <<>>)
    BY <1>5 DEF FlushNow, Busy
  <2>2. /\ UNCHANGED <<mem, disk, tmp, owed>> /\ goal' = [goal EXCEPT ![c] = owed]
        /\ job[c].step = "none"
    BY <1>1, <1>5, <2>1 DEF FlushNow, files, history, OneWriter
  <2>3. WholeSnapshots'
    BY <1>1, <2>1, <2>2, EnterWriter
  <2>4. UnsavedIsRemembered'
    BY <1>1, <2>1, <2>2, EnterWriter DEF Active, Enter, AwaitWrite, Return
  <2> QED
    BY <2>3, <2>4
<1>6. CASE Resume
  <2>1. /\ Head(resuming) \in Calls /\ Head(resuming) = resuming[1]
        /\ UNCHANGED <<mem, disk, tmp, owed, goal>>
    BY <1>6 DEF Resume, Control, files, history
  <2>2. CASE ResumeOwner(Head(resuming), Tail(resuming))
    <3>1. writing = resuming[1] /\ job[writing].step \notin Active
      BY <1>6, <2>1, <2>2, OwnerResumes DEF Resume, ResumeOwner
    <3>2. job' = [job EXCEPT ![writing] = Idle] /\ dirty' = dirty
      BY <2>1, <2>2, <3>1 DEF ResumeOwner, Return
    <3> QED
      BY <2>1, <3>1, <3>2 DEF Idle, Control, Active
  <2>3. CASE ResumeWaiter(Head(resuming), Tail(resuming))
    <3>1. /\ call[Head(resuming)] = "waiting"
          /\ job[Head(resuming)].step = "none"
      BY <1>1, <2>1, <2>3 DEF ResumeWaiter, OneWriter
    <3>2. WholeSnapshots'
      BY <1>1, <2>1, <2>3, <3>1, EnterWriter DEF ResumeWaiter
    <3>3. UnsavedIsRemembered'
      BY <1>1, <2>1, <2>3, <3>1, EnterWriter
      DEF ResumeWaiter, Active, Enter, AwaitWrite, Return
    <3> QED
      BY <3>2, <3>3
  <2> QED
    BY <1>6, <2>2, <2>3 DEF Resume
<1>7. ASSUME NEW c \in Calls, FileStep(c) \/ RenameBusy(c) \/ WriteFails(c)
      PROVE  Goal
  <2>1. /\ c = writing /\ job[c].step \in Active /\ job'[c].data = job[c].data
        /\ \A d \in Calls \ {c} : job'[d] = job[d] /\ job[d].step = "none"
        /\ UNCHANGED <<mem, owed, goal>>
    BY <1>1, <1>7, FileWriter DEF OneWriter
  <2> USE <2>1 DEF Active
  <2>2. CASE OpenTemporary(c)
    BY <2>2 DEF OpenTemporary, Step, fields, Control
  <2>3. CASE WriteTemporary(c)
    BY <2>3 DEF WriteTemporary, Step, fields, Control
  <2>4. CASE Rename(c)
    BY <2>4 DEF Rename, At, SettleWrite, Step, fields, Control
  <2>5. CASE RemoveTemporary(c)
    BY <2>5 DEF RemoveTemporary, SettleWrite, Step, Control
  <2>6. CASE RenameBusy(c)
    <3>1. job'[c].step = job[c].step
      BY <2>6 DEF RenameBusy, Control, Jobs
    <3> QED
      BY <2>6, <3>1 DEF RenameBusy, files, fields
  <2>7. CASE WriteFails(c)
    BY <2>7 DEF WriteFails, Step, files, fields, Control
  <2> QED
    BY <1>7, <2>2, <2>3, <2>4, <2>5, <2>6, <2>7 DEF FileStep
<1>8. CASE Release
  BY <1>8 DEF Release, files, fields, calls, history
<1>9. CASE UNCHANGED vars
  BY <1>9 DEF vars, files, fields, calls, history
<1> QED
  BY <1>4, <1>5, <1>6, <1>7, <1>8, <1>9, Steps DEF Calls

LEMMA Joined ==
  ASSUME NEW s \in Seq(Calls), NEW c \in Calls
  PROVE  /\ Append(s, c) \in Seq(Calls) /\ Append(s, c) # <<>>
         /\ Len(Append(s, c)) = Len(s) + 1 /\ Len(s) \in Nat
         /\ Append(s, c)[Len(s) + 1] = c
         /\ Append(s, c)[1] = IF s = <<>> THEN c ELSE s[1]
         /\ \A i \in 1..Len(s) : Append(s, c)[i] = s[i]
OBVIOUS

LEMMA Split ==
  ASSUME NEW s \in Seq(Calls), s # <<>>
  PROVE  \E c \in Calls, rest \in Seq(Calls) :
           /\ c = Head(s) /\ rest = Tail(s) /\ c = s[1]
           /\ Len(rest) = Len(s) - 1 /\ Len(s) \in Nat \ {0}
           /\ \A i \in 1..Len(rest) : rest[i] = s[i + 1]
<1>1. /\ Head(s) \in Calls /\ Tail(s) \in Seq(Calls) /\ Head(s) = s[1]
      /\ Len(Tail(s)) = Len(s) - 1 /\ Len(s) \in Nat \ {0}
      /\ \A i \in 1..Len(Tail(s)) : Tail(s)[i] = s[i + 1]
  OBVIOUS
<1> QED
  BY <1>1

\* awaiting and then resuming are one queue: a call joins it where awaiting
\* ends, and it comes back to that place when it has to wait again.
LEMMA QueueStep == IInv /\ [Next]_vars => (QueuesAreSets /\ OwnerLeads)'
<1> DEFINE Goal == (QueuesAreSets /\ OwnerLeads)'
<1> SUFFICES ASSUME IInv, [Next]_vars PROVE Goal
  OBVIOUS
<1>1. TypeOK /\ OneWriter /\ QueuesAreSets /\ OwnerLeads
  BY DEF IInv
<1>2. /\ awaiting \in Seq(Calls) /\ resuming \in Seq(Calls)
      /\ call \in [Calls -> {"idle", "waiting", "writing", "ok", "failed"}]
  BY <1>1, Halves DEF Control
<1> USE <1>2, CallsAssumption
<1>3. ASSUME NEW c \in Calls, NEW woken \in Seq(Calls), Enter(c, woken),
             call[c] # "writing",
             \A i \in 1..Len(awaiting) : awaiting[i] # c,
             \A i \in 1..Len(woken) : woken[i] # c /\ Busy(woken[i]),
             \A i, j \in 1..Len(woken) : woken[i] = woken[j] => i = j,
             \A i \in 1..Len(awaiting), j \in 1..Len(woken) :
               awaiting[i] # woken[j],
             writing # None => job[writing].step \in Active
      PROVE  Goal
  <2>1. awaiting' \in {awaiting, Append(awaiting, c)} /\ resuming' = woken
    BY <1>1, <1>3, EnterWriter
  <2>2. Busy(c)' \/ awaiting' = awaiting
    BY <1>1, <1>3, EnterWriter DEF Busy
  <2>3. \A d \in Calls \ {c} : Busy(d)' = Busy(d)
    BY <1>1, <1>3, EnterWriter DEF Busy
  <2>4. /\ \A i \in 1..Len(awaiting) :
             call'[awaiting[i]] \in {"waiting", "writing"}
        /\ \A i \in 1..Len(woken) : call'[woken[i]] \in {"waiting", "writing"}
    BY <1>1, <1>3, <2>3 DEF QueuesAreSets, Busy
  <2>5. ASSUME awaiting' = awaiting PROVE QueuesAreSets'
    BY <1>1, <1>3, <2>1, <2>4, <2>5 DEF QueuesAreSets, Busy
  <2>6. ASSUME awaiting' = Append(awaiting, c), Busy(c)' PROVE QueuesAreSets'
    <3>1. /\ \A i \in 1..Len(awaiting)' :
               \/ i \in 1..Len(awaiting) /\ awaiting'[i] = awaiting[i]
               \/ i = Len(awaiting) + 1 /\ awaiting'[i] = c
      BY <2>6, Joined
    <3>2. \A i \in 1..Len(awaiting)' : Busy(awaiting[i])'
      BY <2>4, <2>6, <3>1 DEF Busy
    <3>3. \A i, j \in 1..Len(awaiting)' : awaiting'[i] = awaiting'[j] => i = j
      BY <1>1, <1>3, <3>1 DEF QueuesAreSets
    <3>4. \A i \in 1..Len(awaiting)', j \in 1..Len(woken) :
            awaiting'[i] # woken[j]
      BY <1>3, <3>1
    <3> QED
      BY <1>3, <2>1, <2>4, <3>2, <3>3, <3>4 DEF QueuesAreSets, Busy
  <2>7. OwnerLeads'
    <3>1. CASE writing # None
      BY <1>1, <1>3, <3>1, EnterWriter, Joined DEF OwnerLeads
    <3>2. CASE writing = None
      BY <1>1, <1>3, <3>2, EnterWriter, Joined DEF OwnerLeads, Active
    <3> QED
      BY <3>1, <3>2
  <2> QED
    BY <2>1, <2>2, <2>5, <2>6, <2>7
<1>4. CASE Commit
  BY <1>1, <1>4 DEF Commit, Schedule, calls, QueuesAreSets, OwnerLeads, Busy
<1>5. ASSUME NEW c \in Calls, FlushNow(c) PROVE Goal
  <2>1. /\ Enter(c, <<>>) /\ resuming = <<>>
        /\ ~Busy(c) /\ call[c] # "writing"
    BY <1>5 DEF FlushNow, Busy
  <2>2. /\ \A i \in 1..Len(awaiting) : awaiting[i] # c
        /\ <<>> \in Seq(Calls) /\ 1..Len(<<>>) = {}
    BY <1>1, <2>1 DEF QueuesAreSets
  <2>3. writing # None => job[writing].step \in Active
    BY <1>1, <2>1 DEF OwnerLeads
  <2> QED
    BY <1>3, <2>1, <2>2, <2>3
<1>6. CASE Resume
  <2>1. PICK c \in Calls, woken \in Seq(Calls) :
        /\ c = Head(resuming) /\ woken = Tail(resuming) /\ c = resuming[1]
        /\ Len(woken) = Len(resuming) - 1 /\ Len(resuming) \in Nat \ {0}
        /\ \A i \in 1..Len(woken) : woken[i] = resuming[i + 1]
    BY <1>6, Split DEF Resume
  <2>2. /\ \A i \in 1..Len(awaiting) : awaiting[i] # c
        /\ \A i \in 1..Len(woken) : woken[i] # c /\ Busy(woken[i])
        /\ \A i, j \in 1..Len(woken) : woken[i] = woken[j] => i = j
        /\ \A i \in 1..Len(awaiting), j \in 1..Len(woken) :
             awaiting[i] # woken[j]
    BY <1>1, <1>6, <2>1 DEF QueuesAreSets, Resume
  <2>3. CASE ResumeOwner(c, woken)
    <3>1. /\ writing' = None /\ awaiting' = awaiting /\ resuming' = woken
          /\ \A d \in Calls \ {c} : call'[d] = call[d]
      BY <2>1, <2>3 DEF ResumeOwner, Return
    <3>2. awaiting = <<>>
      BY <1>6, <2>1, <2>3, OwnerResumes DEF Resume, ResumeOwner
    <3>3. QueuesAreSets'
      <4>1. 1..Len(awaiting) = {}
        BY <3>2
      <4> QED
        BY <2>1, <2>2, <3>1, <4>1 DEF QueuesAreSets, Busy
    <3> QED
      BY <3>1, <3>2, <3>3 DEF OwnerLeads
  <2>4. CASE ResumeWaiter(c, woken)
    <3>1. call[c] # "writing" /\ Enter(c, woken)
      BY <2>4 DEF ResumeWaiter
    <3>2. writing # None => job[writing].step \in Active
      BY <1>1, <2>1, <3>1 DEF OwnerLeads, OneWriter
    <3> QED
      BY <1>3, <2>1, <2>2, <3>1, <3>2
  <2> QED
    BY <1>6, <2>1, <2>3, <2>4 DEF Resume
<1>7. ASSUME NEW c \in Calls, FileStep(c) \/ RenameBusy(c) \/ WriteFails(c)
      PROVE  Goal
  BY <1>1, <1>7, FileWriter DEF QueuesAreSets, OwnerLeads, Busy, Active
<1>8. CASE Release
  BY <1>1, <1>8 DEF Release, fields, calls, QueuesAreSets, OwnerLeads, Busy
<1>9. CASE UNCHANGED vars
  BY <1>1, <1>9 DEF vars, fields, calls, QueuesAreSets, OwnerLeads, Busy
<1> QED
  BY <1>4, <1>5, <1>6, <1>7, <1>8, <1>9, Steps DEF Calls

\* No call joins the queue behind close(): IMAP is gone, and the timer it
\* cleared is not set again.
LEMMA CloseStep == IInv /\ [Next]_vars => CloseComesLast'
<1> SUFFICES ASSUME IInv, [Next]_vars PROVE CloseComesLast'
  OBVIOUS
<1>1. TypeOK /\ OneWriter /\ QueuesAreSets /\ CloseComesLast
  BY DEF IInv
<1>2. /\ awaiting \in Seq(Calls) /\ resuming \in Seq(Calls)
      /\ call \in [Calls -> {"idle", "waiting", "writing", "ok", "failed"}]
      /\ closed \in BOOLEAN /\ Final \in Calls
  BY <1>1, Halves DEF Control, Calls
<1> USE <1>2, CallsAssumption
<1>3. CASE Commit
  BY <1>1, <1>3 DEF Commit, Schedule, calls, CloseComesLast, Busy
<1>4. ASSUME NEW c \in Calls, FlushNow(c), closed' = closed, c # Final,
             timer \/ ~closed
      PROVE  CloseComesLast'
  <2>1. ~closed /\ released' = released /\ Enter(c, <<>>) /\ call[c] # "writing"
    BY <1>1, <1>4 DEF CloseComesLast, FlushNow, Busy
  <2>2. call'[Final] = call[Final]
    BY <1>1, <1>4, <2>1, EnterWriter
  <2> QED
    BY <1>1, <1>4, <2>1, <2>2 DEF CloseComesLast
<1>5. ASSUME FlushNow(Final), ~closed, closed' = TRUE PROVE CloseComesLast'
  <2>1. /\ Enter(Final, <<>>) /\ call[Final] # "writing"
        /\ ~released' /\ timer' = FALSE
    BY <1>1, <1>5 DEF CloseComesLast, FlushNow, Busy
  <2> QED
    BY <1>1, <1>5, <2>1, EnterWriter, Joined DEF CloseComesLast, Busy
<1>6. CASE Resume
  <2>1. PICK c \in Calls, woken \in Seq(Calls) :
        /\ c = Head(resuming) /\ woken = Tail(resuming) /\ c = resuming[1]
        /\ Len(woken) = Len(resuming) - 1 /\ Len(resuming) \in Nat \ {0}
        /\ \A i \in 1..Len(woken) : woken[i] = resuming[i + 1]
    BY <1>6, Split DEF Resume
  <2>2. Busy(c)
    BY <1>1, <2>1 DEF QueuesAreSets
  <2>3. closed /\ c = Final => woken = <<>>
    <3>1. ASSUME closed, c = Final PROVE Len(resuming) = 1
      BY <1>1, <1>6, <2>1, <2>2, <3>1 DEF CloseComesLast, QueuesAreSets, Resume
    <3> QED
      BY <2>1, <3>1
  <2>4. closed /\ c # Final => woken # <<>> /\ woken[Len(woken)] = Final
    <3>1. ASSUME closed, c # Final
          PROVE  resuming[Len(resuming)] = Final /\ Len(resuming) # 1
      BY <1>1, <1>6, <2>1, <3>1 DEF CloseComesLast, Resume
    <3>2. Len(woken) \in Nat /\ (woken = <<>> => Len(woken) = 0)
      OBVIOUS
    <3> QED
      BY <2>1, <3>1, <3>2
  <2>5. UNCHANGED <<timer, closed, released>>
    BY <1>6 DEF Resume
  <2>6. CASE ResumeOwner(c, woken)
    <3>1. /\ writing' = None /\ resuming' = woken
          /\ call'[c] \in {"ok", "failed"}
          /\ \A d \in Calls \ {c} : call'[d] = call[d]
      BY <2>1, <2>6 DEF ResumeOwner, Return
    <3> QED
      BY <1>1, <1>6, <2>1, <2>2, <2>3, <2>4, <2>5, <3>1
      DEF CloseComesLast, Busy, Resume
  <2>7. CASE ResumeWaiter(c, woken)
    <3>1. call[c] # "writing" /\ Enter(c, woken)
      BY <2>7 DEF ResumeWaiter
    <3>2. /\ resuming' = woken
          /\ \A d \in Calls \ {c} : call'[d] = call[d]
      BY <1>1, <2>1, <3>1, EnterWriter
    <3>3. \/ Busy(c)' /\ awaiting' = Append(awaiting, c)
          \/ call'[c] = "ok" /\ writing' = None
      <4>1. CASE writing = None
        BY <1>1, <2>1, <3>1, <4>1, EnterWriter DEF Busy
      <4>2. CASE writing # None
        BY <1>1, <2>1, <3>1, <4>2, EnterWriter DEF Busy
      <4> QED
        BY <4>1, <4>2
    <3>4. Final # c => Busy(Final)' = Busy(Final)
      BY <3>2 DEF Busy
    <3>5. /\ Append(awaiting, c) # <<>>
          /\ Append(awaiting, c)[Len(Append(awaiting, c))] = c
      BY <2>1, Joined
    <3>6. CASE c = Final
      <4>1. ~closed => ~Busy(Final)
        BY <1>1 DEF CloseComesLast, Busy
      <4> QED
        BY <1>1, <2>2, <2>3, <2>5, <3>2, <3>3, <3>5, <3>6, <4>1
        DEF CloseComesLast, Busy
    <3>7. CASE c # Final
      BY <1>1, <1>6, <2>4, <2>5, <3>2, <3>4, <3>7 DEF CloseComesLast, Resume
    <3> QED
      BY <3>6, <3>7
  <2> QED
    BY <1>6, <2>1, <2>6, <2>7 DEF Resume
<1>7. ASSUME NEW c \in Calls, FileStep(c) \/ RenameBusy(c) \/ WriteFails(c)
      PROVE  CloseComesLast'
  BY <1>1, <1>7, FileWriter DEF CloseComesLast, Busy
<1>8. CASE Release
  BY <1>1, <1>8 DEF Release, fields, calls, CloseComesLast, Busy
<1>9. CASE UNCHANGED vars
  BY <1>1, <1>9 DEF vars, fields, calls, CloseComesLast, Busy
<1> QED
  BY <1>3, <1>4, <1>5, <1>6, <1>7, <1>8, <1>9, Steps

LEMMA IInvStep == IInv /\ [Next]_vars => IInv'
BY TypeStep, WriterStep, SnapshotStep, QueueStep, CloseStep DEF IInv

LEMMA Inductive == Spec => []IInv
BY InitIInv, IInvStep, PTL DEF Spec

-----------------------------------------------------------------------------
(***************************************************************************)
(* What holds in every state                                               *)
(***************************************************************************)
\* TypeOK: every variable of the writer keeps its type, and a rename is
\* retried MaxRetries times at most.
THEOREM TypeCorrect == Spec => []TypeOK
<1>1. IInv => TypeOK
  BY DEF IInv
<1> QED
  BY <1>1, Inductive, PTL

\* SnapshotsNeverOverlap: at most one writeFileAtomic is under way, however
\* many calls of flush() wait and whichever of their writes fail.
THEOREM OneSnapshotAtATime == Spec => []SnapshotsNeverOverlap
<1>1. IInv => SnapshotsNeverOverlap
  BY DEF IInv, OneWriter, SnapshotsNeverOverlap, InFlight, Active
<1> QED
  BY <1>1, Inductive, PTL

\* UnsavedIsRemembered: a scheduled change is in the file, in a snapshot on
\* its way or remembered, also when schedule() comes during a write.
THEOREM NothingForgotten == Spec => []UnsavedIsRemembered
<1>1. IInv => UnsavedIsRemembered
  BY DEF IInv
<1> QED
  BY <1>1, Inductive, PTL

-----------------------------------------------------------------------------
(***************************************************************************)
(* The lock and the end of the store                                       *)
(***************************************************************************)
\* Once the flush of close() has returned, nothing is left that could write.
LEMMA ReleasedIsQuiet ==
  ASSUME IInv, released
  PROVE  \A c \in Calls : job[c].step = "none"
BY CallsAssumption DEF IInv, CloseComesLast, OneWriter

\* LockCoversWrites: after the data directory is unlocked no step changes the
\* data file or the temporary file.
THEOREM UnlockedIsUntouched == Spec => LockCoversWrites
<1>1. ASSUME IInv, [Next]_vars PROVE released => UNCHANGED <<disk, tmp>>
  <2>1. SUFFICES ASSUME released PROVE UNCHANGED <<disk, tmp>>
    OBVIOUS
  <2>2. ASSUME NEW c \in Calls, FileStep(c) \/ RenameBusy(c) \/ WriteFails(c)
        PROVE  FALSE
    BY <1>1, <2>1, <2>2, ReleasedIsQuiet, FileWriter DEF IInv, Active
  <2> QED
    BY <1>1, <2>2, Steps
    DEF Commit, FlushNow, Resume, Release, vars, files, Calls
<1>2. IInv /\ [Next]_vars => [released => UNCHANGED <<disk, tmp>>]_vars
  BY <1>1
<1> QED
  BY <1>2, Inductive, PTL DEF Spec, LockCoversWrites

-----------------------------------------------------------------------------
(***************************************************************************)
(* The writer implements its promise                                       *)
(***************************************************************************)
\* The calls as WriteBehind sees them.
Seen == [c \in Calls |-> IF Busy(c) THEN "pending" ELSE call[c]]

\* Nothing owed is missing from the file when the writer is clean and idle.
LEMMA CleanIsSaved ==
  ASSUME IInv, writing = None, ~dirty
  PROVE  disk >= owed
BY CallsAssumption
DEF IInv, UnsavedIsRemembered, OneWriter, InFlight, Active

\* A commit is a Change, whether or not the closed writer takes it on.
LEMMA CommitIsChange ==
  ASSUME IInv, Commit
  PROVE  Promise!Change
BY DEF Commit, Schedule, calls, Promise!Change, Busy

\* A call that starts or joins a write asks, and one that finds nothing to
\* save has what it asked for.
LEMMA FlushIsAsk ==
  ASSUME IInv, NEW c \in Calls, FlushNow(c)
  PROVE  Promise!Ask(c) \/ Promise!AskAndSucceed(c)
<1>1. /\ call \in [Calls -> {"idle", "waiting", "writing", "ok", "failed"}]
      /\ TypeOK /\ OneWriter
  BY Halves DEF IInv, Control
<1>2. /\ Enter(c, <<>>) /\ ~Busy(c) /\ call[c] # "writing"
      /\ goal' = [goal EXCEPT ![c] = owed]
      /\ UNCHANGED <<mem, owed, disk>>
  BY DEF FlushNow, Busy, files, history
<1>3. /\ Seen[c] # "pending" /\ \A d \in Calls \ {c} : Seen'[d] = Seen[d]
  BY <1>1, <1>2, EnterWriter DEF Seen, Busy
<1>4. CASE Busy(c)'
  <2>1. Seen' = [Seen EXCEPT ![c] = "pending"]
    BY <1>3, <1>4 DEF Seen
  <2> QED
    BY <1>2, <1>3, <2>1 DEF Seen, Promise!Ask
<1>5. CASE ~Busy(c)'
  <2>1. call'[c] = "ok" /\ writing = None /\ ~dirty
    BY <1>1, <1>2, <1>5, EnterWriter DEF Busy
  <2>2. Seen' = [Seen EXCEPT ![c] = "ok"]
    BY <1>3, <1>5, <2>1 DEF Seen
  <2> QED
    BY <1>2, <1>3, <2>1, <2>2, CleanIsSaved DEF Seen, Promise!AskAndSucceed
<1> QED
  BY <1>4, <1>5

\* An owner returns the result of its write, and a waiter succeeds only when
\* nothing is left to save.
LEMMA ResumeIsAnswer ==
  ASSUME IInv, Resume
  PROVE  \/ \E c \in Calls : Promise!Succeed(c) \/ Promise!Fail(c)
         \/ UNCHANGED Promise!vars
<1>1. /\ call \in [Calls -> {"idle", "waiting", "writing", "ok", "failed"}]
      /\ resuming \in Seq(Calls) /\ TypeOK /\ OneWriter
      /\ goal \in [Calls -> Nat] /\ owed \in Nat /\ disk \in Nat
      /\ \A c \in Calls : goal[c] <= owed
  BY Halves, BoundsAreNat DEF IInv, Control, Numbers, WholeSnapshots
<1>2. PICK c \in Calls, woken \in Seq(Calls) :
        c = Head(resuming) /\ woken = Tail(resuming) /\ c = resuming[1]
  BY <1>1, Split DEF Resume
<1>3. UNCHANGED <<mem, owed, disk, goal>>
  BY DEF Resume, files, history
<1>4. CASE ResumeOwner(c, woken)
  <2>1. /\ c = writing /\ job[c].step \notin Active /\ job[c].step # "none"
        /\ Seen[c] = "pending"
    BY <1>1, <1>2, <1>4, OwnerResumes
    DEF Resume, ResumeOwner, OneWriter, Seen, Busy
  <2>2. /\ call'[c] = IF job[c].step = "done" THEN "ok" ELSE "failed"
        /\ \A d \in Calls \ {c} : call'[d] = call[d]
    BY <1>1, <1>4 DEF ResumeOwner, Return
  <2>3. Seen' = [Seen EXCEPT ![c] = call'[c]]
    BY <2>2 DEF Seen, Busy
  <2>4. CASE job[c].step = "done"
    <3>1. disk >= goal[c]
      BY <1>1, <2>4 DEF IInv, WholeSnapshots
    <3> QED
      BY <1>3, <2>1, <2>2, <2>3, <2>4, <3>1 DEF Seen, Promise!Succeed
  <2>5. CASE job[c].step # "done"
    BY <1>3, <2>1, <2>2, <2>3, <2>5 DEF Seen, Promise!Fail
  <2> QED
    BY <2>4, <2>5
<1>5. CASE ResumeWaiter(c, woken)
  <2>1. call[c] = "waiting" /\ Enter(c, woken) /\ Seen[c] = "pending"
    BY <1>5 DEF ResumeWaiter, Seen, Busy
  <2>2. \A d \in Calls \ {c} : Seen'[d] = Seen[d]
    BY <1>1, <2>1, EnterWriter DEF Seen, Busy
  <2>3. CASE Busy(c)'
    BY <1>3, <2>1, <2>2, <2>3 DEF Seen, Promise!vars
  <2>4. CASE ~Busy(c)'
    <3>1. call'[c] = "ok" /\ writing = None /\ ~dirty
      BY <1>1, <2>1, <2>4, EnterWriter DEF Busy
    <3>2. Seen' = [Seen EXCEPT ![c] = "ok"]
      BY <2>2, <2>4, <3>1 DEF Seen
    <3>3. disk >= goal[c]
      BY <1>1, <3>1, CleanIsSaved
    <3> QED
      BY <1>3, <2>1, <3>2, <3>3 DEF Seen, Promise!Succeed
  <2> QED
    BY <2>3, <2>4
<1> QED
  BY <1>2, <1>4, <1>5 DEF Resume

\* Of the steps of writeFileAtomic only the rename shows: it saves a snapshot
\* at least as new as the file.
LEMMA FileIsSave ==
  ASSUME IInv, NEW c \in Calls, FileStep(c) \/ RenameBusy(c) \/ WriteFails(c)
  PROVE  Promise!Save \/ UNCHANGED Promise!vars
<1>1. UNCHANGED <<mem, owed, goal, call>>
  BY FileWriter DEF IInv
<1>2. UNCHANGED Seen
  BY <1>1 DEF Seen, Busy
<1>3. CASE Rename(c)
  <2>1. disk' \in disk..mem
    BY <1>3, BoundsAreNat DEF Rename, At, IInv, WholeSnapshots, TypeOK
  <2> QED
    BY <1>1, <1>2, <2>1 DEF Seen, Promise!Save
<1>4. CASE ~Rename(c)
  <2>1. disk' = disk
    BY <1>4 DEF FileStep, OpenTemporary, WriteTemporary, RemoveTemporary,
       RenameBusy, WriteFails, files
  <2> QED
    BY <1>1, <1>2, <2>1 DEF Seen, Promise!vars
<1> QED
  BY <1>3, <1>4

\* Every step of the writer is one of its promise, or does not show.
LEMMA StepIsPromised ==
  ASSUME IInv, [Next]_vars
  PROVE  Promise!Next \/ UNCHANGED Promise!vars
<1>1. CASE Commit
  BY <1>1, CommitIsChange DEF Promise!Next
<1>2. ASSUME NEW c \in Calls, FlushNow(c) PROVE Promise!Next
  BY <1>2, FlushIsAsk DEF Promise!Next
<1>3. CASE Resume
  BY <1>3, ResumeIsAnswer DEF Promise!Next
<1>4. ASSUME NEW c \in Calls, FileStep(c) \/ RenameBusy(c) \/ WriteFails(c)
      PROVE  Promise!Next \/ UNCHANGED Promise!vars
  BY <1>4, FileIsSave DEF Promise!Next
<1>5. CASE Release
  BY <1>5 DEF Release, files, calls, history, Promise!vars, Busy
<1>6. CASE UNCHANGED vars
  BY <1>6 DEF vars, files, calls, history, Promise!vars, Busy
<1> QED
  BY <1>1, <1>2, <1>3, <1>4, <1>5, <1>6, Steps DEF Calls

\* KeepsPromise: the writer implements WriteBehind.  The file only ever goes
\* from one whole state of the mailbox to a newer one, and no flush() or
\* close() succeeds before what was scheduled when it was called is saved.
THEOREM PromiseIsKept == Spec => KeepsPromise
<1>1. Init => Promise!Init
  BY DEF Init, Promise!Init, Busy
<1>2. IInv /\ [Next]_vars => [Promise!Next]_(Promise!vars)
  BY StepIsPromised
<1> QED
  BY <1>1, <1>2, Inductive, PTL DEF Spec, KeepsPromise, Promise!Spec

-----------------------------------------------------------------------------
(***************************************************************************)
(* The mailbox over the lives of several processes                         *)
(*                                                                         *)
(* The writer's invariant survives the restart, for the next process       *)
(* begins like the first one at the revision in the file.  Of the writer   *)
(* the rest needs only that invariant and the promise.                     *)
(***************************************************************************)
Mailboxes == [rows : SUBSET (Nat \X Nat), lastId : Nat]

\* log has the mailbox at each revision up to that in memory, and nobody
\* commits after close(): what is scheduled is always all there is.
LogIsHistory ==
  /\ log \in Seq(Mailboxes) /\ Len(log) = mem + 1
  /\ handed \in SUBSET (Nat \X Nat) /\ IsFiniteSet(handed)
  /\ owed = mem

\* A flush that succeeded has saved what it was asked to save, and close()
\* asked for all there is.
FlushesHaveSaved ==
  /\ \A c \in Calls : call[c] = "ok" => goal[c] <= disk
  /\ closed => goal[Final] = mem

\* A message leaves the mailbox by its deletion only, and what was checked is
\* in the file and in every revision after it.
OnlyDeletionsRemove ==
  \A q, r \in 0..mem : q <= r => Saved(q) \ deleted \subseteq Saved(r)
CheckedIsInFile ==
  \A r \in disk..mem : checked \ deleted \subseteq Saved(r)

CounterIsAbove == ~lost => \A a \in handed : a[1] <= Mailbox.lastId

DurableInv ==
  /\ IInv
  /\ LogIsHistory
  /\ FlushesHaveSaved
  /\ OnlyDeletionsRemove
  /\ CheckedIsInFile
  /\ CounterIsAbove
  /\ OneIdentityUnlessLost

LEMMA RevisionsAre ==
  ASSUME IInv
  PROVE  mem \in Nat /\ disk \in Nat /\ disk <= mem
BY BoundsAreNat DEF IInv, TypeOK, WholeSnapshots

LEMMA InitDurable == DurableInit => DurableInv
<1> SUFFICES ASSUME DurableInit PROVE DurableInv
  OBVIOUS
<1> USE DEF DurableInit
<1>1. IInv
  BY InitIInv
<1>2. mem = 0 /\ disk = 0 /\ owed = 0 /\ ~closed
      /\ call = [c \in Calls |-> "idle"]
  BY DEF Init
<1>3. LogIsHistory
  <2>1. [rows |-> {}, lastId |-> 0] \in Mailboxes
    BY DEF Mailboxes
  <2> QED
    BY <1>2, <2>1, FS_EmptySet DEF LogIsHistory
<1>4. FlushesHaveSaved
  BY <1>2 DEF FlushesHaveSaved
<1>5. OnlyDeletionsRemove /\ CheckedIsInFile
  BY <1>2 DEF OnlyDeletionsRemove, CheckedIsInFile
<1>6. CounterIsAbove /\ OneIdentityUnlessLost
  BY DEF CounterIsAbove, OneIdentityUnlessLost
<1> QED
  BY <1>1, <1>3, <1>4, <1>5, <1>6 DEF DurableInv

\* Transactions append one revision, and the writer takes them on.
LEMMA TransactMoves ==
  ASSUME DurableInv, NEW mailbox \in Mailboxes, Transact(mailbox)
  PROVE  /\ IInv' /\ mem' = mem + 1 /\ owed' = mem' /\ disk' = disk
         /\ log' \in Seq(Mailboxes) /\ Len(log') = mem' + 1
         /\ \A r \in 0..mem : Saved(r)' = Saved(r)
         /\ log'[mem' + 1] = mailbox
         /\ FlushesHaveSaved'
<1>1. Commit /\ ~closed /\ log' = Append(log, mailbox)
  BY DEF Transact
<1>2. IInv'
  BY <1>1, IInvStep DEF DurableInv, Next
<1>3. /\ mem' = mem + 1 /\ owed' = mem' /\ UNCHANGED <<disk, closed, calls>>
  BY <1>1 DEF Commit, Schedule
<1>4. mem \in Nat /\ log \in Seq(Mailboxes) /\ Len(log) = mem + 1
  BY RevisionsAre DEF DurableInv, LogIsHistory
<1>5. /\ log' \in Seq(Mailboxes) /\ Len(log') = mem' + 1
      /\ log'[mem' + 1] = mailbox
      /\ \A i \in 1..(mem + 1) : log'[i] = log[i]
  BY <1>1, <1>3, <1>4, AppendProperties
<1>6. \A r \in 0..mem : Saved(r)' = Saved(r)
  <2> TAKE r \in 0..mem
  <2>1. log'[r + 1] = log[r + 1]
    BY <1>4, <1>5
  <2> QED
    BY <2>1 DEF Saved
<1>7. FlushesHaveSaved'
  BY <1>1, <1>3 DEF FlushesHaveSaved, DurableInv, calls
<1> QED
  BY <1>2, <1>3, <1>5, <1>6, <1>7

\* What a transaction keeps, apart from the counter and the identities: the
\* new revision has what the last one had, except for what was deleted.
LEMMA HistoryGrows ==
  ASSUME DurableInv, NEW mailbox \in Mailboxes, Transact(mailbox),
         deleted \subseteq deleted',
         handed' \in SUBSET (Nat \X Nat) /\ IsFiniteSet(handed'),
         Saved(mem) \ deleted' \subseteq {row[2] : row \in mailbox.rows}
  PROVE  LogIsHistory' /\ OnlyDeletionsRemove' /\ CheckedIsInFile'
<1>1. /\ mem \in Nat /\ disk \in Nat /\ disk <= mem
      /\ mem' = mem + 1 /\ disk' = disk /\ checked' = checked
      /\ \A r \in 0..mem : Saved(r)' = Saved(r)
  BY TransactMoves, RevisionsAre DEF DurableInv, Transact
<1>2. Saved(mem)' = {row[2] : row \in mailbox.rows}
  BY <1>1, TransactMoves DEF Saved
<1>3. LogIsHistory'
  BY TransactMoves DEF LogIsHistory
<1>4. ASSUME NEW q \in 0..mem PROVE Saved(q) \ deleted' \subseteq Saved(mem)'
  <2>1. Saved(q) \ deleted \subseteq Saved(mem)
    BY <1>1 DEF DurableInv, OnlyDeletionsRemove
  <2> QED
    BY <1>2, <2>1
<1>5. OnlyDeletionsRemove'
  <2> SUFFICES ASSUME NEW q \in 0..(mem + 1), NEW r \in 0..(mem + 1), q <= r
               PROVE  Saved(q)' \ deleted' \subseteq Saved(r)'
    BY <1>1 DEF OnlyDeletionsRemove
  <2>1. CASE r = mem + 1 /\ q = mem + 1
    BY <2>1
  <2>2. CASE r = mem + 1 /\ q # mem + 1
    <3>1. q \in 0..mem /\ r = mem'
      BY <1>1, <2>2
    <3>2. Saved(q)' = Saved(q) /\ Saved(r)' = Saved(mem)'
      BY <1>1, <3>1 DEF Saved
    <3> QED
      BY <1>4, <3>1, <3>2
  <2>3. CASE r # mem + 1
    <3>1. q \in 0..mem /\ r \in 0..mem
      BY <1>1, <2>3
    <3>2. Saved(q) \ deleted \subseteq Saved(r)
      BY <3>1 DEF DurableInv, OnlyDeletionsRemove
    <3> QED
      BY <1>1, <3>1, <3>2
  <2> QED
    BY <2>1, <2>2, <2>3
<1>6. CheckedIsInFile'
  <2>1. \A r \in disk..mem : checked \ deleted' \subseteq Saved(r)'
    BY <1>1 DEF DurableInv, CheckedIsInFile
  <2>2. checked \ deleted \subseteq Saved(mem)
    BY <1>1 DEF DurableInv, CheckedIsInFile
  <2>3. checked \ deleted' \subseteq Saved(mem)'
    BY <1>2, <2>2
  <2>4. ASSUME NEW r \in disk..(mem + 1)
        PROVE  checked \ deleted' \subseteq Saved(r)'
    <3>1. CASE r = mem'
      BY <2>3, <3>1 DEF Saved
    <3> QED
      BY <1>1, <2>1, <3>1
  <2> QED
    BY <1>1, <2>4 DEF CheckedIsInFile
<1> QED
  BY <1>3, <1>5, <1>6

\* The last revision and its counter.
LEMMA MailboxIs ==
  ASSUME DurableInv
  PROVE  /\ Mailbox \in Mailboxes
         /\ Saved(mem) = {row[2] : row \in Mailbox.rows}
<1>1. mem + 1 \in 1..Len(log) /\ log \in Seq(Mailboxes)
  BY RevisionsAre DEF DurableInv, LogIsHistory
<1> QED
  BY <1>1 DEF Mailbox, Saved

LEMMA StoreStep == DurableInv /\ Store => DurableInv'
<1> SUFFICES ASSUME DurableInv, Store PROVE DurableInv'
  OBVIOUS
<1> DEFINE
  number == Cardinality(handed) + 1
  row == <<Mailbox.lastId + 1, number>>
  next == [rows |-> Mailbox.rows \cup {row}, lastId |-> row[1]]
<1>1. /\ Mailbox.rows \in SUBSET (Nat \X Nat) /\ Mailbox.lastId \in Nat
      /\ handed \in SUBSET (Nat \X Nat) /\ IsFiniteSet(handed)
  BY MailboxIs DEF Mailboxes, DurableInv, LogIsHistory
<1>2. number \in Nat
  BY <1>1, FS_CardinalityType
<1>3. /\ Transact(next) /\ deleted' = deleted
      /\ handed' = handed \cup {row} /\ lost' = lost
  BY DEF Store, Transact
<1> HIDE DEF number
<1>4. row \in Nat \X Nat /\ row[1] = Mailbox.lastId + 1
  BY <1>1, <1>2
<1>5. next \in Mailboxes
  BY <1>1, <1>4 DEF Mailboxes
<1>6. handed' \in SUBSET (Nat \X Nat) /\ IsFiniteSet(handed')
  BY <1>1, <1>3, <1>4, FS_AddElement
<1>7. LogIsHistory' /\ OnlyDeletionsRemove' /\ CheckedIsInFile'
  <2>1. Saved(mem) \ deleted' \subseteq {r[2] : r \in next.rows}
    BY MailboxIs
  <2> HIDE DEF next
  <2> QED
    BY <1>3, <1>5, <1>6, <2>1, HistoryGrows
<1>8. Mailbox' = next /\ IInv' /\ FlushesHaveSaved'
  <2> HIDE DEF next
  <2> QED
    BY <1>3, <1>5, TransactMoves DEF Mailbox
<1>9. CounterIsAbove' /\ OneIdentityUnlessLost'
  <2> SUFFICES ASSUME ~lost
               PROVE  /\ \A a \in handed' : a[1] <= row[1]
                      /\ \A a, b \in handed' : a[1] = b[1] => a = b
    BY <1>3, <1>8 DEF CounterIsAbove, OneIdentityUnlessLost
  <2>1. \A a \in handed : a[1] \in Nat /\ a[1] <= Mailbox.lastId
    BY <1>1 DEF DurableInv, CounterIsAbove
  <2>2. \A a, b \in handed : a[1] = b[1] => a = b
    BY DEF DurableInv, OneIdentityUnlessLost
  <2> HIDE DEF row
  <2> QED
    BY <1>1, <1>3, <1>4, <2>1, <2>2
<1> QED
  BY <1>7, <1>8, <1>9 DEF DurableInv

LEMMA DeleteStep ==
  ASSUME DurableInv, NEW rows \in SUBSET Mailbox.rows, Delete(rows)
  PROVE  DurableInv'
<1> DEFINE next == [Mailbox EXCEPT !.rows = @ \ rows]
<1>1. Mailbox \in Mailboxes /\ Mailbox.lastId \in Nat
  BY MailboxIs DEF Mailboxes
<1>2. /\ next \in Mailboxes /\ next.lastId = Mailbox.lastId
      /\ next.rows = Mailbox.rows \ rows
  BY <1>1 DEF Mailboxes
<1>3. /\ Transact(next) /\ handed' = handed /\ lost' = lost
      /\ deleted' = deleted \cup {row[2] : row \in rows}
  BY DEF Delete, Transact
<1> HIDE DEF next
<1>4. LogIsHistory' /\ OnlyDeletionsRemove' /\ CheckedIsInFile'
  <2>1. Saved(mem) \ deleted' \subseteq {row[2] : row \in next.rows}
    BY <1>2, <1>3, MailboxIs
  <2>2. handed' \in SUBSET (Nat \X Nat) /\ IsFiniteSet(handed')
    BY <1>3 DEF DurableInv, LogIsHistory
  <2> QED
    BY <1>2, <1>3, <2>1, <2>2, HistoryGrows
<1>5. Mailbox' = next /\ IInv' /\ FlushesHaveSaved'
  BY <1>2, <1>3, TransactMoves DEF Mailbox
<1>6. CounterIsAbove' /\ OneIdentityUnlessLost'
  BY <1>2, <1>3, <1>5 DEF CounterIsAbove, OneIdentityUnlessLost, DurableInv
<1> QED
  BY <1>4, <1>5, <1>6 DEF DurableInv

-----------------------------------------------------------------------------
\* A step of the writer commits nothing, and the file only gets newer.
LEMMA WriteMoves ==
  ASSUME DurableInv, Write
  PROVE  /\ IInv' /\ [Next]_vars
         /\ UNCHANGED <<mem, owed, log, handed, deleted, lost>>
         /\ disk <= disk'
<1>1. [Next]_vars
  BY DEF Write, Next
<1>2. IInv'
  BY <1>1, IInvStep DEF DurableInv
<1>3. mem' = mem /\ owed' = owed
  <2>1. ASSUME NEW c \in Calls, FileStep(c) \/ RenameBusy(c) \/ WriteFails(c)
        PROVE  mem' = mem /\ owed' = owed
    BY <2>1, FileWriter DEF DurableInv, IInv
  <2> QED
    BY <2>1 DEF Write, TimerFires, Flush, Close, FlushNow, Resume, Release,
       files, history
<1>4. disk <= disk'
  <2>1. Promise!Next \/ UNCHANGED Promise!vars
    BY <1>1, StepIsPromised DEF DurableInv
  <2>2. disk \in Nat /\ mem \in Nat
    BY RevisionsAre DEF DurableInv
  <2>3. Promise!Next => disk' = disk \/ disk' \in disk..mem
    BY DEF Promise!Next, Promise!Change, Promise!Save, Promise!Ask,
       Promise!AskAndSucceed, Promise!Succeed, Promise!Fail
  <2> QED
    BY <2>1, <2>2, <2>3 DEF Promise!vars
<1> QED
  BY <1>1, <1>2, <1>3, <1>4 DEF Write

\* A call succeeds only with the promise kept.
LEMMA SuccessIsSaved ==
  ASSUME DurableInv, Write
  PROVE  \A c \in Calls : call'[c] = "ok" => goal'[c] <= disk'
<1>1. disk \in Nat /\ disk' \in Nat /\ disk <= disk' /\ owed \in Nat
      /\ IInv /\ IInv' /\ [Next]_vars /\ mem' = mem
  BY WriteMoves, RevisionsAre, BoundsAreNat DEF DurableInv, LogIsHistory, IInv,
     TypeOK, WholeSnapshots
<1>2. goal \in [Calls -> Nat] /\ goal' \in [Calls -> Nat]
  BY <1>1, BoundsAreNat DEF IInv, TypeOK
<1>3. \A c \in Calls : Seen[c] = "ok" => goal[c] <= disk
  BY DEF Seen, Busy, DurableInv, FlushesHaveSaved
<1>4. \A c \in Calls : call'[c] = "ok" => Seen'[c] = "ok"
  BY DEF Seen, Busy
<1>5. \A c \in Calls : Seen'[c] = "ok" => goal'[c] <= disk'
  <2>1. CASE UNCHANGED Promise!vars
    BY <1>1, <1>2, <1>3, <2>1 DEF Promise!vars, Seen
  <2>2. CASE Promise!Change
    BY <1>1, <2>2, RevisionsAre DEF Promise!Change
  <2>3. CASE Promise!Save
    BY <1>1, <1>2, <1>3, <2>3 DEF Promise!Save, Seen
  <2>4. ASSUME NEW c \in Calls, Promise!Ask(c) \/ Promise!AskAndSucceed(c)
        PROVE  \A d \in Calls : Seen'[d] = "ok" => goal'[d] <= disk'
    BY <1>1, <1>2, <1>3, <2>4 DEF Promise!Ask, Promise!AskAndSucceed, Seen
  <2>5. ASSUME NEW c \in Calls, Promise!Succeed(c) \/ Promise!Fail(c)
        PROVE  \A d \in Calls : Seen'[d] = "ok" => goal'[d] <= disk'
    BY <1>1, <1>2, <1>3, <2>5 DEF Promise!Succeed, Promise!Fail, Seen
  <2> QED
    BY <1>1, <2>1, <2>2, <2>3, <2>4, <2>5, StepIsPromised DEF Promise!Next
<1> QED
  BY <1>4, <1>5

\* Only close() makes the call of close(), and it asks for all there is.
LEMMA FinalAsksAll ==
  ASSUME DurableInv, Write, closed'
  PROVE  goal'[Final] = mem
<1>1. goal \in [Calls -> 0..MaxRevision] /\ Final \in Calls /\ owed = mem
  BY DEF DurableInv, IInv, TypeOK, LogIsHistory, Calls
<1>2. CASE Close
  BY <1>1, <1>2 DEF Close, FlushNow
<1>3. CASE closed /\ goal'[Final] = goal[Final]
  BY <1>3 DEF DurableInv, FlushesHaveSaved
<1>4. ASSUME NEW c \in Calls, FileStep(c) \/ RenameBusy(c) \/ WriteFails(c)
      PROVE  goal' = goal /\ closed' = closed
  BY <1>4 DEF FileStep, OpenTemporary, WriteTemporary, Rename, RemoveTemporary,
     RenameBusy, WriteFails, fields
<1>5. ASSUME NEW c \in Calls \ {Final}, TimerFires(c) \/ Flush(c)
      PROVE  goal'[Final] = goal[Final] /\ closed' = closed
  BY <1>1, <1>5 DEF TimerFires, Flush, FlushNow
<1>6. CASE Resume \/ Release
  BY <1>3, <1>6 DEF Resume, Release, fields, calls
<1> QED
  BY <1>2, <1>3, <1>4, <1>5, <1>6, CallsAssumption DEF Write, Calls

LEMMA WriteStep == DurableInv /\ Write => DurableInv'
<1> SUFFICES ASSUME DurableInv, Write PROVE DurableInv'
  OBVIOUS
<1>1. /\ IInv' /\ UNCHANGED <<mem, owed, log, handed, deleted, lost>>
      /\ disk <= disk' /\ disk \in Nat /\ disk' \in Nat /\ mem \in Nat
      /\ disk' <= mem
  BY WriteMoves, RevisionsAre DEF DurableInv, IInv, WholeSnapshots
<1>2. FlushesHaveSaved'
  BY <1>1, SuccessIsSaved, FinalAsksAll DEF FlushesHaveSaved
<1>3. LogIsHistory' /\ OnlyDeletionsRemove' /\ CounterIsAbove'
      /\ OneIdentityUnlessLost'
  BY <1>1 DEF DurableInv, LogIsHistory, OnlyDeletionsRemove, CounterIsAbove,
     OneIdentityUnlessLost, Saved, Mailbox
<1>4. CheckedIsInFile'
  <2> SUFFICES ASSUME NEW r \in disk'..mem, NEW m \in checked', m \notin deleted
               PROVE  m \in Saved(r)
    BY <1>1 DEF CheckedIsInFile, Saved
  <2>1. CASE m \in checked
    BY <1>1, <2>1 DEF DurableInv, CheckedIsInFile
  <2>2. CASE m \notin checked
    <3>1. PICK c \in Calls : call'[c] = "ok" /\ m \in Saved(goal'[c])
      BY <2>2 DEF Write
    <3>2. goal'[c] \in 0..mem /\ goal'[c] <= r
      <4>1. goal'[c] \in Nat /\ goal'[c] <= disk'
        BY <1>1, <3>1, SuccessIsSaved, BoundsAreNat DEF IInv, TypeOK
      <4> QED
        BY <1>1, <4>1
    <3>3. r \in 0..mem
      BY <1>1
    <3> QED
      BY <3>1, <3>2, <3>3 DEF DurableInv, OnlyDeletionsRemove
  <2> QED
    BY <2>1, <2>2
<1> QED
  BY <1>1, <1>2, <1>3, <1>4 DEF DurableInv

-----------------------------------------------------------------------------
\* The next process starts like the first one, at the revision in the file.
LEMMA WriterStartsAgain ==
  ASSUME IInv, OpenStore, failures' = failures
  PROVE  IInv'
<1>1. disk \in Nat /\ disk \in 0..MaxRevision /\ failures \in 0..MaxFailures
  BY BoundsAreNat DEF IInv, TypeOK, WholeSnapshots
<1> USE DEF OpenStore
<1>2. Numbers'
  BY <1>1 DEF Numbers
<1>3. Control'
  <2>1. /\ job' \in [Calls -> Jobs]
        /\ call' \in [Calls -> {"idle", "waiting", "writing", "ok", "failed"}]
        /\ awaiting' \in Seq(Calls) /\ resuming' \in Seq(Calls)
    BY IdleIsJob
  <2> QED
    BY <2>1 DEF Control
<1>4. OneWriter' /\ WholeSnapshots'
  BY <1>1, CallsAssumption DEF OneWriter, WholeSnapshots, Idle
<1>5. OwnerLeads' /\ UnsavedIsRemembered'
  BY <1>1, CallsAssumption DEF OwnerLeads, UnsavedIsRemembered
<1>6. QueuesAreSets' /\ CloseComesLast'
  BY CallsAssumption DEF QueuesAreSets, CloseComesLast, Busy, Calls
<1> QED
  BY <1>2, <1>3, <1>4, <1>5, <1>6, Halves, PTL DEF IInv

\* openStore() finds each revision up to that in the file as it was.
LEMMA ReadAgain ==
  ASSUME DurableInv, OpenStore
  PROVE  /\ log' \in Seq(Mailboxes) /\ Len(log') = disk + 1
         /\ \A i \in 1..(disk + 1) : log'[i] = log[i]
<1> DEFINE kept == SubSeq(log, 1, disk + 1)
<1>1. /\ log \in Seq(Mailboxes) /\ Len(log) = mem + 1
      /\ disk \in Nat /\ mem \in Nat /\ disk <= mem
  BY RevisionsAre DEF DurableInv, LogIsHistory
<1>2. /\ kept \in Seq(Mailboxes) /\ Len(kept) = disk + 1
      /\ \A i \in 1..(disk + 1) : kept[i] = log[i]
  BY <1>1, SubSeqProperties
<1>3. log' = [kept EXCEPT ![disk + 1].lastId = HighWatermark(log[disk + 1])]
  BY DEF OpenStore
<1> HIDE DEF kept
<1>4. kept[disk + 1] \in Mailboxes
  BY <1>1, <1>2
<1>5. [kept[disk + 1] EXCEPT !.lastId = kept[disk + 1].lastId] = kept[disk + 1]
  BY <1>4 DEF Mailboxes
<1>6. log' = kept
  BY <1>1, <1>2, <1>3, <1>5 DEF HighWatermark
<1> QED
  BY <1>2, <1>6

LEMMA RestartStep == DurableInv /\ Restart => DurableInv'
<1> SUFFICES ASSUME DurableInv, Restart PROVE DurableInv'
  OBVIOUS
<1>1. OpenStore /\ UNCHANGED <<failures, handed, deleted, checked>>
      /\ lost' = (lost \/ disk # mem)
  BY DEF Restart
<1>2. IInv'
  BY <1>1, WriterStartsAgain DEF DurableInv
<1>3. /\ mem' = disk /\ disk' = disk /\ owed' = disk /\ ~closed'
      /\ call' = [c \in Calls |-> "idle"]
  BY <1>1 DEF OpenStore
<1>4. disk \in Nat /\ mem \in Nat /\ disk <= mem
  BY RevisionsAre DEF DurableInv
<1>5. \A r \in 0..disk : Saved(r)' = Saved(r)
  <2> TAKE r \in 0..disk
  <2>1. log'[r + 1] = log[r + 1]
    BY <1>1, <1>4, ReadAgain
  <2> QED
    BY <2>1 DEF Saved
<1>6. LogIsHistory'
  BY <1>1, <1>3, ReadAgain DEF LogIsHistory, DurableInv
<1>7. FlushesHaveSaved'
  BY <1>3 DEF FlushesHaveSaved
<1>8. OnlyDeletionsRemove' /\ CheckedIsInFile'
  <2>1. \A q, r \in 0..disk : q <= r => Saved(q) \ deleted \subseteq Saved(r)
    BY <1>4 DEF DurableInv, OnlyDeletionsRemove
  <2>2. checked \ deleted \subseteq Saved(disk)
    BY <1>4 DEF DurableInv, CheckedIsInFile
  <2>3. OnlyDeletionsRemove'
    BY <1>1, <1>3, <1>5, <2>1 DEF OnlyDeletionsRemove
  <2>4. CheckedIsInFile'
    <3> SUFFICES ASSUME NEW r \in disk..disk
                 PROVE  checked \ deleted \subseteq Saved(r)'
      BY <1>1, <1>3 DEF CheckedIsInFile
    <3>1. r = disk /\ r \in 0..disk
      BY <1>4
    <3> QED
      BY <1>5, <2>2, <3>1
  <2> QED
    BY <2>3, <2>4
<1>9. CounterIsAbove' /\ OneIdentityUnlessLost'
  <2> SUFFICES ASSUME ~lost, disk = mem
               PROVE  /\ \A a \in handed : a[1] <= Mailbox.lastId'
                      /\ \A a, b \in handed : a[1] = b[1] => a = b
    BY <1>1 DEF CounterIsAbove, OneIdentityUnlessLost
  <2>1. Mailbox' = Mailbox
    BY <1>1, <1>3, <1>4, ReadAgain DEF Mailbox
  <2> QED
    BY <2>1 DEF DurableInv, CounterIsAbove, OneIdentityUnlessLost
<1> QED
  BY <1>2, <1>6, <1>7, <1>8, <1>9 DEF DurableInv

LEMMA DurableStep == DurableInv /\ [DurableNext]_allVars => DurableInv'
<1> SUFFICES ASSUME DurableInv, DurableNext \/ UNCHANGED allVars
             PROVE  DurableInv'
  OBVIOUS
<1>1. CASE Store
  BY <1>1, StoreStep
<1>2. ASSUME NEW rows \in SUBSET Mailbox.rows, Delete(rows) PROVE DurableInv'
  BY <1>2, DeleteStep
<1>3. CASE Write
  BY <1>3, WriteStep
<1>4. CASE ExitAndRestart \/ CrashAndRestart
  BY <1>4, RestartStep DEF ExitAndRestart, CrashAndRestart
<1>5. CASE UNCHANGED allVars
  <2>1. UNCHANGED vars /\ UNCHANGED mail
    BY <1>5 DEF allVars
  <2>2. IInv'
    BY <2>1, IInvStep DEF DurableInv
  <2>3. /\ UNCHANGED <<log, handed, deleted, checked, lost>>
        /\ UNCHANGED <<mem, disk, owed, closed, call, goal>>
    BY <2>1 DEF mail, vars, files, fields, calls, history
  <2> QED
    BY <2>2, <2>3 DEF DurableInv, LogIsHistory, FlushesHaveSaved,
       OnlyDeletionsRemove, CheckedIsInFile, CounterIsAbove,
       OneIdentityUnlessLost, Saved, Mailbox
<1> QED
  BY <1>1, <1>2, <1>3, <1>4, <1>5 DEF DurableNext

LEMMA DurableInductive == DurableSpec => []DurableInv
BY InitDurable, DurableStep, PTL DEF DurableSpec

\* CheckedMailSurvives: a message in the mailbox when IMAP CHECK was given is
\* there after every crash, once the CHECK was answered, until it is deleted.
THEOREM CheckedMailIsSafe == DurableSpec => []CheckedMailSurvives
<1>1. DurableInv => CheckedMailSurvives
  BY RevisionsAre DEF DurableInv, CheckedIsInFile, CheckedMailSurvives
<1> QED
  BY <1>1, DurableInductive, PTL

\* CleanCloseKeepsAll: when close() has flushed without an error and the data
\* directory is unlocked, the file is the mailbox as of the last transaction.
THEOREM CleanCloseIsComplete == DurableSpec => []CleanCloseKeepsAll
<1>1. DurableInv => CleanCloseKeepsAll
  <2> SUFFICES ASSUME DurableInv, released, call[Final] = "ok"
               PROVE  disk = mem
    BY DEF CleanCloseKeepsAll
  <2>1. closed /\ Final \in Calls
    BY DEF DurableInv, IInv, CloseComesLast, Calls
  <2>2. mem <= disk
    BY <2>1 DEF DurableInv, FlushesHaveSaved
  <2> QED
    BY <2>2, RevisionsAre DEF DurableInv
<1> QED
  BY <1>1, DurableInductive, PTL

\* OneIdentityUnlessLost: while no process ends with unsaved changes, an id
\* that was told to a client names one message over any number of restarts.
THEOREM IdentitiesLast == DurableSpec => []OneIdentityUnlessLost
<1>1. DurableInv => OneIdentityUnlessLost
  BY DEF DurableInv
<1> QED
  BY <1>1, DurableInductive, PTL
=============================================================================
