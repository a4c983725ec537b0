--------------------------- MODULE SnapshotWriter ---------------------------
(***************************************************************************)
(* Persistence of an open store (apps/server/src/db/persistence.ts and     *)
(* persistentStore in store.ts): the debounced SnapshotWriter, the atomic  *)
(* file replacement below it and the end of the store.                     *)
(*                                                                         *)
(* Callers of flush() are the timer, IMAP CHECK and close().  A step ends  *)
(* at an await.  The continuations of a settled write run one after the    *)
(* other in the order of their awaits (resuming).  Node takes up no timer, *)
(* request or finished I/O before they are done, and what a continuation   *)
(* goes on to do is queued behind them.                                    *)
(***************************************************************************)
EXTENDS Naturals, Sequences

CONSTANTS
  Checks,        \* callers of MailService.flush
  Ticks,         \* flushes the timer may have running at once
  Final,         \* the flush of close()
  None, Torn,    \* no file or no owner, and a partly written file
  MaxRevision,   \* bound: commits
  MaxFailures,   \* bound: writes that fail
  MaxRetries     \* retries of a rename that finds the file in use (5)

Calls == Checks \cup Ticks \cup {Final}

ASSUME CallsAssumption ==
  /\ Final \notin Checks \cup Ticks
  /\ Checks \cap Ticks = {}
  /\ None \notin Calls

ASSUME BoundsAssumption ==
  /\ {MaxRevision, MaxFailures, MaxRetries} \subseteq Nat
  /\ None \notin Nat /\ Torn \notin Nat /\ None # Torn

VARIABLES
  mem,        \* revision of the database in memory
  disk,       \* revision in mail-debugger.sqlite
  tmp,        \* the temporary file
  timer, dirty, closed, writing,   \* fields of SnapshotWriter
  job,        \* the writeFileAtomic of each call
  call,       \* where each call of flush() stands
  awaiting,   \* calls awaiting the current write, in order
  resuming,   \* calls whose awaited write has settled, in order
  released,   \* database closed and data directory unlocked
  owed, goal, \* history: revision scheduled, and what a call must save
  failures,   \* history: writes that failed
  failedSince \* history: one of them after the last scheduled change

files == <<mem, disk, tmp>>
fields == <<timer, dirty, closed, writing>>
calls == <<job, call, awaiting, resuming, goal>>
history == <<owed, failures, failedSince>>
vars == <<files, fields, calls, released, history>>

Idle == [step |-> "none", data |-> None, attempt |-> 0]
Active == {"opening", "writing", "renaming", "removing"}
Jobs == [step: Active \cup {"none", "done", "failed"},
         data: Nat \cup {None}, attempt: 0..MaxRetries]
InFlight == {c \in Calls : job[c].step \in Active}
Busy(c) == call[c] \in {"waiting", "writing"}

-----------------------------------------------------------------------------
(***************************************************************************)
(* SnapshotWriter                                                          *)
(***************************************************************************)
\* Mutant: a change during a write is left for that write to notice.
ScheduleUnlessWriting ==
  IF closed THEN UNCHANGED <<timer, dirty, owed, failedSince>>
  ELSE /\ dirty' = TRUE
       /\ timer' = (timer \/ writing = None)
       /\ owed' = mem'
       /\ failedSince' = FALSE

Schedule ==
  IF closed THEN UNCHANGED <<timer, dirty, owed, failedSince>>
  ELSE dirty' = TRUE /\ timer' = TRUE /\ owed' = mem' /\ failedSince' = FALSE

\* A transaction of the service and its store.changed().
Commit ==
  /\ mem < MaxRevision
  /\ ~released
  /\ resuming = <<>>
  /\ mem' = mem + 1
  /\ Schedule
  /\ UNCHANGED <<disk, tmp, closed, writing, calls, released, failures>>

\* write(): the export is taken before anything is awaited.
StartWrite(c, woken) ==
  /\ dirty' = FALSE
  /\ writing' = c
  /\ call' = [call EXCEPT ![c] = "writing"]
  /\ job' = [job EXCEPT ![c] =
               [step |-> "opening", data |-> mem, attempt |-> 0]]
  /\ awaiting' = Append(awaiting, c)
  /\ resuming' = woken

AwaitWrite(c, woken) ==
  /\ call' = [call EXCEPT ![c] = "waiting"]
  /\ awaiting' = Append(awaiting, c)
  /\ resuming' = woken
  /\ UNCHANGED <<dirty, writing, job>>

Return(c, result, woken) ==
  /\ call' = [call EXCEPT ![c] = result]
  /\ resuming' = woken
  /\ UNCHANGED <<dirty, awaiting>>

\* Mutant: flush() does not wait for the write of another.
EnterWithoutWaiting(c, woken) ==
  \/ ~dirty /\ Return(c, "ok", woken) /\ UNCHANGED <<writing, job>>
  \/ dirty /\ StartWrite(c, woken)

\* The loop of flush() up to its next await or its end; woken are the
\* continuations still to run.
Enter(c, woken) ==
  \/ writing # None /\ AwaitWrite(c, woken)
  \/ /\ writing = None /\ ~dirty
     /\ Return(c, "ok", woken)
     /\ UNCHANGED <<writing, job>>
  \/ writing = None /\ dirty /\ StartWrite(c, woken)

FlushNow(c) ==
  /\ ~Busy(c)
  /\ resuming = <<>>
  /\ timer' = FALSE
  /\ goal' = [goal EXCEPT ![c] = owed]
  /\ Enter(c, <<>>)
  /\ UNCHANGED <<files, released, history>>

TimerFires(c) ==
  /\ timer
  /\ FlushNow(c)
  /\ UNCHANGED closed

\* IMAP is closed before the store is, so no CHECK follows close().
Flush(c) ==
  /\ ~closed
  /\ FlushNow(c)
  /\ UNCHANGED closed

Close ==
  /\ ~closed
  /\ closed' = TRUE
  /\ FlushNow(Final)

\* Mutant: writing is cleared after the await, not in a finally clause.
ResumeOwnerUnlessFailed(c, woken) ==
  /\ call[c] = "writing"
  /\ writing' = IF job[c].step = "done" THEN None ELSE c
  /\ job' = [job EXCEPT ![c] = Idle]
  /\ Return(c, IF job[c].step = "done" THEN "ok" ELSE "failed", woken)

\* The owner's finally clause; its result is that of the write.
ResumeOwner(c, woken) ==
  /\ call[c] = "writing"
  /\ writing' = None
  /\ job' = [job EXCEPT ![c] = Idle]
  /\ Return(c, IF job[c].step = "done" THEN "ok" ELSE "failed", woken)

\* Mutant: a waiter takes the write it awaited for its own.
ResumeSatisfied(c, woken) ==
  /\ call[c] = "waiting"
  /\ Return(c, "ok", woken)
  /\ UNCHANGED <<writing, job>>

\* A failure of the awaited write is its owner's to report.
ResumeWaiter(c, woken) == call[c] = "waiting" /\ Enter(c, woken)

Resume ==
  /\ resuming # <<>>
  /\ \/ ResumeOwner(Head(resuming), Tail(resuming))
     \/ ResumeWaiter(Head(resuming), Tail(resuming))
  /\ UNCHANGED <<files, timer, closed, goal, released, history>>

-----------------------------------------------------------------------------
(***************************************************************************)
(* writeFileAtomic: each action is one awaited operation                   *)
(***************************************************************************)
At(c, step) == job[c].step = step /\ resuming = <<>>

Step(c, step) == job' = [job EXCEPT ![c].step = step]

\* The promise settles and the continuations of its awaits are queued.
SettleWrite(c, step) ==
  /\ Step(c, step)
  /\ resuming' = awaiting
  /\ awaiting' = <<>>

\* open(temporary, 'w') truncates.
OpenTemporary(c) ==
  /\ At(c, "opening")
  /\ tmp' = Torn
  /\ Step(c, "writing")
  /\ UNCHANGED <<mem, disk, fields, call, awaiting, resuming, goal, released,
                 history>>

\* writeFile, sync and close of the temporary file.
WriteTemporary(c) ==
  /\ At(c, "writing")
  /\ tmp' = job[c].data
  /\ Step(c, "renaming")
  /\ UNCHANGED <<mem, disk, fields, call, awaiting, resuming, goal, released,
                 history>>

Rename(c) ==
  /\ At(c, "renaming")
  /\ tmp # None
  /\ disk' = tmp
  /\ tmp' = None
  /\ SettleWrite(c, "done")
  /\ UNCHANGED <<mem, fields, call, goal, released, history>>

\* EPERM or EBUSY: try again after a pause.
RenameBusy(c) ==
  /\ At(c, "renaming")
  /\ job[c].attempt < MaxRetries
  /\ job' = [job EXCEPT ![c].attempt = @ + 1]
  /\ UNCHANGED <<files, fields, call, awaiting, resuming, goal, released,
                 history>>

\* Any other error, or one busy rename too many.
WriteFails(c) ==
  /\ \E step \in Active \ {"removing"} : At(c, step)
  /\ failures < MaxFailures
  /\ failures' = failures + 1
  /\ failedSince' = TRUE
  /\ Step(c, "removing")
  /\ UNCHANGED <<files, fields, call, awaiting, resuming, goal, released, owed>>

\* Mutant: the failed write leaves the writer clean.
RemoveAndForget(c) ==
  /\ At(c, "removing")
  /\ tmp' \in {None, tmp}
  /\ SettleWrite(c, "failed")
  /\ UNCHANGED <<mem, disk, fields, call, goal, released, history>>

\* rm(temporary), which may fail too; either way write() is dirty again.
RemoveTemporary(c) ==
  /\ At(c, "removing")
  /\ tmp' \in {None, tmp}
  /\ dirty' = TRUE
  /\ SettleWrite(c, "failed")
  /\ UNCHANGED <<mem, disk, timer, closed, writing, call, goal, released,
                 history>>

\* Mutant: the lock goes with close(), not after the final write.
ReleaseAtClose ==
  /\ closed /\ ~released /\ resuming = <<>>
  /\ released' = TRUE
  /\ UNCHANGED <<files, fields, calls, history>>

\* store.close() after its flush, failed or not: db.close, lock.release.
Release ==
  /\ call[Final] \in {"ok", "failed"}
  /\ resuming = <<>>
  /\ ~released
  /\ released' = TRUE
  /\ UNCHANGED <<files, fields, calls, history>>

-----------------------------------------------------------------------------
Init ==
  /\ mem = 0 /\ disk = 0 /\ tmp = None
  /\ timer = FALSE /\ dirty = FALSE /\ closed = FALSE /\ writing = None
  /\ job = [c \in Calls |-> Idle]
  /\ call = [c \in Calls |-> "idle"]
  /\ awaiting = <<>> /\ resuming = <<>>
  /\ released = FALSE
  /\ owed = 0 /\ goal = [c \in Calls |-> 0]
  /\ failures = 0 /\ failedSince = FALSE

FileStep(c) ==
  OpenTemporary(c) \/ WriteTemporary(c) \/ Rename(c) \/ RemoveTemporary(c)

Next ==
  \/ Commit
  \/ \E c \in Ticks : TimerFires(c)
  \/ \E c \in Checks : Flush(c)
  \/ Close
  \/ Resume
  \/ \E c \in Calls : FileStep(c) \/ RenameBusy(c) \/ WriteFails(c)
  \/ Release

\* Timers fire, I/O ends and continuations run.  Nobody has to commit, to
\* flush or to close, and nothing has to fail.
Fairness ==
  /\ WF_vars(\E c \in Ticks : TimerFires(c))
  /\ WF_vars(Resume)
  /\ \A c \in Calls : WF_vars(FileStep(c))

Spec == Init /\ [][Next]_vars
FairSpec == Spec /\ Fairness

-----------------------------------------------------------------------------
(***************************************************************************)
(* Properties                                                              *)
(***************************************************************************)
\* The type of every variable; a rename is retried MaxRetries times at most.
TypeOK ==
  /\ mem \in 0..MaxRevision /\ owed \in 0..mem
  /\ disk \in Nat \cup {Torn} /\ tmp \in Nat \cup {None, Torn}
  /\ {timer, dirty, closed, released, failedSince} \subseteq BOOLEAN
  /\ writing \in Calls \cup {None}
  /\ job \in [Calls -> Jobs]
  /\ call \in [Calls -> {"idle", "waiting", "writing", "ok", "failed"}]
  /\ awaiting \in Seq(Calls) /\ resuming \in Seq(Calls)
  /\ goal \in [Calls -> 0..MaxRevision]
  /\ failures \in 0..MaxFailures

\* "Snapshots ... never overlap": all writes share one temporary file, so a
\* second writer could have a half-written file renamed over the mailbox.
SnapshotsNeverOverlap ==
  \A b, c \in InFlight : b = c

\* A scheduled change is in the file, in a snapshot being written, or
\* remembered as dirty: no failure and no coalescing loses track of it.
UnsavedIsRemembered ==
  \/ disk >= owed
  \/ dirty
  \/ \E c \in InFlight : job[c].data >= owed

\* Once the data directory is unlocked this process never touches its files
\* again: no write in flight, flush in the queue or timer outlives close().
LockCoversWrites == [][released => UNCHANGED <<disk, tmp>>]_vars

\* The promise of WriteBehind: whole and never older snapshots, and a flush
\* that succeeds has saved what was scheduled when it was called.
Promise == INSTANCE WriteBehind WITH
  call <- [c \in Calls |-> IF Busy(c) THEN "pending" ELSE call[c]]
KeepsPromise == Promise!Spec

\* Every flush returns, failing disk or not: IMAP CHECK answers and the
\* shutdown goes on.
FlushReturns == \A c \in Calls : Busy(c) ~> ~Busy(c)

\* A scheduled change reaches the file, with the next snapshot or the one
\* after it, unless a write fails meanwhile: then "the next change retries".
ChangesLand ==
  \A r \in 1..MaxRevision :
    owed = r /\ ~failedSince ~> disk >= r \/ failedSince
=============================================================================
