--------------------------- MODULE DurableMailbox ---------------------------
(***************************************************************************)
(* The mailbox of one data directory over the lives of several processes:  *)
(* transactions of the service, the snapshots of SnapshotWriter, the end   *)
(* of the process, orderly or not, and openStore() (store.ts) reading the  *)
(* file again.  A crash is the end of the process between two steps; what  *)
(* was renamed stays renamed.  The lock a crash leaves behind is removed   *)
(* by the operator before the next start.                                  *)
(***************************************************************************)
EXTENDS SnapshotWriter, FiniteSets, FiniteSetsExt

CONSTANT MaxRestarts   \* bound: processes that end

ASSUME RestartsAssumption == MaxRestarts \in Nat

VARIABLES
  log,       \* log[r + 1]: the mailbox at revision r
  handed,    \* history: <<id, message>> pairs told to clients
  deleted,   \* history: messages deleted by someone
  checked,   \* history: messages a successful flush was asked to save
  lost,      \* history: a process ended with changes not in the file
  restarts

mail == <<log, handed, deleted, checked, lost, restarts>>
allVars == <<vars, mail>>

Mailbox == log[mem + 1]
Saved(r) == {row[2] : row \in log[r + 1].rows}

DurableInit ==
  /\ Init
  /\ log = <<[rows |-> {}, lastId |-> 0]>>
  /\ handed = {} /\ deleted = {} /\ checked = {}
  /\ lost = FALSE /\ restarts = 0

\* Runtime closes the listeners before the store, so no transaction follows.
Transact(mailbox) ==
  /\ ~closed
  /\ Commit
  /\ log' = Append(log, mailbox)
  /\ UNCHANGED <<checked, lost, restarts>>

Store ==
  LET row == <<Mailbox.lastId + 1, Cardinality(handed) + 1>>
  IN  /\ Transact([rows |-> Mailbox.rows \cup {row}, lastId |-> row[1]])
      /\ handed' = handed \cup {row}
      /\ UNCHANGED deleted

\* Deletions and clear() leave the counter alone.
Delete(rows) ==
  /\ rows # {}
  /\ Transact([Mailbox EXCEPT !.rows = @ \ rows])
  /\ deleted' = deleted \cup {row[2] : row \in rows}
  /\ UNCHANGED handed

\* A step of the writer; a flush that ends well has saved what was owed.
Write ==
  /\ \/ \E c \in Ticks : TimerFires(c)
     \/ \E c \in Checks : Flush(c)
     \/ Close
     \/ Resume
     \/ \E c \in Calls : FileStep(c) \/ RenameBusy(c) \/ WriteFails(c)
     \/ Release
  /\ UNCHANGED <<log, handed, deleted, lost, restarts>>
  /\ checked' = checked \cup
       UNION {Saved(goal'[c]) : c \in {k \in Calls : call'[k] = "ok"}}

\* Mutant: the counter is rebuilt from the rows in the file.
HighestRow(mailbox) == Max({0} \cup {row[1] : row \in mailbox.rows})

\* The counter comes from the meta table of the file.
HighWatermark(mailbox) == mailbox.lastId

\* The next process opens the file with a new writer, which has nothing to
\* save.
OpenStore ==
  /\ mem' = disk
  /\ log' = [SubSeq(log, 1, disk + 1) EXCEPT
               ![disk + 1].lastId = HighWatermark(log[disk + 1])]
  /\ disk' = disk /\ tmp' = None
  /\ timer' = FALSE /\ dirty' = FALSE /\ closed' = FALSE /\ writing' = None
  /\ job' = [c \in Calls |-> Idle]
  /\ call' = [c \in Calls |-> "idle"]
  /\ awaiting' = <<>> /\ resuming' = <<>>
  /\ released' = FALSE
  /\ owed' = disk /\ goal' = [c \in Calls |-> disk] /\ failedSince' = FALSE

Restart ==
  /\ restarts < MaxRestarts
  /\ OpenStore
  /\ restarts' = restarts + 1
  /\ lost' = (lost \/ disk # mem)
  /\ UNCHANGED <<failures, handed, deleted, checked>>

\* run-server.ts: the process exits once runtime.close() is through.
ExitAndRestart == released /\ Restart
CrashAndRestart == ~released /\ Restart

DurableNext ==
  \/ Store
  \/ \E rows \in SUBSET Mailbox.rows : Delete(rows)
  \/ Write
  \/ ExitAndRestart
  \/ CrashAndRestart

DurableSpec == DurableInit /\ [][DurableNext]_allVars

-----------------------------------------------------------------------------
(***************************************************************************)
(* Properties                                                              *)
(***************************************************************************)
\* A message that was in the mailbox when a flush was called that succeeded
\* (IMAP CHECK) survives every crash, unless someone deletes it.
CheckedMailSurvives ==
  checked \ deleted \subseteq Saved(mem)

\* A process that closed its store with a successful final flush loses
\* nothing: the file holds the last transaction.
CleanCloseKeepsAll ==
  released /\ call[Final] = "ok" => disk = mem

\* As long as no process ended with unsaved changes, an id told to a client
\* names one message for ever, over deletions, clear() and restarts.
OneIdentityUnlessLost ==
  ~lost => \A a, b \in handed : a[1] = b[1] => a = b

\* "Last email id ever allocated; ids are never reused" (db/schema.ts:14),
\* without exception.  The code breaks it: see the run that shows it.
OneIdentity ==
  \A a, b \in handed : a[1] = b[1] => a = b
=============================================================================
