---------------------------- MODULE DataDirectory ----------------------------
(***************************************************************************)
(* Who may use a persistent data directory (apps/server/src/db: the lock   *)
(* of persistence.ts and openStore() of store.ts), over several processes  *)
(* that start, fail to start, serve, close and crash.  Each system call is *)
(* a step, for other processes run between any two of them.  A pid may be  *)
(* given to a new process after the old one has ended.                     *)
(*                                                                         *)
(* The environment is an operator who follows DataDirectoryInUseError:     *)
(* "delete ... only after checking that no process uses this directory",   *)
(* and who may put a data file of an old version in place.  How one        *)
(* snapshot replaces the file is the subject of SnapshotWriter.            *)
(***************************************************************************)
EXTENDS Naturals, FiniteSets

CONSTANTS
  Pids,        \* processes that may run at the same time
  None,        \* no file, no pid
  Torn,        \* a file only partly written
  Originals,   \* data files of an old version
  Base,        \* name of the first backup, mail-debugger.sqlite.schema1.bak
  Stamped,     \* names with a timestamp
  MaxRevision  \* bound: snapshots

Names == {Base} \cup Stamped
Snapshots == 0..MaxRevision
Files == Originals \cup Snapshots

ASSUME NamesAssumption ==
  /\ None \notin Pids /\ {None, Torn} \cap Files = {} /\ None # Torn
  /\ Originals \cap Nat = {}
  /\ Base \notin Stamped
  /\ MaxRevision \in Nat

VARIABLES
  lock,      \* mail-debugger.lock: its creator and its content
  file,      \* mail-debugger.sqlite: an original or the number of a snapshot
  backups,   \* the backups: what each name holds, Torn while it is written
  pc,        \* where each process stands
  memory,    \* what the process has loaded or last saved
  backup,    \* name of the backup the process writes
  operator,  \* "idle", or "checked" that no process uses the directory
  placed,    \* history: the originals the operator has put in place
  stranded   \* history: processes that crashed, or that could not write,
             \* read or unlink their lock file

vars == <<lock, file, backups, pc, memory, backup, operator, placed, stranded>>

NoLock == [by |-> None, pid |-> None]

\* openStore() has taken the lock and not yet begun to give it back.
Using(p) == pc[p] \in {"locked", "opened", "backup", "replace", "serving"}
Running(p) == pc[p] # "ended"
To(p, place) == pc' = [pc EXCEPT ![p] = place]

-----------------------------------------------------------------------------
(***************************************************************************)
(* The lock                                                                *)
(***************************************************************************)
\* Mutant: a lock whose pid is missing or belongs to no process is taken over.
CreateOrReclaim(p) ==
  /\ pc[p] = "ended"
  /\ \/ lock = NoLock
     \/ lock.pid = None
     \/ lock.pid \in Pids \ {p} /\ ~Running(lock.pid)
  /\ lock' = [by |-> p, pid |-> None]
  /\ To(p, "locking")
  /\ stranded' = stranded \ {p}
  /\ UNCHANGED <<file, backups, memory, backup, operator, placed>>

\* open with 'wx'.  A process that finds a lock gives up, and changes nothing.
Create(p) ==
  /\ pc[p] = "ended"
  /\ lock = NoLock
  /\ lock' = [by |-> p, pid |-> None]
  /\ To(p, "locking")
  /\ stranded' = stranded \ {p}
  /\ UNCHANGED <<file, backups, memory, backup, operator, placed>>

WritePid(p) ==
  /\ pc[p] = "locking"
  /\ lock' = IF lock.by = p THEN [lock EXCEPT !.pid = p] ELSE lock
  /\ To(p, "locked")
  /\ UNCHANGED <<file, backups, memory, backup, operator, placed, stranded>>

\* A full disk: the empty lock file stays, for openStore() has no lock yet.
WritePidFails(p) ==
  /\ pc[p] = "locking"
  /\ To(p, "ended")
  /\ stranded' = stranded \cup {p}
  /\ UNCHANGED <<lock, file, backups, memory, backup, operator, placed>>

\* release() reads the pid first and unlinks only its own lock.  Both calls
\* may fail, see ReleaseFails.
ReadLock(p) ==
  /\ pc[p] = "releasing"
  /\ To(p, IF lock.pid = p THEN "unlinking" ELSE "ended")
  /\ UNCHANGED <<lock, file, backups, memory, backup, operator, placed, stranded>>

Unlink(p) ==
  /\ pc[p] = "unlinking"
  /\ lock' = NoLock
  /\ To(p, "ended")
  /\ UNCHANGED <<file, backups, memory, backup, operator, placed, stranded>>

\* readLockPid() answers undefined for a lock it cannot read, and release()
\* takes whatever unlinkSync throws for a lock that is already gone.
ReleaseFails(p) ==
  /\ pc[p] \in {"releasing", "unlinking"}
  /\ To(p, "ended")
  /\ stranded' = stranded \cup {p}
  /\ UNCHANGED <<lock, file, backups, memory, backup, operator, placed>>

-----------------------------------------------------------------------------
(***************************************************************************)
(* openStore and the open store                                            *)
(***************************************************************************)
\* readFileSync and openDatabase.
ReadFile(p) ==
  /\ pc[p] = "locked"
  /\ memory' = [memory EXCEPT ![p] = file]
  /\ To(p, CASE file = None          -> "replace"
             [] file \in Originals   -> "opened"
             [] OTHER                -> "serving")
  /\ UNCHANGED <<lock, file, backups, backup, operator, placed, stranded>>

\* Mutant: the backup is always written under the same name.
CreateBackupAtBase(p) ==
  /\ pc[p] = "opened"
  /\ backups' = [backups EXCEPT ![Base] = Torn]
  /\ backup' = [backup EXCEPT ![p] = Base]
  /\ To(p, "backup")
  /\ UNCHANGED <<lock, file, memory, operator, placed, stranded>>

\* The base name if it is free, else one with the time, opened with 'wx'.
CreateBackup(p) ==
  /\ pc[p] = "opened"
  /\ \E name \in IF backups[Base] = None THEN {Base} ELSE Stamped :
       /\ backups[name] = None
       /\ backups' = [backups EXCEPT ![name] = Torn]
       /\ backup' = [backup EXCEPT ![p] = name]
  /\ To(p, "backup")
  /\ UNCHANGED <<lock, file, memory, operator, placed, stranded>>

WriteBackup(p) ==
  /\ pc[p] = "backup"
  /\ backups' = [backups EXCEPT ![backup[p]] = memory[p]]
  /\ To(p, "replace")
  /\ UNCHANGED <<lock, file, memory, backup, operator, placed, stranded>>

\* writeFileAtomic with the migrated or the new data.
Replace(p) ==
  /\ pc[p] = "replace"
  /\ file' = 0
  /\ memory' = [memory EXCEPT ![p] = 0]
  /\ To(p, "serving")
  /\ UNCHANGED <<lock, backups, backup, operator, placed, stranded>>

\* Mutant: a start that fails does not give the lock back.
FailToOpenLocked(p) ==
  /\ pc[p] \in {"locked", "opened", "backup", "replace"}
  /\ To(p, "ended")
  /\ UNCHANGED <<lock, file, backups, memory, backup, operator, placed, stranded>>

\* Unreadable or newer data, a failed migration, a backup name that is taken,
\* a full disk: every step of openStore() under the lock may throw.
FailToOpen(p) ==
  /\ pc[p] \in {"locked", "opened", "backup", "replace"}
  /\ To(p, "releasing")
  /\ UNCHANGED <<lock, file, backups, memory, backup, operator, placed, stranded>>

\* A snapshot of SnapshotWriter.
Save(p) ==
  /\ pc[p] = "serving"
  /\ memory[p] < MaxRevision
  /\ memory' = [memory EXCEPT ![p] = @ + 1]
  /\ file' = memory'[p]
  /\ UNCHANGED <<lock, backups, pc, backup, operator, placed, stranded>>

\* store.close() after its last snapshot.
Close(p) ==
  /\ pc[p] = "serving"
  /\ To(p, "releasing")
  /\ UNCHANGED <<lock, file, backups, memory, backup, operator, placed, stranded>>

Crash(p) ==
  /\ Running(p)
  /\ To(p, "ended")
  /\ stranded' = stranded \cup {p}
  /\ UNCHANGED <<lock, file, backups, memory, backup, operator, placed>>

-----------------------------------------------------------------------------
(***************************************************************************)
(* The operator (environment)                                              *)
(***************************************************************************)
CheckNobody ==
  /\ operator = "idle"
  /\ lock # NoLock
  /\ \A p \in Pids : ~Running(p)
  /\ operator' = "checked"
  /\ UNCHANGED <<lock, file, backups, pc, memory, backup, placed, stranded>>

RemoveLock ==
  /\ operator = "checked"
  /\ operator' = "idle"
  /\ lock' = NoLock
  /\ UNCHANGED <<file, backups, pc, memory, backup, placed, stranded>>

\* A data file of mail-debugger 0.3 is put in place of a migrated one.
PlaceOriginal(o) ==
  /\ o \notin placed
  /\ file \notin Originals
  /\ \A p \in Pids : ~Running(p)
  /\ file' = o
  /\ placed' = placed \cup {o}
  /\ UNCHANGED <<lock, backups, pc, memory, backup, operator, stranded>>

-----------------------------------------------------------------------------
Init ==
  /\ lock = NoLock
  /\ file = None
  /\ backups = [n \in Names |-> None]
  /\ pc = [p \in Pids |-> "ended"]
  /\ memory = [p \in Pids |-> None]
  /\ backup = [p \in Pids |-> Base]
  /\ operator = "idle"
  /\ placed = {} /\ stranded = {}

Process(p) ==
  \/ Create(p) \/ WritePid(p) \/ WritePidFails(p)
  \/ ReadFile(p) \/ CreateBackup(p) \/ WriteBackup(p) \/ Replace(p)
  \/ FailToOpen(p) \/ Save(p) \/ Close(p)
  \/ ReadLock(p) \/ Unlink(p) \/ ReleaseFails(p)
  \/ Crash(p)

Next ==
  \/ \E p \in Pids : Process(p)
  \/ CheckNobody \/ RemoveLock
  \/ \E o \in Originals : PlaceOriginal(o)

Spec == Init /\ [][Next]_vars

-----------------------------------------------------------------------------
(***************************************************************************)
(* Properties                                                              *)
(***************************************************************************)
\* The type of every variable; the data file is never half written.
TypeOK ==
  /\ lock \in [by: Pids \cup {None}, pid: Pids \cup {None}]
  /\ file \in Files \cup {None}
  /\ backups \in [Names -> Files \cup {None, Torn}]
  /\ pc \in [Pids -> {"ended", "locking", "locked", "opened", "backup",
                      "replace", "serving", "releasing", "unlinking"}]
  /\ memory \in [Pids -> Files \cup {None}]
  /\ backup \in [Pids -> Names]
  /\ operator \in {"idle", "checked"}
  /\ placed \subseteq Originals /\ stranded \subseteq Pids

\* "two processes on the same file would overwrite each other's mail": no two
\* processes have the directory open, whoever crashed, restarted or cleaned up.
AtMostOneOwner ==
  \A p, q \in Pids : Using(p) /\ Using(q) => p = q

\* What the lock is for: the file a serving process will overwrite is the one
\* it loaded or last wrote, never mail it has not seen.
NothingUnseenOverwritten ==
  \A p \in Pids : pc[p] = "serving" => file = memory[p]

\* "a failed migration leaves the original untouched" and the backup precedes
\* the migrated data: every original ever put in place is still the file, or
\* is whole in a backup, through crashes at every step and repeated migrations.
OriginalsKept ==
  \A o \in placed : file = o \/ \E n \in Names : backups[n] = o

\* Whoever reads "the data directory is locked" without a running process can
\* tell why: its owner crashed, or a system call on the lock file itself
\* failed.  No other end leaves a lock behind: not a start that fails at any
\* step after taking it, and not a store whose last snapshot fails.
LeftLocksAreExplained ==
  lock # NoLock => Running(lock.by) \/ lock.by \in stranded
=============================================================================
