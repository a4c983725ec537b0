------------------------ MODULE DataDirectory_proofs ------------------------
(***************************************************************************)
(* AtMostOneOwner, NothingUnseenOverwritten, OriginalsKept and             *)
(* LeftLocksAreExplained for any number of processes, originals, backup    *)
(* names and snapshots.                                                    *)
(*                                                                         *)
(* The argument: every running process is the creator of the lock file     *)
(* (LockHeld).  A lock is created only where there is none, and it goes    *)
(* away only by the unlink of its creator or by the operator, who knows    *)
(* that nobody runs and whom the lock itself protects from newcomers       *)
(* (OperatorIsRight).  So one process at most takes the steps of           *)
(* openStore(), and what it has read stays true (Progress).                *)
(***************************************************************************)
EXTENDS DataDirectory, TLAPS

LockHeld ==
  \A p \in Pids :
    /\ Running(p) => lock.by = p
    /\ pc[p] \notin {"ended", "locking"} => lock.pid = p

OperatorIsRight ==
  operator = "checked" => lock # NoLock /\ \A p \in Pids : ~Running(p)

\* What a process on its way through openStore() may rely on.
Progress ==
  \A p \in Pids :
    /\ pc[p] \in {"opened", "backup"} => memory[p] = file /\ file \in Originals
    /\ pc[p] = "backup" => backups[backup[p]] = Torn
    /\ pc[p] = "replace" /\ file \in Originals => \E n \in Names : backups[n] = file
    /\ pc[p] = "serving" => file = memory[p] /\ file \in Snapshots

IInv ==
  /\ TypeOK
  /\ LockHeld
  /\ OperatorIsRight
  /\ Progress
  /\ OriginalsKept
  /\ LeftLocksAreExplained

-----------------------------------------------------------------------------
LEMMA InitIInv == Init => IInv
BY NamesAssumption
DEF Init, IInv, TypeOK, LockHeld, OperatorIsRight, Progress, OriginalsKept,
    LeftLocksAreExplained, Running, NoLock, Names, Files, Snapshots

\* Two processes that run are one: what another process does to the files
\* while p runs does not happen.
LEMMA RunsAlone ==
  ASSUME IInv, NEW p \in Pids, NEW q \in Pids, Running(p), Running(q)
  PROVE  p = q
BY DEF IInv, LockHeld

LEMMA TypeStep == IInv /\ [Next]_vars => TypeOK'
<1> SUFFICES ASSUME IInv, [Next]_vars PROVE TypeOK'
  OBVIOUS
<1> USE NamesAssumption DEF IInv, TypeOK, To, NoLock, Names, Files, Snapshots
<1>1. ASSUME NEW p \in Pids, Process(p) PROVE TypeOK'
  <2>1. CASE Create(p)
    BY <2>1 DEF Create
  <2>2. CASE WritePid(p)
    BY <2>2 DEF WritePid
  <2>3. CASE WritePidFails(p)
    BY <2>3 DEF WritePidFails
  <2>4. CASE ReadFile(p)
    BY <2>4 DEF ReadFile
  <2>5. CASE CreateBackup(p)
    BY <2>5 DEF CreateBackup
  <2>6. CASE WriteBackup(p)
    BY <2>6 DEF WriteBackup
  <2>7. CASE Replace(p)
    BY <2>7 DEF Replace
  <2>8. CASE FailToOpen(p)
    BY <2>8 DEF FailToOpen
  <2>9. CASE Save(p)
    BY <2>9 DEF Save, Progress
  <2>10. CASE Close(p)
    BY <2>10 DEF Close
  <2>11. CASE ReadLock(p)
    BY <2>11 DEF ReadLock
  <2>12. CASE Unlink(p)
    BY <2>12 DEF Unlink
  <2>13. CASE Crash(p)
    BY <2>13 DEF Crash
  <2>14. CASE ReleaseFails(p)
    BY <2>14 DEF ReleaseFails
  <2> QED
    BY <1>1, <2>1, <2>2, <2>3, <2>4, <2>5, <2>6, <2>7, <2>8, <2>9, <2>10,
       <2>11, <2>12, <2>13, <2>14 DEF Process
<1>2. CASE CheckNobody
  BY <1>2 DEF CheckNobody
<1>3. CASE RemoveLock
  BY <1>3 DEF RemoveLock
<1>4. ASSUME NEW o \in Originals, PlaceOriginal(o) PROVE TypeOK'
  BY <1>4 DEF PlaceOriginal
<1>5. CASE UNCHANGED vars
  BY <1>5 DEF vars
<1> QED
  BY <1>1, <1>2, <1>3, <1>4, <1>5 DEF Next

\* The lock: who holds it, what the operator knows, who left it behind.
LEMMA LockStep ==
  IInv /\ [Next]_vars => (LockHeld /\ OperatorIsRight /\ LeftLocksAreExplained)'
<1> DEFINE Goal == (LockHeld /\ OperatorIsRight /\ LeftLocksAreExplained)'
<1> SUFFICES ASSUME IInv, [Next]_vars PROVE Goal
  OBVIOUS
<1> USE NamesAssumption DEF IInv, TypeOK, LockHeld, OperatorIsRight,
        LeftLocksAreExplained, Running, To, NoLock
<1>1. ASSUME NEW p \in Pids, Process(p) PROVE Goal
  <2>1. CASE Create(p)
    BY <2>1 DEF Create
  <2>2. CASE WritePid(p)
    BY <2>2 DEF WritePid
  <2>3. CASE WritePidFails(p)
    BY <2>3 DEF WritePidFails
  <2>4. CASE ReadFile(p)
    BY <2>4 DEF ReadFile
  <2>5. CASE CreateBackup(p)
    BY <2>5 DEF CreateBackup
  <2>6. CASE WriteBackup(p)
    BY <2>6 DEF WriteBackup
  <2>7. CASE Replace(p)
    BY <2>7 DEF Replace
  <2>8. CASE FailToOpen(p)
    BY <2>8 DEF FailToOpen
  <2>9. CASE Save(p)
    BY <2>9 DEF Save
  <2>10. CASE Close(p)
    BY <2>10 DEF Close
  <2>11. CASE ReadLock(p)
    BY <2>11 DEF ReadLock
  <2>12. CASE Unlink(p)
    BY <2>12 DEF Unlink
  <2>13. CASE Crash(p)
    BY <2>13 DEF Crash
  <2>14. CASE ReleaseFails(p)
    BY <2>14 DEF ReleaseFails
  <2> QED
    BY <1>1, <2>1, <2>2, <2>3, <2>4, <2>5, <2>6, <2>7, <2>8, <2>9, <2>10,
       <2>11, <2>12, <2>13, <2>14 DEF Process
<1>2. CASE CheckNobody
  BY <1>2 DEF CheckNobody
<1>3. CASE RemoveLock
  BY <1>3 DEF RemoveLock
<1>4. ASSUME NEW o \in Originals, PlaceOriginal(o) PROVE Goal
  BY <1>4 DEF PlaceOriginal
<1>5. CASE UNCHANGED vars
  BY <1>5 DEF vars
<1> QED
  BY <1>1, <1>2, <1>3, <1>4, <1>5 DEF Next

\* The files: a process that runs is alone, so the steps of the others cannot
\* disturb what it has read.
LEMMA FileStep == IInv /\ [Next]_vars => (Progress /\ OriginalsKept)'
<1> DEFINE Goal == (Progress /\ OriginalsKept)'
<1> SUFFICES ASSUME IInv, [Next]_vars PROVE Goal
  OBVIOUS
<1>a. \A p, q \in Pids : Running(p) /\ Running(q) => p = q
  BY RunsAlone
<1>b. TypeOK /\ Progress /\ OriginalsKept
  BY DEF IInv
<1> USE <1>a, <1>b, NamesAssumption
    DEF TypeOK, Progress, OriginalsKept, Running, To, Names, Files, Snapshots
<1>1. ASSUME NEW p \in Pids, Process(p) PROVE Goal
  <2>1. CASE Create(p)
    BY <2>1 DEF Create
  <2>2. CASE WritePid(p)
    BY <2>2 DEF WritePid
  <2>3. CASE WritePidFails(p)
    BY <2>3 DEF WritePidFails
  <2>4. CASE ReadFile(p)
    BY <2>4 DEF ReadFile
  <2>5. CASE CreateBackup(p)
    BY <2>5 DEF CreateBackup
  <2>6. CASE WriteBackup(p)
    BY <2>6 DEF WriteBackup
  <2>7. CASE Replace(p)
    BY <2>7 DEF Replace
  <2>8. CASE FailToOpen(p)
    BY <2>8 DEF FailToOpen
  <2>9. CASE Save(p)
    BY <2>9 DEF Save
  <2>10. CASE Close(p)
    BY <2>10 DEF Close
  <2>11. CASE ReadLock(p)
    BY <2>11 DEF ReadLock
  <2>12. CASE Unlink(p)
    BY <2>12 DEF Unlink
  <2>13. CASE Crash(p)
    BY <2>13 DEF Crash
  <2>14. CASE ReleaseFails(p)
    BY <2>14 DEF ReleaseFails
  <2> QED
    BY <1>1, <2>1, <2>2, <2>3, <2>4, <2>5, <2>6, <2>7, <2>8, <2>9, <2>10,
       <2>11, <2>12, <2>13, <2>14 DEF Process
<1>2. CASE CheckNobody
  BY <1>2 DEF CheckNobody
<1>3. CASE RemoveLock
  BY <1>3 DEF RemoveLock
<1>4. ASSUME NEW o \in Originals, PlaceOriginal(o) PROVE Goal
  BY <1>4 DEF PlaceOriginal
<1>5. CASE UNCHANGED vars
  BY <1>5 DEF vars
<1> QED
  BY <1>1, <1>2, <1>3, <1>4, <1>5 DEF Next

-----------------------------------------------------------------------------
LEMMA Inductive == Spec => []IInv
<1>1. IInv /\ [Next]_vars => IInv'
  BY TypeStep, LockStep, FileStep DEF IInv
<1> QED
  BY InitIInv, <1>1, PTL DEF Spec

\* No two processes have the data directory open, however many start, fail,
\* crash and are cleaned up after.
THEOREM OneOwner == Spec => []AtMostOneOwner
<1>1. IInv => AtMostOneOwner
  BY DEF IInv, LockHeld, AtMostOneOwner, Using, Running
<1> QED
  BY Inductive, <1>1, PTL

\* A serving process replaces only the file it loaded or last wrote.
THEOREM NoUnseenMailLost == Spec => []NothingUnseenOverwritten
<1>1. IInv => NothingUnseenOverwritten
  BY DEF IInv, Progress, NothingUnseenOverwritten
<1> QED
  BY Inductive, <1>1, PTL

\* An original data file is never lost to a migration, whole or interrupted.
THEOREM OriginalsSurvive == Spec => []OriginalsKept
<1>1. IInv => OriginalsKept
  BY DEF IInv
<1> QED
  BY Inductive, <1>1, PTL

\* LeftLocksAreExplained: every end of a process that neither crashed nor
\* failed at a system call on the lock file has given the lock back.
THEOREM LocksAreGivenBack == Spec => []LeftLocksAreExplained
<1>1. IInv => LeftLocksAreExplained
  BY DEF IInv
<1> QED
  BY Inductive, <1>1, PTL
=============================================================================
