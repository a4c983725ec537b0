----------------------------- MODULE WriteBehind -----------------------------
(***************************************************************************)
(* What the snapshot writer promises, whatever it does to keep it: the     *)
(* file always holds one whole state of the mailbox, never an older one    *)
(* than before, and a flush that succeeds leaves every change it was asked *)
(* to save in the file.  States of the mailbox are numbered in the order   *)
(* of their commits.                                                       *)
(***************************************************************************)
EXTENDS Naturals

CONSTANT Calls   \* callers of flush(), the timer and close() included

VARIABLES
  mem,    \* revision in memory
  owed,   \* latest revision the writer was told to save
  disk,   \* revision in the file
  call,   \* "idle", "pending", "ok" or "failed"
  goal    \* the revision owed when the call was made

vars == <<mem, owed, disk, call, goal>>

Init ==
  /\ mem \in Nat
  /\ owed = mem
  /\ disk = mem
  /\ call = [c \in Calls |-> "idle"]
  /\ goal = [c \in Calls |-> mem]

\* A commit; after close() the writer takes on no further change.
Change ==
  /\ mem' = mem + 1
  /\ owed' \in {owed, mem'}
  /\ UNCHANGED <<disk, call, goal>>

Save ==
  /\ disk' \in disk..mem
  /\ UNCHANGED <<mem, owed, call, goal>>

Ask(c) ==
  /\ call[c] # "pending"
  /\ goal' = [goal EXCEPT ![c] = owed]
  /\ call' = [call EXCEPT ![c] = "pending"]
  /\ UNCHANGED <<mem, owed, disk>>

\* Nothing was left to save.
AskAndSucceed(c) ==
  /\ call[c] # "pending"
  /\ disk >= owed
  /\ goal' = [goal EXCEPT ![c] = owed]
  /\ call' = [call EXCEPT ![c] = "ok"]
  /\ UNCHANGED <<mem, owed, disk>>

Succeed(c) ==
  /\ call[c] = "pending"
  /\ disk >= goal[c]
  /\ call' = [call EXCEPT ![c] = "ok"]
  /\ UNCHANGED <<mem, owed, disk, goal>>

Fail(c) ==
  /\ call[c] = "pending"
  /\ call' = [call EXCEPT ![c] = "failed"]
  /\ UNCHANGED <<mem, owed, disk, goal>>

Next ==
  \/ Change
  \/ Save
  \/ \E c \in Calls : Ask(c) \/ AskAndSucceed(c) \/ Succeed(c) \/ Fail(c)

Spec == Init /\ [][Next]_vars
=============================================================================
