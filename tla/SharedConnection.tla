-------------------------- MODULE SharedConnection ---------------------------
(***************************************************************************)
(* db.Database: one sqlite3 connection, opened with check_same_thread =    *)
(* False, that the event-loop thread and the executor threads write        *)
(* through.  write_connection holds _write_lock while its block runs;      *)
(* get_connection, which most callers write through too, holds nothing.    *)
(* Nothing in the code ever rolls back.                                    *)
(*                                                                         *)
(* A call runs a number of INSERT, UPDATE or DELETE statements and then    *)
(* commit().  The transaction belongs to the connection, not to the call:  *)
(* the module opens one before a statement when none is open, and the      *)
(* check, the BEGIN, the statement and the COMMIT are separate steps with  *)
(* the interpreter lock released between them.                             *)
(***************************************************************************)
EXTENDS Integers, FiniteSets

CONSTANTS
    Caller,     \* the calls, each made by a thread of its own
    Locking,    \* those that use write_connection
    Statements, \* Statements[c]: how many statements call c runs
    NoCaller,   \* a value that is no call
    MaxErrors   \* bound: statements that raise (constraint, disk, busy)

ASSUME CallerAssumption ==
    /\ Locking \subseteq Caller
    /\ Statements \in [Caller -> Nat \ {0}]
    /\ NoCaller \notin Caller
    /\ MaxErrors \in Nat

Batch == [c \in Caller |-> {<<c, k>> : k \in 1..Statements[c]}]
Row   == UNION {Batch[c] : c \in Caller}

Ended   == {"done", "failed", "killed"}
Running == {"check", "begin", "execute", "precommit", "commit"}

VARIABLES
    disk,       \* rows in the database file
    pending,    \* rows written in the open transaction
    open,       \* is a transaction open on the connection?
    holder,     \* who holds _write_lock
    pc,         \* where each call is
    next,       \* the statement each call runs next
    errors      \* statements that have raised

vars == <<disk, pending, open, holder, pc, next, errors>>

Init ==
    /\ disk = {} /\ pending = {} /\ open = FALSE
    /\ holder = NoCaller
    /\ pc = [c \in Caller |-> "start"]
    /\ next = [c \in Caller |-> 1]
    /\ errors = 0

Goto(c, l) == pc' = [pc EXCEPT ![c] = l]

(* Mutant of Leave: no finally, an exception keeps the lock. *)
LeaveHolding(c, l) ==
    /\ Goto(c, l)
    /\ holder' = IF holder = c /\ l = "done" THEN NoCaller ELSE holder

(* The with block is left: the lock, if this call has it, is released. *)
Leave(c, l) ==
    /\ Goto(c, l)
    /\ holder' = IF holder = c THEN NoCaller ELSE holder

(* with db.write_connection() waits for the lock; with db.get_connection()
   does not.                                                                *)
Enter(c) ==
    /\ pc[c] = "start"
    /\ IF c \in Locking THEN holder = NoCaller /\ holder' = c
                        ELSE UNCHANGED holder
    /\ Goto(c, "check")
    /\ UNCHANGED <<disk, pending, open, next, errors>>

(* Before a statement that writes: is a transaction open already? *)
CheckTransaction(c) ==
    /\ pc[c] = "check"
    /\ Goto(c, IF open THEN "execute" ELSE "begin")
    /\ UNCHANGED <<disk, pending, open, holder, next, errors>>

(* BEGIN, an OperationalError if another thread was faster *)
Begin(c) ==
    /\ pc[c] = "begin"
    /\ IF open THEN Leave(c, "failed") /\ UNCHANGED open
       ELSE open' = TRUE /\ Goto(c, "execute") /\ UNCHANGED holder
    /\ UNCHANGED <<disk, pending, next, errors>>

(* The statement joins the open transaction; if another thread has
   committed since the check, it is a transaction of its own.               *)
Execute(c) ==
    /\ pc[c] = "execute"
    /\ IF open THEN pending' = pending \cup {<<c, next[c]>>} /\ UNCHANGED disk
       ELSE disk' = disk \cup {<<c, next[c]>>} /\ UNCHANGED pending
    /\ IF next[c] < Statements[c]
       THEN Goto(c, "check") /\ next' = [next EXCEPT ![c] = @ + 1]
       ELSE Goto(c, "precommit") /\ UNCHANGED next
    /\ UNCHANGED <<open, holder, errors>>

(* The statement raises: the block is left, the transaction stays open. *)
ExecuteRaises(c) ==
    /\ pc[c] = "execute" /\ errors < MaxErrors
    /\ errors' = errors + 1
    /\ Leave(c, "failed")
    /\ UNCHANGED <<disk, pending, open, next>>

(* Mutant of CheckCommit: the call returns without commit(). *)
CheckCommitNot(c) ==
    /\ pc[c] = "precommit"
    /\ Leave(c, "done")
    /\ UNCHANGED <<disk, pending, open, next, errors>>

(* commit() does nothing when no transaction is open *)
CheckCommit(c) ==
    /\ pc[c] = "precommit"
    /\ IF open THEN Goto(c, "commit") /\ UNCHANGED holder
       ELSE Leave(c, "done")
    /\ UNCHANGED <<disk, pending, open, next, errors>>

(* COMMIT writes out what every thread has pending; it raises if another
   thread's COMMIT came first.                                              *)
Commit(c) ==
    /\ pc[c] = "commit"
    /\ IF open
       THEN /\ disk' = disk \cup pending /\ pending' = {} /\ open' = FALSE
            /\ Leave(c, "done")
       ELSE Leave(c, "failed") /\ UNCHANGED <<disk, pending, open>>
    /\ UNCHANGED <<next, errors>>

(* The process dies: the open transaction is gone. *)
Crash ==
    /\ pending' = {} /\ open' = FALSE /\ holder' = NoCaller
    /\ pc' = [c \in Caller |-> IF pc[c] \in Ended THEN pc[c] ELSE "killed"]
    /\ UNCHANGED <<disk, next, errors>>

Step(c) ==
    \/ Enter(c) \/ CheckTransaction(c) \/ Begin(c) \/ Execute(c)
    \/ ExecuteRaises(c) \/ CheckCommit(c) \/ Commit(c)

Next == Crash \/ \E c \in Caller : Step(c)

Spec == Init /\ [][Next]_vars

(* Every call is made once and every thread is scheduled. *)
FairSpec == Spec /\ \A c \in Caller : WF_vars(Step(c))

-----------------------------------------------------------------------------
(* Properties *)

TypeOK ==
    /\ disk \subseteq Row /\ pending \subseteq Row
    /\ open \in BOOLEAN
    /\ holder \in Locking \cup {NoCaller}
    /\ pc \in [Caller -> {"start"} \cup Running \cup Ended]
    /\ next \in [Caller -> Nat]
    /\ \A c \in Caller : next[c] \in 1..Statements[c]
    /\ errors \in 0..MaxErrors

(* A call that returned from commit() without an exception has all its rows
   in the file, whichever thread's COMMIT carried them and whatever crash
   follows.                                                                 *)
Durable == \A c \in Caller : pc[c] = "done" => Batch[c] \subseteq disk

(* No row waits outside a transaction, so a COMMIT leaves nothing behind;
   and once every call has ended with no statement error, nothing is left
   uncommitted, even though BEGIN and COMMIT may have raised.               *)
NothingStranded ==
    /\ pending # {} => open
    /\ (errors = 0 /\ \A c \in Caller : pc[c] \in Ended) => pending = {}

(* _write_lock: the holder is the one locking call inside its block. *)
LockDiscipline ==
    \A c \in Locking : pc[c] \in Running <=> holder = c

(* Every call ends: an exception inside the block releases the lock. *)
CallsEnd == \A c \in Caller : <>(pc[c] \in Ended)

(* Inductive strengthenings.  Written(c): the rows whose statements a running
   call has executed; they are in the file or in the open transaction.  As
   long as no statement has raised, an open transaction has a call that will
   commit it.                                                               *)
Written(c) ==
    {<<c, k>> : k \in 1..(IF pc[c] \in {"precommit", "commit"}
                          THEN Statements[c] ELSE next[c] - 1)}

DurableInv ==
    /\ pending # {} => open
    /\ \A c \in Caller : pc[c] = "start" => next[c] = 1
    /\ \A c \in Caller : pc[c] \in Running => Written(c) \subseteq disk \cup pending
    /\ Durable

CommitterInv ==
    errors = 0 /\ open =>
        \E c \in Caller : pc[c] \in Running \ {"begin"}

ConnectionInv == DurableInv /\ CommitterInv

(* What the connection gives its callers, whichever of them take the lock:
   a call takes effect at the COMMIT that carries its last rows.            *)
Reported == [c \in Caller |-> IF pc[c] \in Ended THEN pc[c] ELSE "open"]
Store == INSTANCE GroupStore WITH
            rows <- disk, loose <- pending, outcome <- Reported
ImplementsStore == Store!Spec

=============================================================================
