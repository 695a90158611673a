------------------------ MODULE SharedConnectionProofs -----------------------
(* What holds of the shared connection for every set of calls. *)
EXTENDS SharedConnection, TLAPS

(* The variables keep their types. *)
THEOREM TypeCorrect == Spec => []TypeOK
<1>1. Init => TypeOK
  <2> SUFFICES ASSUME Init PROVE TypeOK
    OBVIOUS
  <2>1. \A c \in Caller : 1 \in 1..Statements[c]
    BY CallerAssumption DEF CallerAssumption
  <2>2. 0 \in 0..MaxErrors
    BY CallerAssumption DEF CallerAssumption
  <2>3. /\ next \in [Caller -> Nat]
        /\ \A c \in Caller : next[c] \in 1..Statements[c]
    BY <2>1 DEF Init
  <2> QED
    BY <2>2, <2>3 DEF Init, TypeOK
<1>2. TypeOK /\ [Next]_vars => TypeOK'
  <2> SUFFICES ASSUME TypeOK, [Next]_vars PROVE TypeOK'
    OBVIOUS
  <2> USE CallerAssumption DEF CallerAssumption, TypeOK
  <2>1. CASE Crash
    BY <2>1 DEF Crash, Ended, Running
  <2>2. ASSUME NEW c \in Caller, Step(c) PROVE TypeOK'
    <3>1. CASE Enter(c)
      BY <3>1 DEF Enter, Goto, Running
    <3>2. CASE CheckTransaction(c)
      BY <3>2 DEF CheckTransaction, Goto, Running
    <3>3. CASE Begin(c)
      BY <3>3 DEF Begin, Goto, Leave, Running, Ended
    <3>4. CASE Execute(c)
      <4>1. <<c, next[c]>> \in Row
        BY DEF Row, Batch
      <4>2. disk' \subseteq Row /\ pending' \subseteq Row
        BY <3>4, <4>1 DEF Execute
      <4>3. pc' \in [Caller -> {"start"} \cup Running \cup Ended]
        BY <3>4 DEF Execute, Goto, Running
      <4>4. /\ next' \in [Caller -> Nat]
            /\ \A d \in Caller : next'[d] \in 1..Statements[d]
        BY <3>4 DEF Execute
      <4> QED
        BY <3>4, <4>2, <4>3, <4>4 DEF Execute
    <3>5. CASE ExecuteRaises(c)
      BY <3>5 DEF ExecuteRaises, Goto, Leave, Ended
    <3>6. CASE CheckCommit(c)
      BY <3>6 DEF CheckCommit, Goto, Leave, Running, Ended
    <3>7. CASE Commit(c)
      BY <3>7 DEF Commit, Goto, Leave, Ended
    <3> QED
      BY <2>2, <3>1, <3>2, <3>3, <3>4, <3>5, <3>6, <3>7 DEF Step
  <2>3. CASE UNCHANGED vars
    BY <2>3 DEF vars
  <2> QED
    BY <2>1, <2>2, <2>3 DEF Next
<1> QED
  BY <1>1, <1>2, PTL DEF Spec

-----------------------------------------------------------------------------

(* One statement adds its row to what the call has written. *)
LEMMA WrittenGrows ==
    ASSUME TypeOK, NEW c \in Caller, Execute(c)
    PROVE  /\ Written(c)' = Written(c) \cup {<<c, next[c]>>}
           /\ \A d \in Caller \ {c} : Written(d)' = Written(d)
<1> USE CallerAssumption DEF CallerAssumption, TypeOK, Written
<1>1. CASE next[c] < Statements[c]
  <2>1. /\ pc'[c] = "check" /\ next'[c] = next[c] + 1 /\ pc[c] = "execute"
        /\ next[c] \in Nat
    BY <1>1 DEF Execute, Goto
  <2>2. 1..(next'[c] - 1) = (1..(next[c] - 1)) \cup {next[c]}
    BY <2>1
  <2>3. Written(c)' = {<<c, k>> : k \in 1..(next'[c] - 1)}
    BY <2>1
  <2>4. Written(c) = {<<c, k>> : k \in 1..(next[c] - 1)}
    BY <2>1
  <2>5. Written(c)' = Written(c) \cup {<<c, next[c]>>}
    BY <2>2, <2>3, <2>4
  <2> QED
    BY <1>1, <2>5 DEF Execute, Goto
<1>2. CASE ~(next[c] < Statements[c])
  <2>a. Statements[c] \in Nat /\ next[c] \in 1..Statements[c]
    OBVIOUS
  <2>1. /\ pc'[c] = "precommit" /\ pc[c] = "execute"
        /\ next[c] = Statements[c] /\ next[c] \in Nat
    BY <1>2, <2>a DEF Execute, Goto
  <2>2. 1..Statements[c] = (1..(next[c] - 1)) \cup {next[c]}
    BY <2>1
  <2>3. Written(c)' = {<<c, k>> : k \in 1..Statements[c]}
    BY <2>1
  <2>4. Written(c) = {<<c, k>> : k \in 1..(next[c] - 1)}
    BY <2>1
  <2>5. Written(c)' = Written(c) \cup {<<c, next[c]>>}
    BY <2>2, <2>3, <2>4
  <2> QED
    BY <1>2, <2>5 DEF Execute, Goto
<1> QED
  BY <1>1, <1>2

(* A step that neither executes a statement nor changes "next" leaves what a
   call has written as it is, unless the call turns to its commit.          *)
LEMMA WrittenKept ==
    ASSUME TypeOK, NEW c \in Caller, next' = next,
           pc[c] \in {"precommit", "commit"} <=> pc'[c] \in {"precommit", "commit"}
    PROVE  Written(c)' = Written(c)
  BY DEF Written

(* DurableInv is preserved by every step. *)
LEMMA DurableStep ==
    ASSUME TypeOK, DurableInv, [Next]_vars PROVE DurableInv'
<1> USE CallerAssumption DEF CallerAssumption, TypeOK
<1>1. CASE Crash
  BY <1>1 DEF Crash, Ended, Running, DurableInv, Durable
<1>2. ASSUME NEW c \in Caller, Step(c) PROVE DurableInv'
  <2>0. \A d \in Caller \ {c} : pc'[d] = pc[d]
    BY <1>2 DEF Step, Enter, CheckTransaction, Begin, Execute, ExecuteRaises,
                CheckCommit, Commit, Goto, Leave
  <2>1. CASE Enter(c)
    <3>1. Written(c)' = {}
      BY <2>1 DEF Enter, Goto, Written, DurableInv
    <3>2. \A d \in Caller \ {c} : Written(d)' = Written(d)
      BY <2>0, <2>1, WrittenKept DEF Enter
    <3> QED
      BY <2>0, <2>1, <3>1, <3>2 DEF Enter, Goto, DurableInv, Durable
  <2>2. CASE CheckTransaction(c)
    <3>1. \A d \in Caller : Written(d)' = Written(d)
      BY <2>2, WrittenKept DEF CheckTransaction, Goto
    <3> QED
      BY <2>0, <2>2, <3>1 DEF CheckTransaction, Goto, DurableInv, Durable, Running
  <2>3. CASE Begin(c)
    <3>1. \A d \in Caller : Written(d)' = Written(d)
      BY <2>3, WrittenKept DEF Begin, Goto, Leave
    <3> QED
      BY <2>0, <2>3, <3>1 DEF Begin, Goto, Leave, DurableInv, Durable, Running
  <2>4. CASE Execute(c)
    <3>1. /\ Written(c)' = Written(c) \cup {<<c, next[c]>>}
          /\ \A d \in Caller \ {c} : Written(d)' = Written(d)
      BY <2>4, WrittenGrows
    <3>2. disk' \cup pending' = disk \cup pending \cup {<<c, next[c]>>}
      BY <2>4 DEF Execute
    <3>3. \A d \in Caller : pc'[d] \in Running => Written(d)' \subseteq disk' \cup pending'
      BY <2>0, <2>4, <3>1, <3>2 DEF Execute, DurableInv, Running
    <3>4. pending' # {} => open'
      BY <2>4 DEF Execute, DurableInv
    <3>5. \A d \in Caller : pc'[d] = "done" => Batch[d] \subseteq disk'
      BY <2>0, <2>4 DEF Execute, Goto, DurableInv, Durable
    <3>6. \A d \in Caller : pc'[d] = "start" => next'[d] = 1
      BY <2>0, <2>4 DEF Execute, Goto, DurableInv
    <3> QED
      BY <3>3, <3>4, <3>5, <3>6 DEF DurableInv, Durable
  <2>5. CASE ExecuteRaises(c)
    <3>1. \A d \in Caller : Written(d)' = Written(d)
      BY <2>5, WrittenKept DEF ExecuteRaises, Goto, Leave
    <3> QED
      BY <2>0, <2>5, <3>1 DEF ExecuteRaises, Goto, Leave, DurableInv, Durable, Running
  <2>6. CASE CheckCommit(c)
    <3>1. \A d \in Caller \ {c} : Written(d)' = Written(d)
      BY <2>0, <2>6, WrittenKept DEF CheckCommit
    <3>2. Written(c) = Batch[c] /\ Written(c) \subseteq disk \cup pending
      BY <2>6 DEF CheckCommit, Written, Batch, DurableInv, Running
    <3>3. CASE open
      <4>1. Written(c)' = Written(c)
        BY <2>6, <3>3, WrittenKept DEF CheckCommit, Goto
      <4> QED
        BY <2>0, <2>6, <3>1, <3>2, <3>3, <4>1
        DEF CheckCommit, Goto, DurableInv, Durable, Running
    <3>4. CASE ~open
      <4>1. pending = {} /\ pc'[c] = "done"
        BY <2>6, <3>4 DEF CheckCommit, Goto, Leave, DurableInv
      <4> QED
        BY <2>0, <2>6, <3>1, <3>2, <4>1
        DEF CheckCommit, DurableInv, Durable, Running
    <3> QED
      BY <3>3, <3>4
  <2>7. CASE Commit(c)
    <3>1. \A d \in Caller \ {c} : Written(d)' = Written(d)
      BY <2>0, <2>7, WrittenKept DEF Commit
    <3>2. Written(c) = Batch[c] /\ Written(c) \subseteq disk \cup pending
      BY <2>7 DEF Commit, Written, Batch, DurableInv, Running
    <3>3. /\ pc'[c] \in {"done", "failed"}
          /\ pc'[c] = "done" => open
          /\ next' = next /\ disk \cup pending \subseteq disk' \cup pending'
          /\ open => disk' = disk \cup pending
          /\ pending' # {} => open'
          /\ disk \subseteq disk'
      BY <2>7 DEF Commit, Goto, Leave, DurableInv
    <3>4. \A d \in Caller : pc'[d] \in Running => Written(d)' \subseteq disk' \cup pending'
      BY <2>0, <3>1, <3>3 DEF DurableInv, Running
    <3>5. \A d \in Caller : pc'[d] = "done" => Batch[d] \subseteq disk'
      BY <2>0, <3>2, <3>3 DEF DurableInv, Durable
    <3>6. \A d \in Caller : pc'[d] = "start" => next'[d] = 1
      BY <2>0, <3>3 DEF DurableInv
    <3> QED
      BY <3>3, <3>4, <3>5, <3>6 DEF DurableInv, Durable
  <2> QED
    BY <1>2, <2>1, <2>2, <2>3, <2>4, <2>5, <2>6, <2>7 DEF Step
<1>3. CASE UNCHANGED vars
  BY <1>3 DEF vars, Written, DurableInv, Durable
<1> QED
  BY <1>1, <1>2, <1>3 DEF Next

LEMMA DurableInvAlways == Spec => []DurableInv
<1>1. Init => DurableInv
  BY DEF Init, DurableInv, Durable, Running
<1>2. TypeOK /\ DurableInv /\ [Next]_vars => DurableInv'
  BY DurableStep
<1> QED
  BY <1>1, <1>2, TypeCorrect, PTL DEF Spec

(* A reported success is in the file, whichever thread's COMMIT carried it
   and whatever happens later.                                              *)
THEOREM DurableAlways == Spec => []Durable
<1>1. DurableInv => Durable
  BY DEF DurableInv
<1> QED
  BY <1>1, DurableInvAlways, PTL

-----------------------------------------------------------------------------

(* As long as no statement has raised, an open transaction has its
   committer.  *)
LEMMA CommitterStep ==
    ASSUME TypeOK, CommitterInv, [Next]_vars PROVE CommitterInv'
<1> SUFFICES ASSUME errors' = 0, open'
             PROVE  \E d \in Caller : pc'[d] \in Running \ {"begin"}
  BY DEF CommitterInv
<1> USE CallerAssumption DEF CallerAssumption, TypeOK, Running
<1>1. CASE Crash
  BY <1>1 DEF Crash
<1>2. ASSUME NEW c \in Caller, Step(c)
      PROVE  \E d \in Caller : pc'[d] \in Running \ {"begin"}
  <2>0. \A d \in Caller \ {c} : pc'[d] = pc[d]
    BY <1>2 DEF Step, Enter, CheckTransaction, Begin, Execute, ExecuteRaises,
                CheckCommit, Commit, Goto, Leave
  <2>1. errors = 0
    <3>1. errors' = errors \/ errors' = errors + 1
      BY <1>2 DEF Step, Enter, CheckTransaction, Begin, Execute,
                  ExecuteRaises, CheckCommit, Commit
    <3>2. errors \in Nat
      OBVIOUS
    <3> QED
      BY <3>1, <3>2
  <2>2. open => \E d \in Caller : pc[d] \in Running \ {"begin"}
    BY <2>1 DEF CommitterInv
  <2>3. CASE Enter(c)
    BY <2>0, <2>2, <2>3 DEF Enter, Goto
  <2>4. CASE CheckTransaction(c)
    BY <2>0, <2>2, <2>4 DEF CheckTransaction, Goto
  <2>5. CASE Begin(c)
    BY <2>0, <2>2, <2>5 DEF Begin, Goto, Leave
  <2>6. CASE Execute(c)
    BY <2>0, <2>2, <2>6 DEF Execute, Goto
  <2>7. CASE ExecuteRaises(c)
    BY <2>1, <2>7 DEF ExecuteRaises
  <2>8. CASE CheckCommit(c)
    BY <2>0, <2>2, <2>8 DEF CheckCommit, Goto, Leave
  <2>9. CASE Commit(c)
    BY <2>0, <2>2, <2>9 DEF Commit, Goto, Leave
  <2> QED
    BY <1>2, <2>3, <2>4, <2>5, <2>6, <2>7, <2>8, <2>9 DEF Step
<1>3. CASE UNCHANGED vars
  BY <1>3 DEF vars, CommitterInv
<1> QED
  BY <1>1, <1>2, <1>3 DEF Next

(* Nothing is left uncommitted once every call has ended, though BEGIN and
   COMMIT may have raised.                                                  *)
THEOREM NothingStrandedAlways == Spec => []NothingStranded
<1>1. Init => CommitterInv
  BY DEF Init, CommitterInv
<1>2. TypeOK /\ CommitterInv /\ [Next]_vars => CommitterInv'
  BY CommitterStep
<1>3. TypeOK /\ DurableInv /\ CommitterInv => NothingStranded
  BY DEF DurableInv, CommitterInv, NothingStranded, Running, Ended, TypeOK
<1> QED
  BY <1>1, <1>2, <1>3, TypeCorrect, DurableInvAlways, PTL DEF Spec

(* _write_lock is held by the one locking call inside its block. *)
THEOREM LockDisciplineAlways == Spec => []LockDiscipline
<1>1. Init => LockDiscipline
  BY CallerAssumption DEF CallerAssumption, Init, LockDiscipline, Running
<1>2. TypeOK /\ LockDiscipline /\ [Next]_vars => LockDiscipline'
  <2> SUFFICES ASSUME TypeOK, LockDiscipline, [Next]_vars
               PROVE  LockDiscipline'
    OBVIOUS
  <2> USE CallerAssumption
      DEF CallerAssumption, TypeOK, LockDiscipline, Running, Ended
  <2>1. CASE Crash
    BY <2>1 DEF Crash
  <2>2. ASSUME NEW c \in Caller, Step(c) PROVE LockDiscipline'
    <3>1. CASE Enter(c)
      BY <3>1 DEF Enter, Goto
    <3>2. CASE CheckTransaction(c)
      BY <3>2 DEF CheckTransaction, Goto
    <3>3. CASE Begin(c)
      BY <3>3 DEF Begin, Goto, Leave
    <3>4. CASE Execute(c)
      BY <3>4 DEF Execute, Goto
    <3>5. CASE ExecuteRaises(c)
      BY <3>5 DEF ExecuteRaises, Goto, Leave
    <3>6. CASE CheckCommit(c)
      BY <3>6 DEF CheckCommit, Goto, Leave
    <3>7. CASE Commit(c)
      BY <3>7 DEF Commit, Goto, Leave
    <3> QED
      BY <2>2, <3>1, <3>2, <3>3, <3>4, <3>5, <3>6, <3>7 DEF Step
  <2>3. CASE UNCHANGED vars
    BY <2>3 DEF vars
  <2> QED
    BY <2>1, <2>2, <2>3 DEF Next
<1> QED
  BY <1>1, <1>2, TypeCorrect, PTL DEF Spec

-----------------------------------------------------------------------------
(* Every step of the connection is one of the store's or none. *)
LEMMA StepSimulation ==
    ASSUME TypeOK, DurableInv, [Next]_vars
    PROVE  [Store!Next]_(Store!storeVars)
<1> USE CallerAssumption DEF CallerAssumption, TypeOK, Store!storeVars
<1>1. CASE Crash
  <2>1. Reported' = [c \in Caller |-> IF Reported[c] = "open" THEN "killed" ELSE Reported[c]]
    BY <1>1 DEF Crash, Reported, Ended, Running
  <2> QED
    BY <1>1, <2>1 DEF Crash, Store!Next, Store!Crash
<1>2. ASSUME NEW c \in Caller, Step(c) PROVE [Store!Next]_(Store!storeVars)
  <2>1. pc[c] \notin Ended /\ Reported[c] = "open"
    BY <1>2 DEF Step, Enter, CheckTransaction, Begin, Execute, ExecuteRaises,
                CheckCommit, Commit, Reported, Ended
  <2>2. ASSUME NEW l \in Running, Goto(c, l) PROVE Reported' = Reported
    BY <2>1, <2>2 DEF Goto, Reported, Running, Ended
  <2>3. ASSUME NEW l \in Ended, Goto(c, l) PROVE Store!Report(c, l)
    BY <2>1, <2>3 DEF Goto, Reported, Ended, Store!Report
  <2>4. ASSUME Leave(c, "failed"), UNCHANGED <<disk, pending>> PROVE Store!Refuse(c)
    BY <2>3, <2>4 DEF Leave, Store!Refuse, Ended
  <2>5. CASE Enter(c)
    BY <2>2, <2>5 DEF Enter, Running
  <2>6. CASE CheckTransaction(c)
    BY <2>2, <2>6 DEF CheckTransaction, Running
  <2>7. CASE Begin(c)
    BY <2>2, <2>4, <2>7 DEF Begin, Running, Store!Next
  <2>8. CASE Execute(c)
    <3>1. Reported' = Reported
      BY <2>2, <2>8 DEF Execute, Running
    <3>2. <<c, next[c]>> \in Batch[c]
      BY DEF Batch
    <3>3. \/ pending' = pending \cup {<<c, next[c]>>} /\ disk' = disk
          \/ pending = {} /\ disk' = disk \cup {<<c, next[c]>>} /\ pending' = pending
      BY <2>8 DEF Execute, DurableInv
    <3> QED
      BY <2>1, <3>1, <3>2, <3>3 DEF Store!Next, Store!Write
  <2>9. CASE ExecuteRaises(c)
    BY <2>4, <2>9 DEF ExecuteRaises, Store!Next
  <2>10. ASSUME pc[c] \in {"precommit", "commit"} PROVE Batch[c] \subseteq disk \cup pending
    BY <2>10 DEF DurableInv, Written, Batch, Running
  <2>11. CASE CheckCommit(c)
    <3>1. CASE open
      BY <2>2, <2>11, <3>1 DEF CheckCommit, Running
    <3>2. CASE ~open
      <4>1. pending = {} /\ disk' = disk \cup pending /\ pending' = {}
        BY <2>11, <3>2 DEF CheckCommit, DurableInv
      <4> QED
        BY <2>3, <2>10, <2>11, <3>2, <4>1
        DEF CheckCommit, Leave, Ended, Store!Next, Store!Commit
    <3> QED
      BY <3>1, <3>2
  <2>12. CASE Commit(c)
    <3>1. CASE open
      BY <2>3, <2>10, <2>12, <3>1 DEF Commit, Leave, Ended, Store!Next, Store!Commit
    <3>2. CASE ~open
      BY <2>4, <2>12, <3>2 DEF Commit, Store!Next
    <3> QED
      BY <3>1, <3>2
  <2> QED
    BY <1>2, <2>5, <2>6, <2>7, <2>8, <2>9, <2>11, <2>12 DEF Step
<1>3. CASE UNCHANGED vars
  BY <1>3 DEF vars, Reported
<1> QED
  BY <1>1, <1>2, <1>3 DEF Next

(* The connection is a group commit for any calls, with any numbers of
   statements, whichever of them take the lock and whichever raise.         *)
THEOREM Refinement == Spec => ImplementsStore
<1>1. Init => Store!Init
  BY DEF Init, Store!Init, Reported, Ended
<1>2. TypeOK /\ DurableInv /\ [Next]_vars => [Store!Next]_(Store!storeVars)
  BY StepSimulation
<1> QED
  BY <1>1, <1>2, TypeCorrect, DurableInvAlways, PTL
  DEF Spec, ImplementsStore, Store!Spec

=============================================================================
