----------------------------- MODULE GroupStore ------------------------------
(***************************************************************************)
(* What the shared connection gives its callers, with the lock or without: *)
(* a group commit.  What a call writes is loose at first, and whoever      *)
(* commits next carries all that is loose into the file, the rows of other *)
(* calls included, those of failed ones too.  A call is told of a success  *)
(* only when all its rows are in the file.  A crash loses what is loose.   *)
(***************************************************************************)
CONSTANTS
    Caller,
    Batch       \* Batch[c]: the rows call c writes

VARIABLES
    rows,       \* the rows in the database file
    loose,      \* the rows written since the last COMMIT
    outcome     \* what each call reported, "open" while it runs

storeVars == <<rows, loose, outcome>>

Init ==
    /\ rows = {} /\ loose = {}
    /\ outcome = [c \in Caller |-> "open"]

Report(c, o) ==
    /\ outcome[c] = "open"
    /\ outcome' = [outcome EXCEPT ![c] = o]

(* A row of a running call; a transaction of its own when nothing is loose. *)
Write(c) ==
    /\ outcome[c] = "open"
    /\ \E r \in Batch[c] :
         \/ loose' = loose \cup {r} /\ UNCHANGED rows
         \/ loose = {} /\ rows' = rows \cup {r} /\ UNCHANGED loose
    /\ UNCHANGED outcome

Commit(c) ==
    /\ Batch[c] \subseteq rows \cup loose
    /\ rows' = rows \cup loose /\ loose' = {}
    /\ Report(c, "done")

(* Nothing is rolled back: the rows of a call that fails stay loose. *)
Refuse(c) ==
    /\ Report(c, "failed")
    /\ UNCHANGED <<rows, loose>>

Crash ==
    /\ loose' = {}
    /\ outcome' = [c \in Caller |-> IF outcome[c] = "open" THEN "killed" ELSE outcome[c]]
    /\ UNCHANGED rows

Next == Crash \/ \E c \in Caller : Write(c) \/ Commit(c) \/ Refuse(c)

Spec == Init /\ [][Next]_storeVars

=============================================================================
