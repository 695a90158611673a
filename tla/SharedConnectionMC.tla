------------------------- MODULE SharedConnectionMC --------------------------
(* Instances of SharedConnection for TLC: LocalServiceMonitor._record, two
   statements under the lock; scan and route calls, one statement without
   it.                                                                      *)
EXTENDS SharedConnection

CONSTANTS record, snapshot, scan, route

StatementCount ==
    [c \in Caller |-> IF c \in {record, snapshot} THEN 2 ELSE 1]

=============================================================================
