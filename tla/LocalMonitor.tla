---------------------------- MODULE LocalMonitor ----------------------------
(***************************************************************************)
(* The local service monitor: who listens on the machine's ports, seen by  *)
(* lsof and by health checks, and what is kept of it in the tables         *)
(* local_service_samples and local_service_events.  The background task    *)
(* and the route take the same snapshot in threads of their own and meet   *)
(* only at the write lock, in the order they get there.                    *)
(***************************************************************************)
EXTENDS Naturals, Sequences, FiniteSets

CONSTANTS
    Configured,  \* services the monitor expects, each at its port
    Stray,       \* other listeners, known by port and process
    Place,       \* the place of each in the list, which is sorted by port
    Observer,    \* threads that take snapshots
    Sampler,     \* the one of the background task
    RowsKept,   \* rows kept in each table
    MaxChanges   \* bound: changes of the machine, restarts, failures of lsof
                 \* and SQLite

ASSUME MonitorAssumption ==
    /\ Configured \cap Stray = {} /\ Sampler \in Observer
    /\ IsFiniteSet(Configured \cup Stray) /\ Place \in [Configured \cup Stray -> Nat]
    /\ \A s, t \in Configured \cup Stray : Place[s] = Place[t] => s = t
    /\ RowsKept \in Nat \ {0} /\ MaxChanges \in Nat

VARIABLES
    actual,   \* what each service is at this moment
    watch,    \* of each observer: its step, who listened, the statuses found
    samples,  \* the table local_service_samples, oldest first
    events,   \* the table local_service_events, oldest first
    changes   \* bound

monitorVars == <<actual, watch, samples, events, changes>>

Unwatched == [at |-> "idle", listening |-> {}, found |-> <<>>]

MonitorInit ==
    /\ actual \in [Configured -> {"healthy", "down"}]
    /\ watch = [o \in Observer |-> Unwatched]
    /\ samples = <<>> /\ events = <<>>
    /\ changes = 0

Counted == changes < MaxChanges /\ changes' = changes + 1

(* The machine: a service starts, fails or stops, by itself or because a
   request to /{service_id}/restart or /stop ran its command.             *)
MachineChanges ==
    /\ Counted
    /\ \E s \in Configured : \E st \in {"healthy", "degraded", "down"} \ {actual[s]} :
          actual' = [actual EXCEPT ![s] = st]
    /\ UNCHANGED <<watch, samples, events>>

----------------------------------------------------------------------------
(* _listeners(): lsof lists who listens; when it fails nobody does.  Any
   stray process may be among them.                                       *)
Listeners == {s \in Configured : actual[s] # "down"}

Look(o) ==
    /\ watch[o].at = "idle"
    /\ \/ /\ \E strays \in SUBSET Stray :
                watch' = [watch EXCEPT ![o] = [@ EXCEPT !.at = "looked",
                                               !.listening = Listeners \cup strays]]
          /\ UNCHANGED changes
       \/ /\ Counted
          /\ watch' = [watch EXCEPT ![o].at = "looked"]
    /\ UNCHANGED <<actual, samples, events>>

(* The health checks come after; a service that stopped since is degraded. *)
StatusOf(o, s) ==
    IF s \in Stray THEN "listening"
    ELSE IF s \notin watch[o].listening THEN "down"
    ELSE IF actual[s] = "healthy" THEN "healthy" ELSE "degraded"

Check(o) ==
    /\ watch[o].at = "looked"
    /\ watch' = [watch EXCEPT ![o] = [@ EXCEPT !.at = "checked",
           !.found = [s \in Configured \cup watch[o].listening |-> StatusOf(o, s)]]]
    /\ UNCHANGED <<actual, samples, events, changes>>

----------------------------------------------------------------------------
(* _record(): one transaction under the write lock *)
Has(rows, s) == \E i \in DOMAIN rows : rows[i].service = s

(* Mutant of Previous: the oldest row, ORDER BY without DESC. *)
PreviousAscending(s) ==
    IF ~Has(samples, s) THEN "none"
    ELSE samples[CHOOSE i \in DOMAIN samples :
                     /\ samples[i].service = s
                     /\ \A j \in 1..(i - 1) : samples[j].service # s].status

(* The newest row of a service, by id *)
Newest(rows, s) ==
    rows[CHOOSE i \in DOMAIN rows :
             /\ rows[i].service = s
             /\ \A j \in (i + 1)..Len(rows) : rows[j].service # s]

Previous(s) == IF Has(samples, s) THEN Newest(samples, s).status ELSE "none"

(* The listeners of a snapshot, in the order of their ports *)
Listed ==
    [S \in SUBSET (Configured \cup Stray) |->
        [i \in 1..Cardinality(S) |->
            CHOOSE s \in S : Cardinality({t \in S : Place[t] <= Place[s]}) = i]]

Kept(rows) == SubSeq(rows, IF Len(rows) > RowsKept THEN Len(rows) - RowsKept + 1 ELSE 1, Len(rows))

(* The two lists are bound by \E, which TLC evaluates once, unlike a LET. *)
Record(o) ==
    LET found == watch[o].found
    IN  /\ watch[o].at = "checked"
        /\ watch' = [watch EXCEPT ![o] = Unwatched]
        /\ \E listed  \in {Listed[DOMAIN found]},
              changed \in {Listed[{s \in DOMAIN found : Previous(s) # found[s]}]} :
              /\ samples' = Kept(samples \o [i \in DOMAIN listed |->
                     [service |-> listed[i], status |-> found[listed[i]]]])
              /\ events' = Kept(events \o [i \in DOMAIN changed |->
                     [service |-> changed[i], old |-> Previous(changed[i]),
                      new |-> found[changed[i]]]])
        /\ UNCHANGED <<actual, changes>>

(* Mutant of Raises: the loop of the task does not catch. *)
RaisesUncaught(o) ==
    /\ watch[o].at = "checked" /\ Counted
    /\ watch' = [watch EXCEPT ![o] = [Unwatched EXCEPT !.at = "ended"]]
    /\ UNCHANGED <<actual, samples, events>>

(* SQLite raises: the snapshot is lost; the task logs it, the route answers 500. *)
Raises(o) ==
    /\ watch[o].at = "checked" /\ Counted
    /\ watch' = [watch EXCEPT ![o] = Unwatched]
    /\ UNCHANGED <<actual, samples, events>>

Snapshot(o) == Look(o) \/ Check(o) \/ Record(o)

(* The process starts again: the tables stay, the snapshots under way go. *)
MonitorRestart ==
    /\ watch' = [o \in Observer |-> Unwatched]
    /\ Counted /\ UNCHANGED <<actual, samples, events>>

MonitorNext ==
    \/ MachineChanges \/ MonitorRestart
    \/ \E o \in Observer : Snapshot(o) \/ Raises(o)

----------------------------------------------------------------------------
(* Two events of a service with none of it between them *)
Follows(i, j) ==
    /\ events[i].service = events[j].service
    /\ \A k \in (i + 1)..(j - 1) : events[k].service # events[j].service

(* The events kept of a service tell its story without a gap: each begins
   where the one before it ended, or where nothing of the service was left
   after the global retention; none of them says nothing; and the last says
   what the newest sample says.  Two threads record, neither knowing of the
   other, and samples and events are cut separately (local_service_monitor.py
   136-157).                                                                *)
ChainUnbroken ==
    /\ \A j \in DOMAIN events :
          /\ events[j].old # events[j].new
          /\ \A i \in 1..(j - 1) :
                Follows(i, j) => events[j].old \in {events[i].new, "none"}
    /\ \A s \in Configured \cup Stray :
          Has(events, s) /\ Previous(s) # "none" => Newest(events, s).new = Previous(s)

(* What is kept last of an expected service is what it is. *)
UpToDate == \A s \in Configured : Previous(s) = actual[s]

=============================================================================
