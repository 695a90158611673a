---------------------------- MODULE DeviceScanner ----------------------------
(***************************************************************************)
(* The device inventory: NetworkDeviceService.scan_and_update              *)
(* (src/backend/services/device_scanner.py) over the tables                *)
(* network_devices, device_events and device_alerts, together with the two *)
(* routes of main.py and the part of DecoService that change the same rows.*)
(*                                                                         *)
(* One step is one SQL statement with its commit (what a commit makes      *)
(* durable when two threads share the connection is SharedConnection's     *)
(* subject) or one call that asks a source.  A scan runs in an executor    *)
(* thread when the poller starts it and on the event-loop thread when      *)
(* POST /api/devices/scan-now does, and scans of the two kinds overlap.    *)
(* IP addresses, vendors and timestamps are left out: no step here depends *)
(* on them.                                                                *)
(***************************************************************************)
EXTENDS Integers, FiniteSets

CONSTANTS
    Mac,            \* MAC addresses, hence devices: device_id = uuid5(MAC)
    Node,           \* the Deco nodes, which no client list names
    Gateway,        \* the MAC address the Chester router reports as its own
    Hostnamed,      \* devices for which ARP or DHCP reports a host name
    DecoNamed,      \* devices to which the Deco gives a usable name
    Scanners,       \* callers of scan_and_update: the poller, the manual route
    LoopScanners,   \* those that run it on the event-loop thread
    MaxScans,       \* bound: scans started in a behaviour
    MaxMishaps      \* bound: crashes and raised database or source errors

ASSUME ConstantsAssumption ==
    /\ Node \subseteq Mac /\ Gateway \in Mac
    /\ LoopScanners \subseteq Scanners
    /\ MaxScans \in Nat /\ MaxMishaps \in Nat

(* A scan has two callers, and there are 2^48 MAC addresses. *)
ASSUME FinitenessAssumption == IsFiniteSet(Scanners) /\ IsFiniteSet(Mac)

None == "none"
RowStatus == {"absent", "online", "offline"}
Phases    == {"merged", "clients", "nodes", "chester", "sweep", "revive"}
Kinds     == {"new_device", "disconnected", "connected"}
Alerting  == {"new_device", "disconnected"}

VARIABLES
    status,     \* the row of each MAC in network_devices, or "absent"
    name,       \* whose friendly_name the row carries: "none", "user", "source"
    events,     \* rows of device_events: [id, mac, kind]
    alerts,     \* rows of device_alerts: [event, mac, kind]
    nodeCache,  \* NetworkDeviceService._deco_node_macs_cache
    scan,       \* the scan_and_update call of each scanner
    issued,     \* event ids handed out (uuid4 in the code)
    started,    \* scans started so far
    mishaps,    \* crashes and errors so far
    owed,       \* history: the branch that inserted the row owes it an event
    gone,       \* history: online -> offline changes of the row
    synced      \* history: nodes that DecoService, no scan, last set online

db   == <<status, name, events, alerts>>
hist == <<owed, gone, synced>>
vars == <<status, name, events, alerts, nodeCache, scan, issued, started,
          mishaps, owed, gone, synced>>

(* The local variables of a call.  "heard" is history: some source reported
   a device.  "seen" is online_macs; it and "outcome" outlive the call.     *)
Idle(seen, outcome) ==
    [pc |-> "idle", phase |-> "merged", todo |-> {}, cur |-> Gateway,
     existed |-> FALSE, named |-> FALSE, rowed |-> FALSE, ev |-> 0,
     heard |-> FALSE, seen |-> seen, outcome |-> outcome]

ScanState ==
    [pc : {"idle", "collect", "next", "select", "write", "reread", "name",
           "event", "alert"},
     phase : Phases, todo : SUBSET Mac, cur : Mac, existed : BOOLEAN,
     named : BOOLEAN, rowed : BOOLEAN, ev : Nat, heard : BOOLEAN,
     seen : SUBSET Mac, outcome : {"none", "complete", "skipped", "failed"}]

Init ==
    /\ status = [m \in Mac |-> "absent"]
    /\ name   = [m \in Mac |-> None]
    /\ events = {} /\ alerts = {}
    /\ nodeCache \in SUBSET Node          \* pre-loaded by set_deco_client
    /\ scan = [s \in Scanners |-> Idle({}, "none")]
    /\ issued = 0 /\ started = 0 /\ mishaps = 0
    /\ owed   = [m \in Mac |-> FALSE]
    /\ gone   = [m \in Mac |-> 0]
    /\ synced = {}

-----------------------------------------------------------------------------
(* Helpers *)

Present(m)  == status[m] # "absent"
Rows(st)    == {m \in Mac : status[m] = st}
Call(s)     == scan[s]
To(s, rec)  == scan' = [scan EXCEPT ![s] = rec]
At(s, l)    == scan[s].pc = l
In(s, ph)   == scan[s].phase = ph
LoopFree    == \A s \in LoopScanners : scan[s].pc = "idle"

(* An exception: the try blocks of the Deco clients, the Deco nodes and the
   Chester swallow it and the scan goes on with the next source; anywhere
   else it ends the scan with an 'error' entry in the result.               *)
Raise(s) ==
    IF In(s, "clients") \/ In(s, "nodes") \/ (In(s, "chester") /\ ~At(s, "next"))
    THEN To(s, [Call(s) EXCEPT !.pc = "next", !.todo = {}])
    ELSE To(s, Idle(scan[s].seen, "failed"))

(* The end of one iteration: the loops over what the sources reported add
   the device to online_macs, the two loops over the rows do not.           *)
Resume(s) ==
    To(s, [Call(s) EXCEPT
             !.pc = "next",
             !.todo = @ \ {scan[s].cur},
             !.seen = IF scan[s].phase \in {"sweep", "revive"} THEN @
                      ELSE @ \cup {scan[s].cur}])

-----------------------------------------------------------------------------
(* Starting, and the first sources *)

StartScan(s) ==
    /\ LoopFree /\ At(s, "idle") /\ started < MaxScans
    /\ started' = started + 1
    /\ To(s, [Idle({}, "none") EXCEPT !.pc = "collect"])
    /\ UNCHANGED <<db, nodeCache, issued, mishaps, hist>>

(* arp_scanner, dhcp_parser, the merge and the Chester snapshot *)
Collect(s) ==
    /\ At(s, "collect")
    /\ \E merged \in SUBSET Mac :
         To(s, [Call(s) EXCEPT !.pc = "next", !.todo = merged,
                               !.heard = merged # {}])
    /\ UNCHANGED <<db, nodeCache, issued, started, mishaps, hist>>

-----------------------------------------------------------------------------
(* One reported device: look it up, write the row, name it, announce it *)

(* get_device_by_mac; a client already in online_macs only has its name
   looked at, and so has a Deco node.                                       *)
Lookup(s) ==
    /\ At(s, "next") /\ scan[s].phase \in {"merged", "clients", "nodes"}
    /\ \E m \in scan[s].todo :
         To(s, [Call(s) EXCEPT
                  !.cur = m, !.existed = Present(m),
                  !.named = Present(m) /\ name[m] # None,
                  !.pc = IF m \in scan[s].seen \/ In(s, "nodes")
                         THEN "name" ELSE "select"])
    /\ UNCHANGED <<db, nodeCache, issued, started, mishaps, hist>>

(* create_or_update: SELECT ... WHERE device_id = ? *)
SelectRow(s) ==
    /\ At(s, "select")
    /\ To(s, [Call(s) EXCEPT !.pc = "write", !.rowed = Present(scan[s].cur)])
    /\ UNCHANGED <<db, nodeCache, issued, started, mishaps, hist>>

(* create_or_update: UPDATE ... SET status = 'online' WHERE device_id = ?,
   which changes nothing when the row is gone by now.                       *)
UpdateRow(s) ==
    /\ At(s, "write") /\ scan[s].rowed
    /\ status' = [status EXCEPT ![scan[s].cur] =
                    IF @ = "absent" THEN @ ELSE "online"]
    /\ synced' = synced \ {scan[s].cur}
    /\ To(s, [Call(s) EXCEPT !.pc = "reread"])
    /\ UNCHANGED <<name, events, alerts, nodeCache, issued, started, mishaps,
                   owed, gone>>

(* create_or_update: INSERT, an IntegrityError when another scan has
   inserted the row since the SELECT.                                       *)
InsertRow(s) ==
    LET m == scan[s].cur IN
    /\ At(s, "write") /\ ~scan[s].rowed
    /\ IF Present(m)
       THEN Raise(s) /\ UNCHANGED <<status, name, hist>>
       ELSE /\ status' = [status EXCEPT ![m] = "online"]
            /\ name'   = [name EXCEPT ![m] = None]
            /\ owed'   = [owed EXCEPT ![m] = In(s, "merged") /\ ~scan[s].existed]
            /\ gone'   = [gone EXCEPT ![m] = 0]
            /\ synced' = synced \ {m}
            /\ To(s, [Call(s) EXCEPT !.pc = "reread"])
    /\ UNCHANGED <<events, alerts, nodeCache, issued, started, mishaps>>

(* create_or_update returns get_by_id, which is None for a row deleted in
   the meantime; the branches for a new device then subscript None.  The
   branch for a new Deco client does so only if there is a name or a vendor
   to write.                                                                *)
RereadRow(s) ==
    /\ At(s, "reread")
    /\ \/ /\ ~scan[s].existed /\ ~Present(scan[s].cur)
          /\ Raise(s)
       \/ /\ scan[s].existed \/ Present(scan[s].cur) \/ In(s, "clients")
          /\ IF In(s, "chester") THEN Resume(s)
             ELSE To(s, [Call(s) EXCEPT !.pc = "name"])
    /\ UNCHANGED <<db, nodeCache, issued, started, mishaps, hist>>

(* Does this iteration write a friendly_name?  A host name of the merged
   table is compared with the column hostname, which no scan writes.        *)
WritesName(s) ==
    LET m == scan[s].cur IN
    CASE In(s, "merged")  -> m \in Hostnamed
      [] In(s, "clients") -> /\ m \in DecoNamed
                             /\ IF scan[s].existed THEN ~scan[s].named
                                ELSE m \notin scan[s].seen
      [] OTHER            -> m \in DecoNamed /\ scan[s].existed
                             /\ ~scan[s].named

(* update_device_metadata(friendly_name = ...), then either the new_device
   event or the next device.                                                *)
NameRow(s) ==
    LET m == scan[s].cur IN
    /\ At(s, "name")
    /\ name' = IF WritesName(s) /\ Present(m)
               THEN [name EXCEPT ![m] = "source"] ELSE name
    /\ IF In(s, "merged") /\ ~scan[s].existed
       THEN To(s, [Call(s) EXCEPT !.pc = "event"])
       ELSE Resume(s)
    /\ UNCHANGED <<status, events, alerts, nodeCache, issued, started,
                   mishaps, hist>>

(* Mutant of EventKind: a discovery is logged as a return. *)
EventKindReturn(s) == IF In(s, "sweep") THEN "disconnected" ELSE "connected"

EventKind(s) ==
    CASE In(s, "merged") -> "new_device"
      [] In(s, "sweep")  -> "disconnected"
      [] OTHER           -> "connected"

(* Mutant of WantsAlert: discoveries only. *)
WantsAlertNew(s) == EventKind(s) = "new_device"

WantsAlert(s) == EventKind(s) \in Alerting

(* _record_device_event: record_event, refused by the foreign key when the
   row is gone (the exception is swallowed), then the alert if the type of
   the event calls for one.                                                 *)
RecordEvent(s) ==
    LET m == scan[s].cur IN
    /\ At(s, "event")
    /\ IF Present(m)
       THEN /\ issued' = issued + 1
            /\ events' = events \cup
                 {[id |-> issued + 1, mac |-> m, kind |-> EventKind(s)]}
            /\ IF WantsAlert(s)
               THEN To(s, [Call(s) EXCEPT !.pc = "alert", !.ev = issued + 1])
               ELSE Resume(s)
       ELSE Resume(s) /\ UNCHANGED <<issued, events>>
    /\ UNCHANGED <<status, name, alerts, nodeCache, started, mishaps, hist>>

(* _record_device_event: create_alert, with its two foreign keys *)
CreateAlert(s) ==
    LET m == scan[s].cur IN
    /\ At(s, "alert")
    /\ alerts' = IF Present(m) /\ \E e \in events : e.id = scan[s].ev
                 THEN alerts \cup {[event |-> scan[s].ev, mac |-> m,
                                    kind |-> EventKind(s)]}
                 ELSE alerts
    /\ Resume(s)
    /\ UNCHANGED <<status, name, events, nodeCache, issued, started, mishaps,
                   hist>>

-----------------------------------------------------------------------------
(* The other sources *)

Exhausted(s, ph) == At(s, "next") /\ In(s, ph) /\ scan[s].todo = {}

(* get_client_list_local: no client when there is no Deco or it fails *)
AskClients(s) ==
    /\ Exhausted(s, "merged")
    /\ \E found \in SUBSET Mac :
         To(s, [Call(s) EXCEPT !.phase = "clients", !.todo = found,
                               !.heard = @ \/ found # {}])
    /\ UNCHANGED <<db, nodeCache, issued, started, mishaps, hist>>

(* get_topology_local: the nodes it names replace the cache; if it names
   none the cache stands in for them; if it raises, neither is used.        *)
AskNodes(s) ==
    /\ Exhausted(s, "clients")
    /\ \/ \E fresh \in SUBSET Node :
            LET used == IF fresh # {} THEN fresh ELSE nodeCache IN
            /\ nodeCache' = used
            /\ To(s, [Call(s) EXCEPT !.phase = "nodes", !.todo = fresh,
                                     !.seen = @ \cup used,
                                     !.heard = @ \/ fresh # {}])
       \/ /\ To(s, [Call(s) EXCEPT !.phase = "nodes"])
          /\ UNCHANGED nodeCache
    /\ UNCHANGED <<db, issued, started, mishaps, hist>>

(* get_router_status: a router that answers is online, and is written *)
AskChester(s) ==
    /\ Exhausted(s, "nodes")
    /\ \/ To(s, [Call(s) EXCEPT !.phase = "chester", !.pc = "select",
                                !.cur = Gateway, !.existed = TRUE,
                                !.seen = @ \cup {Gateway}, !.heard = TRUE])
       \/ To(s, [Call(s) EXCEPT !.phase = "chester"])
    /\ UNCHANGED <<db, nodeCache, issued, started, mishaps, hist>>

-----------------------------------------------------------------------------
(* Transitions *)

(* Mutants of ListOnline: no device of the gateway is swept; every row is, the
   offline ones too.                                                        *)
ListOnlineSparing(s) ==
    /\ Exhausted(s, "chester")
    /\ IF scan[s].seen = {}
       THEN To(s, Idle({}, "skipped"))
       ELSE To(s, [Call(s) EXCEPT !.phase = "sweep",
                     !.todo = Rows("online") \ (scan[s].seen \cup {Gateway})])
    /\ UNCHANGED <<db, nodeCache, issued, started, mishaps, hist>>
ListOnlineAll(s) ==
    /\ Exhausted(s, "chester")
    /\ IF scan[s].seen = {}
       THEN To(s, Idle({}, "skipped"))
       ELSE To(s, [Call(s) EXCEPT !.phase = "sweep",
                                  !.todo = (Mac \ Rows("absent")) \ scan[s].seen])
    /\ UNCHANGED <<db, nodeCache, issued, started, mishaps, hist>>

(* skip_transitions, or list_online_devices and the filter on online_macs.
   A skipped scan goes on to update_last_scan and returns.                  *)
ListOnline(s) ==
    /\ Exhausted(s, "chester")
    /\ IF scan[s].seen = {}
       THEN To(s, Idle({}, "skipped"))
       ELSE To(s, [Call(s) EXCEPT !.phase = "sweep",
                                  !.todo = Rows("online") \ scan[s].seen])
    /\ UNCHANGED <<db, nodeCache, issued, started, mishaps, hist>>

MarkOffline(s) ==
    /\ At(s, "next") /\ In(s, "sweep")
    /\ \E m \in scan[s].todo :
         /\ status' = [status EXCEPT ![m] =
                         IF @ = "absent" THEN @ ELSE "offline"]
         /\ gone'   = [gone EXCEPT ![m] =
                         IF status[m] = "online" THEN @ + 1 ELSE @]
         /\ To(s, [Call(s) EXCEPT !.cur = m, !.pc = "event"])
    /\ UNCHANGED <<name, events, alerts, nodeCache, issued, started, mishaps,
                   owed, synced>>

(* list_offline_devices and the filter on online_macs *)
ListOffline(s) ==
    /\ Exhausted(s, "sweep")
    /\ To(s, [Call(s) EXCEPT !.phase = "revive",
                             !.todo = Rows("offline") \cap scan[s].seen])
    /\ UNCHANGED <<db, nodeCache, issued, started, mishaps, hist>>

MarkOnline(s) ==
    /\ At(s, "next") /\ In(s, "revive")
    /\ \E m \in scan[s].todo :
         /\ status' = [status EXCEPT ![m] =
                         IF @ = "absent" THEN @ ELSE "online"]
         /\ synced' = synced \ {m}
         /\ To(s, [Call(s) EXCEPT !.cur = m, !.pc = "event"])
    /\ UNCHANGED <<name, events, alerts, nodeCache, issued, started, mishaps,
                   owed, gone>>

(* update_last_scan and the return *)
Finish(s) ==
    /\ Exhausted(s, "revive")
    /\ To(s, Idle(scan[s].seen, "complete"))
    /\ UNCHANGED <<db, nodeCache, issued, started, mishaps, hist>>

-----------------------------------------------------------------------------
(* What goes wrong, and the routes *)

(* Any statement or source call may raise; _record_device_event swallows
   it and what it had still to write is lost.                               *)
Fault(s) ==
    /\ ~At(s, "idle") /\ mishaps < MaxMishaps
    /\ mishaps' = mishaps + 1
    /\ IF scan[s].pc \in {"event", "alert"} THEN Resume(s) ELSE Raise(s)
    /\ UNCHANGED <<db, nodeCache, issued, started, hist>>

(* The process dies and is started again: the tables stay, the calls and
   the cache do not; set_deco_client fills the cache anew.                  *)
Crash ==
    /\ mishaps < MaxMishaps
    /\ mishaps' = mishaps + 1
    /\ scan' = [s \in Scanners |-> Idle({}, "none")]
    /\ nodeCache' \in SUBSET Node
    /\ UNCHANGED <<db, issued, started, hist>>

(* PUT /api/devices/{device_id} with a friendly_name *)
RenameDevice(m) ==
    /\ LoopFree /\ Present(m)
    /\ name' = [name EXCEPT ![m] = "user"]
    /\ UNCHANGED <<status, events, alerts, nodeCache, scan, issued, started,
                   mishaps, hist>>

(* Mutant of DeleteDevice: PRAGMA foreign_keys is off, nothing cascades. *)
DeleteDeviceAlone(m) ==
    /\ LoopFree /\ Present(m)
    /\ status' = [status EXCEPT ![m] = "absent"]
    /\ name'   = [name EXCEPT ![m] = None]
    /\ owed'   = [owed EXCEPT ![m] = FALSE]
    /\ gone'   = [gone EXCEPT ![m] = 0]
    /\ UNCHANGED <<events, alerts, nodeCache, scan, issued, started, mishaps,
                   synced>>

(* DELETE /api/devices/{device_id}; the foreign keys cascade *)
DeleteDevice(m) ==
    /\ LoopFree /\ Present(m)
    /\ status' = [status EXCEPT ![m] = "absent"]
    /\ name'   = [name EXCEPT ![m] = None]
    /\ events' = {e \in events : e.mac # m}
    /\ alerts' = {a \in alerts : a.mac # m}
    /\ owed'   = [owed EXCEPT ![m] = FALSE]
    /\ gone'   = [gone EXCEPT ![m] = 0]
    /\ UNCHANGED <<nodeCache, scan, issued, started, mishaps, synced>>

(* DecoService._sync_online_nodes_to_devices, run by the routes that list
   the nodes: a node the Deco calls online whose row says otherwise.  The row
   is read before it is written, but another scan can only have made the
   same change in between.                                                  *)
SyncNode(m) ==
    /\ LoopFree /\ status[m] = "offline"
    /\ status' = [status EXCEPT ![m] = "online"]
    /\ synced' = synced \cup {m}
    /\ UNCHANGED <<name, events, alerts, nodeCache, scan, issued, started,
                   mishaps, owed, gone>>

(* One statement or source call of the scan that s runs *)
ScanStep(s) ==
    \/ Collect(s) \/ Lookup(s) \/ SelectRow(s) \/ UpdateRow(s)
    \/ InsertRow(s) \/ RereadRow(s) \/ NameRow(s) \/ RecordEvent(s)
    \/ CreateAlert(s) \/ AskClients(s) \/ AskNodes(s) \/ AskChester(s)
    \/ ListOnline(s) \/ MarkOffline(s) \/ ListOffline(s) \/ MarkOnline(s)
    \/ Finish(s)

Next ==
    \/ \E s \in Scanners : StartScan(s) \/ ScanStep(s) \/ Fault(s)
    \/ Crash
    \/ \E m \in Mac : RenameDevice(m) \/ DeleteDevice(m)
    \/ \E m \in Node : SyncNode(m)

Spec == Init /\ [][Next]_vars

-----------------------------------------------------------------------------
(* Properties *)

TypeOK ==
    /\ status \in [Mac -> RowStatus]
    /\ name \in [Mac -> {"none", "user", "source"}]
    /\ events \subseteq [id : Nat, mac : Mac, kind : Kinds]
    /\ alerts \subseteq [event : Nat, mac : Mac, kind : Alerting]
    /\ nodeCache \subseteq Node
    /\ scan \in [Scanners -> ScanState]
    /\ issued \in Nat /\ started \in Nat /\ mishaps \in Nat
    /\ owed \in [Mac -> BOOLEAN]
    /\ gone \in [Mac -> Nat]
    /\ synced \subseteq Mac

(* The foreign keys at work between the scanner's separate commits: an
   event never outlives its device nor an alert its event, whichever of the
   statements of _record_device_event a DELETE route falls between; and an
   alert says of its event what the event says of the device.               *)
ReferentialIntegrity ==
    /\ \A e \in events : Present(e.mac)
    /\ \A a \in alerts :
         \E e \in events : e.id = a.event /\ e.mac = a.mac /\ e.kind = a.kind

(* Why that holds: ids are handed out once, and between the two statements
   a scan's id can only be that of the event it has recorded.               *)
IdInv ==
    /\ \A e \in events : e.id \in 1..issued
    /\ \A s \in Scanners : At(s, "alert") =>
         /\ scan[s].ev \in 1..issued
         /\ EventKind(s) \in Alerting
         /\ \A e \in events : e.id = scan[s].ev =>
                e.mac = scan[s].cur /\ e.kind = EventKind(s)

Quiet       == \A s \in Scanners : At(s, "idle")
AllComplete == Quiet /\ \A s \in Scanners : scan[s].outcome = "complete"

(* After overlapping scans that all ran to the end, the inventory is one
   their observations explain: a device shown online was seen by the last
   scan of some scanner (or is a node DecoService saw), one shown offline was
   missed by the last scan of some scanner.  With one scanner: online exactly
   when seen.                                                               *)
PresenceWitnessed ==
    AllComplete =>
        \A m \in Mac :
            /\ status[m] = "online" /\ m \notin synced =>
                   \E s \in Scanners : m \in scan[s].seen
            /\ status[m] = "offline" => \E s \in Scanners : m \notin scan[s].seen

(* Why that holds: as long as a row is online some scanner answers for it (its
   scan saw the device, has yet to sweep, or has the device left to sweep) or
   ended without completing; likewise while a row is offline.               *)
Active(s)  == ~At(s, "idle")
Before(s)  == Active(s) /\ scan[s].phase \notin {"sweep", "revive"}
Left(s, m) == /\ m \in scan[s].todo
              /\ At(s, "next") \/ m # scan[s].cur

OnlineAnswered(s, m) ==
    \/ ~Active(s) /\ scan[s].outcome # "complete"
    \/ Before(s)
    \/ m \in scan[s].seen
    \/ Active(s) /\ In(s, "sweep") /\ Left(s, m)
OfflineAnswered(s, m) ==
    \/ ~Active(s) /\ (scan[s].outcome # "complete" \/ m \notin scan[s].seen)
    \/ Before(s)
    \/ Active(s) /\ In(s, "sweep")
    \/ Active(s) /\ In(s, "revive") /\ (m \notin scan[s].seen \/ Left(s, m))

Stage(s) ==
    /\ At(s, "idle") => In(s, "merged")
    /\ Active(s) /\ ~Before(s) => scan[s].pc \in {"next", "event", "alert"}
    /\ In(s, "revive") => scan[s].todo \subseteq scan[s].seen

PresenceInv ==
    /\ \A s \in Scanners : Stage(s)
    /\ \A m \in Mac :
         /\ status[m] = "online" /\ m \notin synced =>
                \E s \in Scanners : OnlineAnswered(s, m)
         /\ status[m] = "offline" => \E s \in Scanners : OfflineAnswered(s, m)

(* What crashes and errors can have cut off: a crash, one iteration of every
   scanner.                                                                 *)
CutOff == mishaps * Cardinality(Scanners)

(* _record_device_event writes an event and its alert in two commits: every
   event that calls for an alert has it, but for those a crash or an error
   between the two cut off.                                                 *)
Unalerted ==
    {e \in events : /\ e.kind \in Alerting
                    /\ \A a \in alerts : a.event # e.id
                    /\ \A s \in Scanners : At(s, "alert") => scan[s].ev # e.id}
AlertsComplete == Cardinality(Unalerted) <= CutOff

(* A row inserted by the new-device branch of the merged loop gets its
   new_device event, whatever another scan or the DELETE route does between
   the INSERT and the event; each crash or error costs at most what it cut
   off.  (A row deleted between Lookup and SelectRow is inserted anew by the
   branch for known devices, which owes it none.)                           *)
Announcing(s, m) ==
    /\ scan[s].pc \in {"reread", "name", "event"} /\ In(s, "merged")
    /\ ~scan[s].existed /\ scan[s].cur = m
Unannounced ==
    {m \in Mac : /\ Present(m)
                 /\ \A e \in events : e.mac # m \/ e.kind # "new_device"
                 /\ \A s \in Scanners : ~Announcing(s, m)}
NewDevicesAnnounced ==
    Cardinality({m \in Unannounced : owed[m]}) <= CutOff

(* The event log tells the departures of a device: a 'disconnected' event
   for each change from online to offline and none besides, but for the one
   being written and those a crash or an error cut off.  Holds when one
   scanner runs; two overlapping scans may each report the same departure.  *)
Disconnects(m) == {e \in events : e.mac = m /\ e.kind = "disconnected"}
Leaving(m) ==
    {s \in Scanners : At(s, "event") /\ In(s, "sweep") /\ scan[s].cur = m}
DeparturesRecorded ==
    \A m \in Mac : Present(m) =>
        LET lost == gone[m] - Cardinality(Disconnects(m))
                            - Cardinality(Leaving(m))
        IN  lost \in 0..CutOff

(* "Also check for devices that just came online (were offline but in
   online_macs)" (device_scanner.py:1043): a step of a scan that brings a row
   from offline to online goes on to record the return.                     *)
ReturnsRecorded ==
    [][\A m \in Mac :
          scan' # scan /\ status[m] = "offline" /\ status'[m] = "online" =>
          \E s \in Scanners : scan'[s].pc = "event" /\ scan'[s].cur = m]_vars

(* "If no source saw a single device ... the scan failed.  Do not read that
   as 'everyone left'" (device_scanner.py:1019): no scan without a report
   takes a device offline.                                                  *)
SilentScanKeepsDevices ==
    [][\A s \in Scanners : MarkOffline(s) => scan[s].heard]_vars

(* "Sync Deco name if device has no friendly_name yet"
   (device_scanner.py:919): a Deco phase that found the row replaces no name
   the user chose.                                                          *)
DecoKeepsNames ==
    [][\A s \in Scanners : NameRow(s) /\ ~In(s, "merged") /\ scan[s].existed =>
          \A m \in Mac : name[m] = "user" => name'[m] = "user"]_vars

=============================================================================
