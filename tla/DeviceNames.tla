----------------------------- MODULE DeviceNames -----------------------------
(***************************************************************************)
(* Who writes network_devices.friendly_name and alexa_device_links.  The   *)
(* user names a device by three routes; five imports copy names that Alexa *)
(* or the Deco knows; a scan on another thread writes host names and Deco  *)
(* names.                                                                  *)
(*                                                                         *)
(* The routes are coroutines that never wait in their middle, so the loop  *)
(* runs one to its end before the next; a scan's statements come between   *)
(* any two of theirs.  The identify routes do wait, for a worker thread    *)
(* that asks the Deco for its clients.                                     *)
(*                                                                         *)
(* A name is its origin.  "generic" stands for those that                  *)
(* import-mac-addresses replaces (amazon, phone, ...), whoever wrote them. *)
(***************************************************************************)
EXTENDS Naturals, FiniteSets

CONSTANTS
    Device,     \* devices of the network, by MAC address
    Endpoint,   \* Alexa devices
    Request,    \* concurrent calls of the identify routes
    MaxStarts   \* bound: identify calls that take a first snapshot

ASSUME NamesAssumption == MaxStarts \in Nat

Name    == {"", "generic", "user", "alexa", "deco", "host"}
Generic == {"", "generic"}

VARIABLES
    friendly,   \* friendly_name of each row; "absent" where there is no row
    known,      \* rows of alexa_devices
    link,       \* link_type of each pair; "none" where they are not linked
    import,     \* the import that occupies the loop, and what it has left
    scan,       \* what a scan knows of the device it is about to name
    before,     \* _identify_snapshots of one entity: a start's number, 0 for none
    asked,      \* calls of the identify routes that wait for the Deco
    started,    \* ghost: snapshots stored
    completed   \* ghost: identifications that answered with a difference

rowVars      == <<friendly, known, link, import, scan>>
identifyVars == <<before, asked, started, completed>>
nameVars     == <<rowVars, identifyVars>>

Pair == Endpoint \X Device

NoImport == [kind |-> "none", todo |-> {}]
NoScan   == [name |-> "none", saw |-> ""]
NoCall     == [at |-> "idle", took |-> 0]

NamesInit ==
    /\ friendly = [d \in Device |-> "absent"]
    /\ known = {}
    /\ link = [p \in Pair |-> "none"]
    /\ import = NoImport
    /\ scan = [d \in Device |-> NoScan]
    /\ before = 0 /\ asked = [r \in Request |-> NoCall]
    /\ started = 0 /\ completed = 0

----------------------------------------------------------------------------
(* Routes of one statement *)
Exists(d) == friendly[d] # "absent"

(* Mutant of LoopFree: handlers of imports as plain functions, which FastAPI
   runs in worker threads.                                                  *)
LoopAlwaysFree == TRUE

LoopFree == import.kind = "none"

(* PUT /devices/{id}, POST /apply-name/{id}, POST /rename-client: the user's
   choice, made on the Deco first by the last of them                       *)
Rename(d) ==
    /\ LoopFree /\ Exists(d)
    /\ \E n \in {"user", "generic"} : friendly' = [friendly EXCEPT ![d] = n]
    /\ UNCHANGED <<known, link, import, scan, identifyVars>>

(* DELETE /devices/{id}: the foreign key of a link has no cascade *)
Delete(d) ==
    /\ LoopFree /\ Exists(d)
    /\ \A e \in Endpoint : link[<<e, d>>] = "none"
    /\ friendly' = [friendly EXCEPT ![d] = "absent"]
    /\ UNCHANGED <<known, link, import, scan, identifyVars>>

(* _save_device_to_db for a device that get_devices lists *)
SaveAlexaDevice(e) ==
    /\ LoopFree /\ e \notin known
    /\ known' = known \cup {e}
    /\ UNCHANGED <<friendly, link, import, scan, identifyVars>>

Link(e, d) ==
    /\ LoopFree /\ e \in known /\ Exists(d)
    /\ link' = [link EXCEPT ![<<e, d>>] = "manual"]
    /\ UNCHANGED <<friendly, known, import, scan, identifyVars>>

Unlink(e, d) ==
    /\ LoopFree
    /\ link' = [link EXCEPT ![<<e, d>>] = "none"]
    /\ UNCHANGED <<friendly, known, import, scan, identifyVars>>

----------------------------------------------------------------------------
(* Imports: what is left to do is a set of [e, d, saw], where saw is the name
   of the row when the import read it, "unread" before                      *)
Item(p, saw) == [e |-> p[1], d |-> p[2], saw |-> saw]

(* What Alexa or the Deco may list: each device under one endpoint at most.
   The Deco knows no endpoints; the first component says nothing then.      *)
Listing == {S \in SUBSET Pair : \A p, q \in S : p[2] = q[2] => p = q}

(* sync_network_friendly_names_from_alexa reads all links and the rows' names
   in one query, the others read or write row by row.                       *)
Linked == {p \in Pair : link[p] # "none"}

Start ==
    /\ LoopFree
    /\ \/ \E k \in {"sync", "overwrite"} :
            import' = [kind |-> k, todo |-> {Item(p, friendly[p[2]]) : p \in Linked}]
       \/ \E k \in {"macs", "clients", "nodes"}, S \in Listing :
            import' = [kind |-> k, todo |-> {Item(p, "unread") : p \in S}]
    /\ import'.todo # {}
    /\ UNCHANGED <<friendly, known, link, scan, identifyVars>>

Left(S) == IF S = {} THEN NoImport ELSE [import EXCEPT !.todo = S]

(* The statement named changes the row if there is one. *)
Named(d, n) == IF Exists(d) THEN [friendly EXCEPT ![d] = n] ELSE friendly

SyncItem(i) ==
    /\ import.kind \in {"sync", "overwrite"}
    /\ friendly' =
         IF i.saw = "alexa" \/ (import.kind = "sync" /\ i.saw # "")
         THEN friendly ELSE Named(i.d, "alexa")
    /\ import' = Left(import.todo \ {i})
    /\ UNCHANGED link

(* import-mac-addresses: SELECT, then the link and the name *)
LookItem(i) ==
    /\ import.kind = "macs" /\ i.saw = "unread"
    /\ import' = Left((import.todo \ {i}) \cup
                      (IF Exists(i.d) THEN {[i EXCEPT !.saw = friendly[i.d]]} ELSE {}))
    /\ UNCHANGED <<friendly, link>>

(* Mutant of LinkAuto: INSERT OR REPLACE, as in the link route. *)
LinkAutoReplacing(i) == IF i.e \in known THEN [link EXCEPT ![<<i.e, i.d>>] = "auto"] ELSE link

LinkAuto(i) ==
    IF i.e \in known /\ link[<<i.e, i.d>>] = "none"
    THEN [link EXCEPT ![<<i.e, i.d>>] = "auto"] ELSE link

MacItem(i) ==
    /\ import.kind = "macs" /\ i.saw # "unread"
    /\ link' = LinkAuto(i)
    /\ friendly' = IF i.saw \in Generic THEN Named(i.d, "alexa") ELSE friendly
    /\ import' = Left(import.todo \ {i})

(* import-client-names and auto-name-nodes: UPDATE ... WHERE the name is empty *)
DecoItem(i) ==
    /\ import.kind \in {"clients", "nodes"}
    /\ friendly' = IF friendly[i.d] = "" THEN Named(i.d, "deco") ELSE friendly
    /\ import' = Left(import.todo \ {i})
    /\ UNCHANGED link

ImportStep ==
    /\ \E i \in import.todo : SyncItem(i) \/ LookItem(i) \/ MacItem(i) \/ DecoItem(i)
    /\ UNCHANGED <<known, scan, identifyVars>>

----------------------------------------------------------------------------
(* The scan reads the row, or inserts it, and then names it: after the host
   name DHCP gave, always, since the row's hostname column is never written;
   after the Deco if the row it read had no name                            *)
ScanLook(d) ==
    /\ scan[d] = NoScan
    /\ \E n \in {"host", "deco"} :
         scan' = [scan EXCEPT ![d] =
                    [name |-> n, saw |-> IF Exists(d) THEN friendly[d] ELSE ""]]
    /\ friendly' = IF Exists(d) THEN friendly ELSE [friendly EXCEPT ![d] = ""]
    /\ UNCHANGED <<known, link, import, identifyVars>>

ScanName(d) ==
    /\ scan[d] # NoScan
    /\ friendly' = IF scan[d].name = "host" \/ scan[d].saw = ""
                   THEN Named(d, scan[d].name) ELSE friendly
    /\ scan' = [scan EXCEPT ![d] = NoScan]
    /\ UNCHANGED <<known, link, import, identifyVars>>

----------------------------------------------------------------------------
(* Identification of the device behind an Alexa plug: the clients that are
   online before its power is cut and not after.                            *)
IdentifyStart(r) ==
    /\ LoopFree /\ asked[r] = NoCall /\ started < MaxStarts
    /\ Cardinality({q \in Request : asked[q].at = "start"}) < MaxStarts - started
    /\ asked' = [asked EXCEPT ![r].at = "start"]
    /\ UNCHANGED <<rowVars, before, started, completed>>

SnapshotTaken(r) ==
    /\ LoopFree /\ asked[r].at = "start"
    /\ before' = started + 1 /\ started' = started + 1
    /\ asked' = [asked EXCEPT ![r] = NoCall]
    /\ UNCHANGED <<rowVars, completed>>

(* A snapshot of more than 300 seconds is thrown away. *)
IdentifyComplete(r) ==
    /\ LoopFree /\ asked[r] = NoCall /\ before # 0
    /\ \/ asked' = [asked EXCEPT ![r] = [at |-> "complete", took |-> before]] /\ UNCHANGED before
       \/ before' = 0 /\ UNCHANGED asked
    /\ UNCHANGED <<rowVars, started, completed>>

(* Mutant of Difference: _identify_snapshots.pop(entity_id, None). *)
DifferencePopping(r) ==
    /\ LoopFree /\ asked[r].at = "complete"
    /\ completed' = completed + 1
    /\ before' = 0
    /\ asked' = [asked EXCEPT ![r] = NoCall]
    /\ UNCHANGED <<rowVars, started>>

(* `del _identify_snapshots[entity_id]` raises when another call was first,
   and takes the snapshot of a start that came while this one waited.       *)
Difference(r) ==
    /\ LoopFree /\ asked[r].at = "complete"
    /\ completed' = IF before = 0 THEN completed ELSE completed + 1
    /\ before' = 0
    /\ asked' = [asked EXCEPT ![r] = NoCall]
    /\ UNCHANGED <<rowVars, started>>

DecoSilent(r) ==
    /\ LoopFree /\ asked[r] # NoCall
    /\ asked' = [asked EXCEPT ![r] = NoCall]
    /\ UNCHANGED <<rowVars, before, started, completed>>

----------------------------------------------------------------------------
(* A process that ended: the rows stay, imports, scans and snapshots go. *)
NamesRestart ==
    /\ import' = NoImport /\ scan' = [d \in Device |-> NoScan]
    /\ before' = 0 /\ asked' = [r \in Request |-> NoCall]
    /\ UNCHANGED <<friendly, known, link, started, completed>>

Choice == \E d \in Device : Rename(d) \/ Delete(d)

Scanning == \E d \in Device : ScanLook(d) \/ ScanName(d)

NamesNext ==
    \/ Choice \/ Scanning \/ Start \/ ImportStep \/ NamesRestart
    \/ \E e \in Endpoint : SaveAlexaDevice(e)
    \/ \E e \in Endpoint, d \in Device : Link(e, d) \/ Unlink(e, d)
    \/ \E r \in Request :
         IdentifyStart(r) \/ SnapshotTaken(r) \/ IdentifyComplete(r) \/ Difference(r) \/ DecoSilent(r)

----------------------------------------------------------------------------
NamesTypeOK ==
    /\ friendly \in [Device -> Name \cup {"absent"}]
    /\ known \subseteq Endpoint
    /\ link \in [Pair -> {"none", "manual", "auto"}]
    /\ import.kind \in {"none", "sync", "overwrite", "macs", "clients", "nodes"}
    /\ import.todo \subseteq [e : Endpoint, d : Device, saw : Name \cup {"absent", "unread"}]
    /\ scan \in [Device -> [name : {"none", "host", "deco"}, saw : Name]]
    /\ before \in 0..started
    /\ asked \in [Request -> [at : {"idle", "start", "complete"}, took : 0..MaxStarts]]
    /\ started \in 0..MaxStarts /\ completed \in Nat

(* No import replaces a name the user chose, unless asked to overwrite: also
   those that read the name long before they write it.                      *)
ChosenNamesKept ==
    [][\A d \in Device :
         /\ friendly[d] = "user" /\ friendly'[d] # "user"
         /\ import.kind # "overwrite"
         => Choice \/ Scanning]_nameVars

(* A link the user made stays a manual one until the user removes it, however
   often an import meets the pair again, and its two rows stay with it.     *)
ManualLinksKept ==
    [][\A p \in Pair :
         /\ link[p] = "manual"
         /\ link'[p] # "manual" \/ p[1] \notin known' \/ friendly'[p[2]] = "absent"
         => \E e \in Endpoint, d \in Device : Unlink(e, d)]_nameVars

(* Each identification answers at most once: of the calls that complete it
   together, and of those that overtake a new start, one gets the difference
   and the others an error.                                                 *)
CompletedOnce == completed + (IF before = 0 THEN 0 ELSE 1) <= started

=============================================================================
