---------------------------- MODULE RouterMirror ----------------------------
(***************************************************************************)
(* What HomeSentinel copies from the Chester router, which is the source   *)
(* of truth: the DHCP reservations, into static_ip_enabled and reserved_ip *)
(* of the rows, and the address of the master Deco, into the Deco client   *)
(* and the saved credentials.                                              *)
(*                                                                         *)
(* A scan, on its own thread, takes one snapshot over SSH and applies it   *)
(* step by step.  The routes that change a reservation or the Deco's       *)
(* credentials run on the event loop, one at a time.  The router is edited *)
(* by others too, the Deco moves, and the process may be restarted.        *)
(***************************************************************************)
EXTENDS Naturals, FiniteSets

CONSTANTS
    Mac,        \* devices with a row
    Master,     \* the master Deco, one of them
    Ip,         \* addresses
    Default,    \* the endpoint of a client that was given none
    None,       \* no reservation, no address
    Nothing,    \* no credentials are saved
    MaxChanges, \* bound: changes of reservations
    MaxTurns    \* bound: moves of the Deco, saves of its credentials, restarts

ASSUME MirrorAssumption ==
    /\ Master \in Mac /\ Default \in Ip
    /\ {None, Nothing} \cap Ip = {} /\ None # Nothing
    /\ {MaxChanges, MaxTurns} \subseteq Nat

VARIABLES
    host,       \* the router's reservations
    row,        \* reserved_ip of the rows with static_ip_enabled, else None
    master,     \* where the master Deco is
    lease,      \* where a lease or an old neighbour entry has it, else None
    client,     \* local_endpoint of the Deco client
    saved,      \* that in the setting deco_credentials
    known,      \* has the scanner seen which node is the master?
    scan,       \* the scan: where it is, its snapshot, what it has left
    route,      \* the route that occupies the loop between two of its steps
    spent       \* how much of each bound is used

vars == <<host, row, master, lease, client, saved, known, scan, route, spent>>

NoHost == [m \in Mac |-> None]
Resting == [at |-> "idle", hosts |-> NoHost, ip |-> None, todo |-> {}]
NoRoute == [at |-> "none"]

(* Of credentials only the endpoint is kept here; they may come without one. *)
Creds == Ip \cup {None}

(* load_deco_credentials_on_startup: the environment's variables, else what is
   saved; either may be for the cloud and leave the endpoint as the new client
   has it, as does a load that fails or finds nothing.                      *)
Started(s) == Ip \cup ({s} \ {Nothing}) \cup {Default}

(* The first start, with nothing saved; the later ones are Restart's. *)
Init ==
    /\ host \in [Mac -> Ip \cup {None}] /\ row = NoHost
    /\ master \in Ip /\ lease \in {master, None}
    /\ saved = Nothing /\ client \in Started(saved)
    /\ known = FALSE
    /\ scan = Resting /\ route = NoRoute
    /\ spent = [changes |-> 0, turns |-> 0]

Spend(k, max) == spent[k] < max /\ spent' = [spent EXCEPT ![k] = @ + 1]

----------------------------------------------------------------------------
(* The world *)
EditRouter ==
    /\ Spend("changes", MaxChanges)
    /\ \E m \in Mac, ip \in Ip \cup {None} : host' = [host EXCEPT ![m] = ip]
    /\ UNCHANGED <<row, master, lease, client, saved, known, scan, route>>

DecoMoves ==
    /\ Spend("turns", MaxTurns)
    /\ master' \in Ip \ {master}
    /\ lease' \in {lease, master, master', None}
    /\ UNCHANGED <<host, row, client, saved, known, scan, route>>

(* A lease is renewed, or runs out. *)
LeaseTurns ==
    /\ lease' \in {master, None}
    /\ UNCHANGED <<host, row, master, client, saved, known, scan, route, spent>>

----------------------------------------------------------------------------
(* set_static_lease, by an API of the router or over SSH: the host entry of
   the MAC is written or, without an address, removed                       *)
SetLease(m, ip) == host' = [host EXCEPT ![m] = ip]

(* POST /static-ip: the lease; it may fail, or fail to tell that it did not.
   Only after a success the row.                                            *)
ChangeLease ==
    /\ route = NoRoute /\ Spend("changes", MaxChanges)
    /\ \E m \in Mac, ip \in Ip \cup {None} :
         /\ SetLease(m, ip)
         /\ route' \in {NoRoute, [at |-> "lease", m |-> m, ip |-> ip]}
    /\ UNCHANGED <<row, master, lease, client, saved, known, scan>>

RecordLease ==
    /\ route.at = "lease"
    /\ row' = [row EXCEPT ![route.m] = route.ip]
    /\ route' = NoRoute
    /\ UNCHANGED <<host, master, lease, client, saved, known, scan, spent>>

(* POST /deco/credentials: the setting, through get_connection, then the
   client, whose local_endpoint credentials for the cloud leave alone       *)
SaveCredentials ==
    /\ route = NoRoute /\ Spend("turns", MaxTurns)
    /\ \E c \in Creds : saved' = c /\ route' = [at |-> "client", ip |-> c]
    /\ UNCHANGED <<host, row, master, lease, client, known, scan>>

UseCredentials ==
    /\ route.at = "client"
    /\ client' \in {client, IF route.ip = None THEN Default ELSE route.ip}
    /\ route' = NoRoute
    /\ UNCHANGED <<host, row, master, lease, saved, known, scan, spent>>

----------------------------------------------------------------------------
(* The scan.  Its local sources and the devices it finds are DeviceScanner's. *)
Goes(at) == scan' = [scan EXCEPT !.at = at]
Leaves(at) == scan' = [scan EXCEPT !.at = at, !.ip = None]

(* A snapshot tells all, with the master an online neighbour; or parts of it
   are missing, and then the master's address may be one of ip_hints(), its
   reservation or else its lease, or that of a neighbour entry that was
   confirmed shortly before it moved.                                       *)
TakeSnapshot(hosts, ip) ==
    /\ scan.at = "idle"
    /\ scan' = [at |-> "reconcile", hosts |-> hosts, ip |-> ip, todo |-> Mac]
    /\ UNCHANGED <<host, row, master, lease, client, saved, known, route, spent>>

Whole   == TakeSnapshot(host, master)
Hint(h, l) == IF h[Master] # None THEN h[Master] ELSE l
Partial == \E h \in {host, NoHost}, l \in {lease, None} :
               \E ip \in {master, l, Hint(h, l)} : TakeSnapshot(h, ip)

NoSnapshot ==
    /\ scan.at = "idle" /\ Goes("deco")
    /\ UNCHANGED <<host, row, master, lease, client, saved, known, route, spent>>

Moved == known /\ scan.ip # None /\ client # scan.ip

(* Mutant of Reconcile: the address is saved and the client left alone. *)
ReconcileSaved ==
    /\ scan.at = "reconcile"
    /\ IF Moved THEN Goes("store") ELSE Leaves("rows")
    /\ UNCHANGED <<host, row, master, lease, client, saved, known, route, spent>>

(* _reconcile_deco_endpoint; nothing to do while the master is not known *)
Reconcile ==
    /\ scan.at = "reconcile"
    /\ IF Moved THEN Goes("store") ELSE Leaves("rows")
    /\ client' = IF Moved THEN scan.ip ELSE client
    /\ UNCHANGED <<host, row, master, lease, saved, known, route, spent>>

(* _persist_deco_endpoint: under the write lock, which the route does not
   take; it changes what is saved, and a failure is a warning               *)
StoreSaved ==
    /\ scan.at = "store" /\ Leaves("rows")
    /\ saved' \in {saved} \cup (IF saved = Nothing THEN {} ELSE {scan.ip})
    /\ UNCHANGED <<host, row, master, lease, client, known, route, spent>>

Reserved == {m \in Mac : scan.hosts[m] # None}

(* Mutant of Mirrored: rows that are enabled already are left alone. *)
MirroredOnce ==
    [m \in Mac |-> IF m \in Reserved
                   THEN IF row[m] = None THEN scan.hosts[m] ELSE row[m]
                   ELSE IF Reserved # {} THEN None ELSE row[m]]

(* What _sync_ips_and_reservations makes of each row: reservations are
   copied, and flags cleared unless the list came back empty                *)
Mirrored ==
    [m \in Mac |-> IF m \in Reserved THEN scan.hosts[m]
                   ELSE IF Reserved # {} THEN None ELSE row[m]]

MirrorRow(m) ==
    /\ scan.at = "rows" /\ m \in scan.todo
    /\ row' = [row EXCEPT ![m] = Mirrored[m]]
    /\ scan' = IF scan.todo = {m} THEN [Resting EXCEPT !.at = "deco"]
               ELSE [scan EXCEPT !.todo = @ \ {m}]
    /\ UNCHANGED <<host, master, lease, client, saved, known, route, spent>>

(* get_topology_local: answered where the client looks for the Deco, or from
   an answer that was cached while it did; the master in it is remembered.  *)
AskTopology ==
    /\ scan.at = "deco"
    /\ known' \in {known, TRUE}
    /\ scan' = Resting
    /\ UNCHANGED <<host, row, master, lease, client, saved, route, spent>>

ScanStep ==
    \/ Reconcile \/ StoreSaved
    \/ \E m \in Mac : MirrorRow(m)
    \/ AskTopology

(* set_deco_client asks for the topology once, as the new client is set up. *)
Restart ==
    /\ Spend("turns", MaxTurns)
    /\ client' \in Started(saved)
    /\ known' \in {FALSE, client' = master}
    /\ scan' = Resting /\ route' = NoRoute
    /\ UNCHANGED <<host, row, master, lease, saved>>

----------------------------------------------------------------------------
Next ==
    \/ EditRouter \/ DecoMoves \/ LeaseTurns
    \/ ChangeLease \/ RecordLease \/ SaveCredentials \/ UseCredentials
    \/ Whole \/ Partial \/ NoSnapshot \/ ScanStep
    \/ Restart

Spec == Init /\ [][Next]_vars

(* The poller never stops scanning, what was begun is finished, and the router
   answers now and then.                                                    *)
FairSpec ==
    /\ Spec
    /\ WF_vars(RecordLease) /\ WF_vars(UseCredentials)
    /\ WF_vars(ScanStep) /\ WF_vars(Whole \/ Partial \/ NoSnapshot) /\ SF_vars(Whole)

----------------------------------------------------------------------------
(* However leases change, by the route, behind its back or without its
   knowledge, and whatever was in flight then, the rows come to show what the
   router holds; where it holds nothing they may stay as they were, since an
   empty list is not believed.                                              *)
ReservationsMirrored ==
    <>[](\A m \in Mac : host # NoHost => row[m] = host[m])

(* What the router tells of a master that it does not see at the moment. *)
HintsTrue == {host[Master], lease} \subseteq {master, None}

(* A master that is known is followed to where it moves: the client is put
   right time and again, and for good once no reservation and no lease of its
   old address is left to be believed when the router does not see it.      *)
EndpointFollows ==
    /\ []<>(known => client = master)
    /\ <>[](known /\ HintsTrue => client = master)

=============================================================================
