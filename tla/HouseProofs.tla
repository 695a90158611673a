----------------------------- MODULE HouseProofs -----------------------------
(***************************************************************************)
(* Proofs about the names and links of devices, about the signal booster,  *)
(* the local service monitor and the pages of the Deco, for any number of  *)
(* devices, Alexa endpoints, requests, settings, listeners and observers,  *)
(* tables of any length and caches of any lifetime: as parts of            *)
(* SeparateParts, whose other parts leave their variables alone.           *)
(***************************************************************************)
EXTENDS TLAPS, SeparateParts, FiniteSetTheorems, SequenceTheorems,
        WellFoundedInduction

(* A step of the whole is one of the part or leaves its variables alone. *)
LEMMA NamesPart == [PartsNext]_partVars => [NamesNext]_nameVars
BY DEF PartsNext, partVars, houseVars, Migrating, Cleaning, Alarming, Granting, Naming,
       Monitoring, Boosting, Paging

LEMMA BoosterPart == [PartsNext]_partVars => [BoosterNext]_boosterVars
BY DEF PartsNext, partVars, houseVars, Migrating, Cleaning, Alarming, Granting, Naming,
       Monitoring, Boosting, Paging

LEMMA MonitorPart == [PartsNext]_partVars => [MonitorNext]_monitorVars
BY DEF PartsNext, partVars, houseVars, Migrating, Cleaning, Alarming, Granting, Naming,
       Monitoring, Boosting, Paging

(* The fairness of the other parts plays no role for safety. *)
LEMMA PartsSafety == PartsSpec => PartsInit /\ [][PartsNext]_partVars
BY PTL DEF PartsSpec

----------------------------------------------------------------------------
(* What an import has read of a row still excludes that the user has named
   it, since no route runs before the import ends; a row that it is about to
   link is still there.                                                     *)
Items == [e : Endpoint, d : Device, saw : Name \cup {"absent", "unread"}]

Kinds == {"none", "sync", "overwrite", "macs", "clients", "nodes"}

Fits(f, kind, i) ==
    /\ kind = "sync" /\ i.saw = "" => f[i.d] # "user"
    /\ kind = "macs" /\ i.saw \in Generic => f[i.d] # "user"
    /\ kind = "macs" /\ i.saw # "unread" => f[i.d] # "absent"

ImportInv ==
    /\ import \in [kind : Kinds, todo : SUBSET Items]
    /\ import.kind = "none" => import.todo = {}
    /\ \A i \in import.todo : Fits(friendly, import.kind, i)

ScanInv == scan \in [Device -> {NoScan} \cup [name : {"host", "deco"}, saw : Name]]

LinksInv ==
    /\ link \in [Pair -> {"none", "manual", "auto"}]
    /\ \A e \in Endpoint, d \in Device :
          link[<<e, d>>] # "none" => e \in known /\ friendly[d] # "absent"

NamesInv ==
    /\ friendly \in [Device -> Name \cup {"absent"}]
    /\ ImportInv
    /\ LinksInv
    /\ ScanInv
    /\ before \in Nat /\ started \in Nat /\ completed \in Nat
    /\ CompletedOnce

LEMMA NamesInvInit == NamesInit => NamesInv
<1> SUFFICES ASSUME NamesInit PROVE NamesInv
    OBVIOUS
<1>1. friendly \in [Device -> Name \cup {"absent"}]
    BY DEF NamesInit
<1>2. ImportInv
    BY DEF NamesInit, ImportInv, NoImport, Items, Kinds
<1>3. LinksInv
    BY DEF NamesInit, LinksInv, Pair
<1>4. before = 0 /\ started = 0 /\ completed = 0
    BY DEF NamesInit
<1>5. ScanInv
    BY DEF NamesInit, ScanInv
<1> QED BY <1>1, <1>2, <1>3, <1>4, <1>5 DEF NamesInv, CompletedOnce

(* The identification routes touch nothing else, the others not its part. *)
LEMMA IdentifyStep ==
    ASSUME NamesInv, UNCHANGED rowVars,
           \/ UNCHANGED <<before, started, completed>>
           \/ \E r \in Request : SnapshotTaken(r) \/ IdentifyComplete(r) \/ Difference(r)
    PROVE  NamesInv'
<1>1. /\ before' \in Nat /\ started' \in Nat /\ completed' \in Nat
      /\ CompletedOnce'
    BY DEF NamesInv, CompletedOnce, SnapshotTaken, IdentifyComplete, Difference
<1> QED BY <1>1 DEF NamesInv, rowVars, ImportInv, LinksInv, ScanInv

(* What a step on the rows has to show *)
LEMMA RowStep ==
    ASSUME NamesInv, UNCHANGED <<before, started, completed>>,
           friendly' \in [Device -> Name \cup {"absent"}], ImportInv', LinksInv', scan' = scan \/ ScanInv'
    PROVE  NamesInv'
BY DEF NamesInv, CompletedOnce, ScanInv

LEMMA StillFits ==
    ASSUME NEW f, NEW g, NEW kind, NEW i, Fits(f, kind, i),
           g[i.d] = "user" => f[i.d] = "user", g[i.d] = "absent" => f[i.d] = "absent"
    PROVE  Fits(g, kind, i)
BY DEF Fits

(* What is left of an import, if each row left is as the import takes it *)
LEMMA LeftStep ==
    ASSUME import \in [kind : Kinds, todo : SUBSET Items],
           NEW S \in SUBSET Items, import' = Left(S),
           \A i \in S : Fits(friendly', import.kind, i),
           import.kind # "none"
    PROVE  ImportInv'
<1>1. CASE S = {}
    BY <1>1 DEF ImportInv, Left, NoImport, Kinds
<1>2. CASE S # {}
  <2>1. import' = [import EXCEPT !.todo = S]
    BY <1>2 DEF Left
  <2> QED BY <2>1 DEF ImportInv
<1> QED BY <1>1, <1>2

LEMMA NamesInvStep == NamesInv /\ [NamesNext]_nameVars => NamesInv'
<1> SUFFICES ASSUME NamesInv, [NamesNext]_nameVars PROVE NamesInv'
    OBVIOUS
<1>0. /\ friendly \in [Device -> Name \cup {"absent"}]
      /\ ImportInv /\ LinksInv /\ ScanInv
    BY DEF NamesInv
<1>1. ASSUME NEW d \in Device, Rename(d) PROVE NamesInv'
  <2>1. /\ import' = import /\ import.todo = {} /\ link' = link /\ known' = known
        /\ UNCHANGED <<scan, before, started, completed>>
    BY <1>0, <1>1 DEF Rename, LoopFree, ImportInv, identifyVars
  <2>2. \E n \in {"user", "generic"} : friendly' = [friendly EXCEPT ![d] = n] /\ friendly[d] # "absent"
    BY <1>1 DEF Rename, Exists
  <2>3. friendly' \in [Device -> Name \cup {"absent"}]
    BY <1>0, <2>2 DEF Name
  <2>4. ImportInv'
    BY <1>0, <2>1 DEF ImportInv
  <2>5. LinksInv'
    BY <1>0, <2>1, <2>2 DEF LinksInv
  <2> QED BY <2>1, <2>3, <2>4, <2>5, RowStep
<1>2. ASSUME NEW d \in Device, Delete(d) PROVE NamesInv'
  <2>1. /\ import' = import /\ import.todo = {} /\ link' = link /\ known' = known
        /\ UNCHANGED <<scan, before, started, completed>>
        /\ friendly' = [friendly EXCEPT ![d] = "absent"]
        /\ \A e \in Endpoint : link[<<e, d>>] = "none"
    BY <1>0, <1>2 DEF Delete, LoopFree, ImportInv, identifyVars
  <2>2. friendly' \in [Device -> Name \cup {"absent"}]
    BY <1>0, <2>1
  <2>3. ImportInv'
    BY <1>0, <2>1 DEF ImportInv
  <2>4. LinksInv'
    BY <1>0, <2>1 DEF LinksInv
  <2> QED BY <2>1, <2>2, <2>3, <2>4, RowStep
<1>3. ASSUME NEW e \in Endpoint, SaveAlexaDevice(e) PROVE NamesInv'
  <2>1. /\ UNCHANGED <<friendly, link, import, scan, before, started, completed>> /\ known' = known \cup {e}
    BY <1>3 DEF SaveAlexaDevice, identifyVars
  <2> QED BY <1>0, <2>1, RowStep DEF ImportInv, LinksInv
<1>4. ASSUME NEW e \in Endpoint, NEW d \in Device, Link(e, d) \/ Unlink(e, d) PROVE NamesInv'
  <2>1. /\ UNCHANGED <<friendly, known, import, scan, before, started, completed>>
    BY <1>4 DEF Link, Unlink, identifyVars
  <2>2. <<e, d>> \in Pair
    BY DEF Pair
  <2>3. LinksInv'
    <3>1. CASE Link(e, d)
      BY <1>0, <2>1, <2>2, <3>1 DEF LinksInv, Link, Exists, Pair
    <3>2. CASE Unlink(e, d)
      BY <1>0, <2>1, <2>2, <3>2 DEF LinksInv, Unlink, Pair
    <3> QED BY <1>4, <3>1, <3>2
  <2> QED BY <1>0, <2>1, <2>3, RowStep DEF ImportInv
<1>5. CASE Start
  <2>1. UNCHANGED <<friendly, known, link, scan, before, started, completed>>
    BY <1>5 DEF Start, identifyVars
  <2>2. ImportInv'
    <3>1. CASE \E k \in {"sync", "overwrite"} :
                 import' = [kind |-> k, todo |-> {Item(p, friendly[p[2]]) : p \in Linked}]
      <4>1. PICK k \in {"sync", "overwrite"} :
                 import' = [kind |-> k, todo |-> {Item(p, friendly[p[2]]) : p \in Linked}]
        BY <3>1
      <4>2. import'.kind = k /\ import'.todo = {Item(p, friendly[p[2]]) : p \in Linked}
        BY <4>1
      <4>3. \A i \in import'.todo : i \in Items /\ i.saw = friendly[i.d]
        BY <1>0, <4>2 DEF Item, Items, Linked, Pair
      <4>4. import' \in [kind : Kinds, todo : SUBSET Items]
        BY <4>1, <4>2, <4>3 DEF Kinds
      <4> QED BY <1>0, <2>1, <4>2, <4>3, <4>4 DEF ImportInv, Fits
    <3>2. CASE \E k \in {"macs", "clients", "nodes"}, S \in Listing :
                 import' = [kind |-> k, todo |-> {Item(p, "unread") : p \in S}]
      <4>1. PICK k \in {"macs", "clients", "nodes"}, S \in Listing :
                 import' = [kind |-> k, todo |-> {Item(p, "unread") : p \in S}]
        BY <3>2
      <4>2. import'.kind = k /\ import'.todo = {Item(p, "unread") : p \in S}
        BY <4>1
      <4>3. \A i \in import'.todo : i \in Items /\ i.saw = "unread"
        BY <4>2 DEF Item, Items, Listing, Pair
      <4>4. import' \in [kind : Kinds, todo : SUBSET Items]
        BY <4>1, <4>2, <4>3 DEF Kinds
      <4> QED BY <1>0, <4>2, <4>3, <4>4 DEF ImportInv, Fits, Generic
    <3> QED BY <1>5, <3>1, <3>2 DEF Start
  <2> QED BY <1>0, <2>1, <2>2, RowStep DEF LinksInv
<1>6. CASE ImportStep
  <2>0. PICK i \in import.todo : SyncItem(i) \/ LookItem(i) \/ MacItem(i) \/ DecoItem(i)
    BY <1>6 DEF ImportStep
  <2>1. UNCHANGED <<known, scan, before, started, completed>> /\ i \in Items
    BY <1>0, <1>6 DEF ImportStep, identifyVars, ImportInv
  <2>2. CASE LookItem(i)
    <3>1. UNCHANGED <<friendly, link>> /\ import.kind = "macs" /\ i.saw = "unread"
      BY <2>2 DEF LookItem
    <3> DEFINE looked == [i EXCEPT !.saw = friendly[i.d]]
               rest == import.todo \ {i}
    <3>2. looked \in Items /\ looked.d = i.d /\ looked.saw = friendly[i.d]
      BY <1>0, <2>1 DEF Items
    <3>3. \/ import' = Left(rest)
          \/ import' = Left(rest \cup {looked}) /\ friendly[i.d] # "absent"
      BY <2>2 DEF LookItem, Exists
    <3>4. ImportInv'
      <4> HIDE DEF looked
      <4>1. rest \in SUBSET Items /\ rest \cup {looked} \in SUBSET Items
        BY <1>0, <3>2 DEF ImportInv
      <4>2. \A j \in rest : Fits(friendly', import.kind, j)
        BY <1>0, <3>1 DEF ImportInv
      <4>3. friendly[i.d] # "absent" => Fits(friendly', import.kind, looked)
        BY <3>1, <3>2 DEF Fits, Generic
      <4>4. import.kind # "none" /\ import \in [kind : Kinds, todo : SUBSET Items]
        BY <1>0, <3>1 DEF ImportInv
      <4> QED BY <3>3, <4>1, <4>2, <4>3, <4>4, LeftStep
    <3> QED BY <1>0, <2>1, <3>1, <3>4, RowStep DEF LinksInv
  <2>3. CASE ~LookItem(i)
    <3>1. import' = Left(import.todo \ {i})
      BY <2>0, <2>3 DEF SyncItem, MacItem, DecoItem
    <3>2. /\ \/ friendly' = friendly
             \/ /\ friendly[i.d] # "absent"
                /\ \E n \in {"alexa", "deco"} : friendly' = [friendly EXCEPT ![i.d] = n]
      BY <2>0, <2>3 DEF SyncItem, MacItem, DecoItem, Named, Exists
    <3>3. friendly' \in [Device -> Name \cup {"absent"}]
      BY <1>0, <3>2 DEF Name
    <3>4. \A c \in Device : /\ friendly'[c] = "user" => friendly[c] = "user"
                            /\ friendly'[c] = "absent" => friendly[c] = "absent"
      BY <1>0, <3>2
    <3>5. ImportInv'
      <4>1. import.kind # "none" /\ \A j \in import.todo : j.d \in Device
        BY <1>0, <2>0 DEF ImportInv, Items
      <4>2. \A j \in import.todo \ {i} : Fits(friendly', import.kind, j)
        BY <1>0, <3>4, <4>1, StillFits DEF ImportInv
      <4>3. import.todo \ {i} \in SUBSET Items /\ import \in [kind : Kinds, todo : SUBSET Items]
        BY <1>0 DEF ImportInv
      <4> QED BY <3>1, <4>1, <4>2, <4>3, LeftStep
    <3>6. \/ link' = link
          \/ /\ i.e \in known /\ friendly[i.d] # "absent"
             /\ link' = [link EXCEPT ![<<i.e, i.d>>] = "auto"]
      BY <1>0, <2>0, <2>3 DEF SyncItem, MacItem, DecoItem, LinkAuto, ImportInv, Fits
    <3>7. LinksInv'
      BY <1>0, <2>1, <3>4, <3>6 DEF LinksInv, Items, Pair
    <3> QED BY <2>1, <3>3, <3>5, <3>7, RowStep
  <2> QED BY <2>2, <2>3
<1>7. ASSUME NEW d \in Device, ScanLook(d) \/ ScanName(d) PROVE NamesInv'
  <2>1. UNCHANGED <<known, link, import, before, started, completed>>
    BY <1>7 DEF ScanLook, ScanName, identifyVars
  <2>2. /\ \/ friendly' = friendly
           \/ /\ friendly[d] = "absent" /\ friendly' = [friendly EXCEPT ![d] = ""]
           \/ /\ friendly[d] # "absent"
              /\ \E n \in {"host", "deco"} : friendly' = [friendly EXCEPT ![d] = n]
        /\ ScanInv'
    <3>1. CASE ScanLook(d)
      <4>1. (IF Exists(d) THEN friendly[d] ELSE "") \in Name
        BY <1>0 DEF Exists, Name
      <4>2. PICK n \in {"host", "deco"} :
              scan' = [scan EXCEPT ![d] = [name |-> n, saw |-> IF Exists(d) THEN friendly[d] ELSE ""]]
        BY <3>1 DEF ScanLook
      <4>3. ScanInv'
        BY <1>0, <4>1, <4>2 DEF ScanInv
      <4> QED BY <3>1, <4>3 DEF ScanLook, Exists
    <3>2. CASE ScanName(d)
      <4>1. scan[d].name \in {"host", "deco"}
        BY <1>0, <3>2 DEF ScanName, ScanInv
      <4>2. ScanInv'
        BY <1>0, <3>2 DEF ScanName, ScanInv
      <4> QED BY <3>2, <4>1, <4>2 DEF ScanName, Named, Exists
    <3> QED BY <1>7, <3>1, <3>2
  <2>3. friendly' \in [Device -> Name \cup {"absent"}]
    BY <1>0, <2>2 DEF Name
  <2>4. \A c \in Device : /\ friendly'[c] = "user" => friendly[c] = "user"
                          /\ friendly'[c] = "absent" => friendly[c] = "absent"
    BY <1>0, <2>2
  <2>5. ImportInv'
    <3>1. \A i \in import.todo : i.d \in Device
      BY <1>0 DEF ImportInv, Items
    <3>2. \A i \in import.todo : Fits(friendly', import.kind, i)
      BY <1>0, <2>4, <3>1, StillFits DEF ImportInv
    <3> QED BY <1>0, <2>1, <3>2 DEF ImportInv
  <2>6. LinksInv'
    BY <1>0, <2>1, <2>4 DEF LinksInv
  <2> QED BY <2>1, <2>2, <2>3, <2>5, <2>6, RowStep
<1>8. ASSUME NEW r \in Request, \/ IdentifyStart(r) \/ SnapshotTaken(r) \/ IdentifyComplete(r)
                                \/ Difference(r) \/ DecoSilent(r) PROVE NamesInv'
  <2>1. UNCHANGED rowVars
    BY <1>8 DEF IdentifyStart, SnapshotTaken, IdentifyComplete, Difference, DecoSilent
  <2>2. CASE IdentifyStart(r) \/ DecoSilent(r)
    BY <2>1, <2>2, IdentifyStep DEF IdentifyStart, DecoSilent
  <2>3. CASE SnapshotTaken(r) \/ IdentifyComplete(r) \/ Difference(r)
    BY <2>1, <2>3, IdentifyStep
  <2> QED BY <1>8, <2>2, <2>3
<1>9. CASE NamesRestart
  <2>1. /\ UNCHANGED <<friendly, known, link, started, completed>> /\ before' = 0
        /\ import' = NoImport /\ ScanInv'
    BY <1>9 DEF NamesRestart, ScanInv
  <2>2. ImportInv'
    BY <2>1 DEF ImportInv, NoImport, Kinds
  <2> QED BY <1>0, <2>1, <2>2 DEF NamesInv, LinksInv, CompletedOnce
<1>10. CASE UNCHANGED nameVars
  BY <1>10, IdentifyStep DEF nameVars, identifyVars
<1> QED BY <1>1, <1>2, <1>3, <1>4, <1>5, <1>6, <1>7, <1>8, <1>9, <1>10 DEF NamesNext, Choice, Scanning

LEMMA NamesInvAlways == PartsSpec => []NamesInv
<1>1. PartsInit => NamesInv
    BY NamesInvInit DEF PartsInit
<1>2. NamesInv /\ [PartsNext]_partVars => NamesInv'
    BY NamesInvStep, NamesPart
<1> QED BY <1>1, <1>2, PartsSafety, PTL

(* An identification answers at most once (routes/alexa.py 965-1077). *)
THEOREM CompletedAlways == PartsSpec => []CompletedOnce
<1>1. NamesInv => CompletedOnce
    BY DEF NamesInv
<1> QED BY <1>1, NamesInvAlways, PTL

(* No import replaces a chosen name unless asked to (correlation_service.py
   341-411; import-mac-addresses in routes/alexa.py; the imports of
   routes/deco.py).                                                         *)
THEOREM ChosenNamesAlways == PartsSpec => ChosenNamesKept
<1> DEFINE Spared(d) ==
      /\ friendly[d] = "user" /\ friendly'[d] # "user"
      /\ import.kind # "overwrite"
      => Choice \/ Scanning
<1>1. ASSUME NamesInv, [NamesNext]_nameVars, NEW d \in Device PROVE Spared(d)
  <2>1. SUFFICES ASSUME friendly[d] = "user", friendly'[d] # "user", import.kind # "overwrite",
                        ~Choice, ~Scanning
                 PROVE  FALSE
      OBVIOUS
  <2>2. PICK i \in import.todo : SyncItem(i) \/ LookItem(i) \/ MacItem(i) \/ DecoItem(i)
    BY <1>1, <2>1 DEF NamesNext, nameVars, rowVars, Start, NamesRestart, SaveAlexaDevice, Link, Unlink,
       IdentifyStart, SnapshotTaken, IdentifyComplete, Difference, DecoSilent, ImportStep
  <2>3. friendly \in [Device -> Name \cup {"absent"}] /\ i.d \in Device /\ Fits(friendly, import.kind, i)
    BY <1>1 DEF NamesInv, ImportInv, Items
  <2>4. CASE SyncItem(i)
    BY <2>1, <2>3, <2>4 DEF SyncItem, Named, Fits
  <2>5. CASE LookItem(i)
    BY <2>1, <2>5 DEF LookItem
  <2>6. CASE MacItem(i)
    BY <2>1, <2>3, <2>6 DEF MacItem, Named, Fits
  <2>7. CASE DecoItem(i)
    BY <2>1, <2>3, <2>7 DEF DecoItem, Named
  <2> QED BY <2>2, <2>4, <2>5, <2>6, <2>7
<1>2. NamesInv /\ [PartsNext]_partVars => [\A d \in Device : Spared(d)]_nameVars
    BY <1>1, NamesPart
<1> QED BY <1>2, NamesInvAlways, PartsSafety, PTL DEF ChosenNamesKept

(* A link the user made stays until the user removes it, and its two rows
   stay with it (correlation_service.py, routes/alexa.py; main.py, DELETE
   /api/devices).                                                           *)
THEOREM ManualLinksAlways == PartsSpec => ManualLinksKept
<1> DEFINE Lost(p) ==
      /\ link[p] = "manual"
      /\ link'[p] # "manual" \/ p[1] \notin known' \/ friendly'[p[2]] = "absent"
<1>1. ASSUME NamesInv, NamesInv', [NamesNext]_nameVars, NEW p \in Pair, Lost(p)
      PROVE  \E e \in Endpoint, d \in Device : Unlink(e, d)
  <2>1. PICK e \in Endpoint, d \in Device : p = <<e, d>>
    BY DEF Pair
  <2>2. link'[p] = "none" \/ link'[p] = "auto"
    BY <1>1, <2>1 DEF NamesInv, LinksInv
  <2>3. SUFFICES ASSUME \A f \in Endpoint, c \in Device : ~Unlink(f, c) PROVE FALSE
    OBVIOUS
  <2>4. link[p] = "manual" /\ link' # link /\ link \in [Pair -> {"none", "manual", "auto"}]
    BY <1>1, <2>2 DEF NamesInv, LinksInv
  <2>5. CASE \E f \in Endpoint, c \in Device : Link(f, c)
    BY <2>2, <2>4, <2>5 DEF Link, Pair
  <2>6. CASE ImportStep
    BY <2>2, <2>4, <2>6 DEF ImportStep, SyncItem, LookItem, MacItem, DecoItem, LinkAuto
  <2> QED BY <1>1, <2>3, <2>4, <2>5, <2>6 DEF NamesNext, nameVars, rowVars, Choice, Scanning, Rename,
       Delete, ScanLook, ScanName, Start, NamesRestart, SaveAlexaDevice,
       IdentifyStart, SnapshotTaken, IdentifyComplete, Difference, DecoSilent
<1>2. NamesInv /\ NamesInv' /\ [PartsNext]_partVars
      => [\A p \in Pair : Lost(p) => \E e \in Endpoint, d \in Device : Unlink(e, d)]_nameVars
    BY <1>1, NamesPart
<1> QED BY <1>2, NamesInvAlways, PartsSafety, PTL DEF ManualLinksKept

----------------------------------------------------------------------------
(* The booster: what is cached was a setting of it at most as long ago as the
   cache is old.                                                            *)
BoosterInv ==
    /\ booster \in Setting
    /\ since \in [Setting -> Nat] /\ since[booster] = 0
    /\ detail.age \in Nat
    /\ detail.age < TTL => detail.value \in Setting /\ since[detail.value] <= detail.age
    /\ AnswersRecent

LEMMA BoosterInvInit == BoosterInit => BoosterInv
BY HiBoostAssumption DEF BoosterInit, BoosterInv, AnswersRecent, Silent, Empty, Setting

LEMMA RequestsAreSettings == booster \in Setting => Requests \subseteq Setting
<1>1. \A g \in Accepted : Byte(g) = g
    BY HiBoostAssumption DEF Accepted, Byte
<1> QED BY <1>1 DEF Requests, Setting

(* What the last answer shows, if the cache is fresh or just renewed *)
Shown ==
    \/ out'.kind \notin {"shown", "recorded"}
    \/ out'.kind = "recorded" /\ out'.value = booster'
    \/ out'.kind = "shown" /\ out'.value = detail'.value /\ detail'.age < TTL

LEMMA FromCache ==
    ASSUME BoosterInv, Shown, booster' \in Setting, since' \in [Setting -> Nat], since'[booster'] = 0,
           detail'.age \in Nat,
           detail'.age < TTL => detail'.value \in Setting /\ since'[detail'.value] <= detail'.age
    PROVE  BoosterInv'
BY HiBoostAssumption DEF BoosterInv, AnswersRecent, Shown

LEMMA BoosterInvStep == BoosterInv /\ [BoosterNext]_boosterVars => BoosterInv'
<1> SUFFICES ASSUME BoosterInv, [BoosterNext]_boosterVars PROVE BoosterInv'
    OBVIOUS
<1>0. /\ booster \in Setting
      /\ since \in [Setting -> Nat] /\ since[booster] = 0
      /\ detail.age \in Nat
      /\ detail.age < TTL => detail.value \in Setting /\ since[detail.value] <= detail.age
      /\ TTL \in Nat /\ TTL > 0
    BY HiBoostAssumption DEF BoosterInv
<1>1. ASSUME \/ detail' = detail /\ Shown
             \/ detail' = [value |-> booster, age |-> 0] /\ Shown
             \/ detail' = Empty /\ Shown,
             UNCHANGED <<booster, since>>
      PROVE  BoosterInv'
    BY <1>0, <1>1, FromCache DEF Empty
<1>2. CASE Dashboard
    BY <1>1, <1>2 DEF Dashboard, Silent, Shown
<1>3. CASE Detail
    BY <1>0, <1>1, <1>3 DEF Detail, Shows, Silent, Shown
<1>4. CASE RefreshDetail
    BY <1>0, <1>1, <1>4 DEF RefreshDetail, Shows, Silent, Shown
<1>5. CASE Poll
  <2>1. /\ UNCHANGED <<booster, since>>
        /\ \/ detail' = detail /\ out' = Silent
           \/ detail' = [value |-> booster, age |-> 0] /\ out' = [kind |-> "recorded", value |-> booster]
           \/ detail' = Empty /\ out' = Silent
    BY <1>5, Zenon DEF Poll
  <2> QED BY <1>1, <2>1 DEF Silent, Shown
<1>6. ASSUME booster' \in Setting, NEW a, since' = Had(booster', a),
             detail' = Empty \/ (detail' = detail /\ ~a), Shown
      PROVE  BoosterInv'
    BY <1>0, <1>6, FromCache DEF Had, Empty
<1>7. CASE Update
  <2>1. PICK s \in Requests, r \in Post(token) :
          /\ booster' = IF r.applied THEN s ELSE booster
          /\ since' = Had(booster', r.call.ok)
          /\ IF r.call.ok THEN detail' = Empty ELSE UNCHANGED detail
          /\ out' = Silent
    BY <1>7 DEF Update
  <2> QED BY <1>0, <1>6, <2>1, RequestsAreSettings DEF Silent, Shown
<1>8. CASE Turned
    BY <1>6, <1>8 DEF Turned, Silent, Shown
<1>9. CASE Tick
  <2>1. /\ UNCHANGED booster /\ out' = Silent /\ detail' = [detail EXCEPT !.age = Aged(@)]
        /\ since' = [s \in Setting |-> IF s = booster THEN 0 ELSE Aged(since[s])]
    BY <1>9 DEF Tick
  <2> QED BY <1>0, <2>1, FromCache DEF Aged, Silent, Shown
<1>10. CASE (\E l \in {"right", "wrong"} : SaveLogin(l)) \/ RestartBooster \/ TokenEnds
    BY <1>1, <1>10 DEF SaveLogin, RestartBooster, TokenEnds, Silent, Shown
<1>11. CASE UNCHANGED boosterVars
    BY <1>11 DEF boosterVars, BoosterInv, AnswersRecent
<1> QED BY <1>2, <1>3, <1>4, <1>5, <1>7, <1>8, <1>9, <1>10, <1>11 DEF BoosterNext

(* What is shown of the booster is less than TTL old and not older than the
   last acknowledged write; what is recorded is what it has at that moment
   (hiboost_service.py 63-92, 108-186; hiboost_scheduler.py 60-80).         *)
THEOREM AnswersAlways == PartsSpec => []AnswersRecent
<1>1. PartsInit => BoosterInv
    BY BoosterInvInit DEF PartsInit
<1>2. BoosterInv /\ [PartsNext]_partVars => BoosterInv'
    BY BoosterInvStep, BoosterPart
<1>3. BoosterInv => AnswersRecent
    BY DEF BoosterInv
<1> QED BY <1>1, <1>2, <1>3, PartsSafety, PTL

----------------------------------------------------------------------------
(* Each listener is in the list once. *)
LEMMA ListedOnce ==
    ASSUME NEW S \in SUBSET (Configured \cup Stray)
    PROVE  /\ Listed[S] \in Seq(S)
           /\ \A i, j \in DOMAIN Listed[S] : Listed[S][i] = Listed[S][j] => i = j
           /\ \A s \in S : \E i \in DOMAIN Listed[S] : Listed[S][i] = s
<1> DEFINE Upto(s) == {t \in S : Place[t] <= Place[s]}
           n == Cardinality(S)
           Rank == [s \in S |-> Cardinality(Upto(s))]
<1>1. IsFiniteSet(S) /\ n \in Nat
    BY MonitorAssumption, FS_Subset, FS_CardinalityType
<1>2. ASSUME NEW s \in S PROVE IsFiniteSet(Upto(s)) /\ Rank[s] \in 1..n
  <2>1. IsFiniteSet(Upto(s)) /\ Cardinality(Upto(s)) <= n
    BY <1>1, FS_Subset, Upto(s) \in SUBSET S
  <2>2. Cardinality(Upto(s)) \in Nat
    BY <2>1, FS_CardinalityType
  <2>3. s \in Upto(s)
    BY MonitorAssumption
  <2>4. Cardinality(Upto(s)) # 0
    BY <2>1, <2>3, FS_EmptySet
  <2> HIDE DEF Upto, n
  <2>5. Cardinality(Upto(s)) \in 1..n
    BY <1>1, <2>1, <2>2, <2>4
  <2> QED BY <2>1, <2>5
<1>3. ASSUME NEW s \in S, NEW t \in S, Place[s] < Place[t] PROVE Rank[s] # Rank[t]
  <2>1. Upto(s) \in SUBSET Upto(t) /\ t \notin Upto(s) /\ t \in Upto(t)
    BY <1>3, MonitorAssumption
  <2>2. Cardinality(Upto(s)) # Cardinality(Upto(t))
    BY <1>2, <2>1, FS_Subset
  <2> QED BY <2>2
<1>4. Rank \in Injection(S, 1..n)
  <2>1. Rank \in [S -> 1..n]
    BY <1>2
  <2>2. ASSUME NEW s \in S, NEW t \in S, s # t PROVE Rank[s] # Rank[t]
    <3>1. Place[s] \in Nat /\ Place[t] \in Nat /\ Place[s] # Place[t]
      BY <2>2, MonitorAssumption
    <3>2. Place[s] < Place[t] \/ Place[t] < Place[s]
      BY <3>1
    <3> QED BY <1>3, <3>2
  <2> HIDE DEF Rank
  <2> QED BY <2>1, <2>2 DEF Injection, IsInjective
<1>5. IsFiniteSet(1..n) /\ Cardinality(1..n) = n
    BY <1>1, FS_Interval
<1>6. Rank \in Surjection(S, 1..n)
  <2> HIDE DEF Rank
  <2> QED BY <1>4, <1>5, FS_Injection
<1>7. \A i \in 1..n : \E s \in S : Rank[s] = i
  <2> HIDE DEF Rank
  <2> QED BY <1>6 DEF Surjection
<1>8. \A s, t \in S : Rank[s] = Rank[t] => s = t
  <2> HIDE DEF Rank
  <2> QED BY <1>4 DEF Injection, IsInjective
<1>9. Listed[S] = [i \in 1..n |-> CHOOSE s \in S : Cardinality(Upto(s)) = i]
    BY DEF Listed
<1>10. ASSUME NEW i \in 1..n PROVE Listed[S][i] \in S /\ Rank[Listed[S][i]] = i
  <2>1. \A s \in S : Rank[s] = Cardinality(Upto(s))
    OBVIOUS
  <2>2. Listed[S][i] = CHOOSE s \in S : Cardinality(Upto(s)) = i
    BY <1>9
  <2> HIDE DEF Rank, Upto
  <2> QED BY <1>7, <2>1, <2>2
<1>11. Listed[S] \in Seq(S) /\ DOMAIN Listed[S] = 1..n
  <2>1. DOMAIN Listed[S] = 1..n /\ Listed[S] \in [1..n -> S]
    BY <1>9, <1>10
  <2> HIDE DEF n
  <2> QED BY <1>1, <2>1
<1>12. \A s \in S : Rank[s] \in 1..n
    BY <1>2
<1> HIDE DEF Rank
<1> QED BY <1>8, <1>10, <1>11, <1>12

----------------------------------------------------------------------------
(* The i-th row is the newest of service s. *)
IsNewest(rows, i, s) ==
    /\ i \in DOMAIN rows /\ rows[i].service = s
    /\ \A j \in (i + 1)..Len(rows) : rows[j].service # s

LEMMA NewestOnly ==
    ASSUME NEW R, NEW rows \in Seq(R), NEW s, NEW i, IsNewest(rows, i, s)
    PROVE  Has(rows, s) /\ Newest(rows, s) = rows[i]
<1> DEFINE Chosen == CHOOSE k \in DOMAIN rows :
                        /\ rows[k].service = s
                        /\ \A j \in (k + 1)..Len(rows) : rows[j].service # s
<1>1. Chosen \in DOMAIN rows /\ rows[Chosen].service = s
      /\ \A j \in (Chosen + 1)..Len(rows) : rows[j].service # s
    BY DEF IsNewest
<1> HIDE DEF Chosen
<1>2. Chosen = i
    BY <1>1 DEF IsNewest
<1> QED BY <1>2 DEF Newest, Has, IsNewest, Chosen

LEMMA Least ==
    ASSUME NEW T \in SUBSET Nat, T # {}
    PROVE  \E n \in T : \A k \in T : n <= k
<1>1. \E x \in T : \A y \in T : ~(<<y, x>> \in OpToRel(<, Nat))
    BY NatLessThanWellFounded, WFMin
<1>2. PICK n \in T : \A y \in T : ~(<<y, n>> \in OpToRel(<, Nat))
    BY <1>1
<1>3. \A y \in T : ~(y < n)
    BY <1>2 DEF OpToRel
<1> QED BY <1>3

LEMMA NewestThere ==
    ASSUME NEW R, NEW rows \in Seq(R), NEW s, Has(rows, s)
    PROVE  \E i \in DOMAIN rows : IsNewest(rows, i, s)
<1> DEFINE T == {k \in Nat : k < Len(rows) /\ rows[Len(rows) - k].service = s}
<1>1. PICK i \in DOMAIN rows : rows[i].service = s
    BY DEF Has
<1>2. Len(rows) - i \in T
    BY <1>1
<1>3. PICK k \in T : \A m \in T : k <= m
    BY <1>2, Least
<1>4. k \in Nat /\ k < Len(rows) /\ rows[Len(rows) - k].service = s
    BY <1>3
<1>5. ASSUME NEW j \in (Len(rows) - k + 1)..Len(rows), rows[j].service = s PROVE FALSE
  <2>1. Len(rows) - j \in Nat /\ Len(rows) - j < k /\ Len(rows) - (Len(rows) - j) = j
    BY <1>4, <1>5
  <2>2. Len(rows) - j \in T
    BY <1>4, <1>5, <2>1
  <2> QED BY <1>3, <1>4, <2>1, <2>2
<1> HIDE DEF T
<1>6. Len(rows) - k \in DOMAIN rows
    BY <1>4, Len(rows) \in Nat
<1> WITNESS Len(rows) - k \in DOMAIN rows
<1> QED BY <1>4, <1>5, <1>6 DEF IsNewest

LEMMA Suffix ==
    ASSUME NEW R, NEW rows \in Seq(R), NEW d \in Nat, d <= Len(rows)
    PROVE  /\ SubSeq(rows, d + 1, Len(rows)) \in Seq(R)
           /\ Len(SubSeq(rows, d + 1, Len(rows))) = Len(rows) - d
           /\ \A i \in 1..(Len(rows) - d) : SubSeq(rows, d + 1, Len(rows))[i] = rows[i + d]
<1> DEFINE n    == Len(rows)
           kept == SubSeq(rows, d + 1, n)
<1>1. n \in Nat /\ d + 1 \in Int /\ \A i \in (d + 1)..n : rows[i] \in R
    BY LenProperties, ElementOfSeq
<1> HIDE DEF n
<1>2. /\ kept \in Seq(R)
      /\ Len(kept) = IF d + 1 <= n THEN n - (d + 1) + 1 ELSE 0
      /\ \A i \in 1..(n - (d + 1) + 1) : kept[i] = rows[d + 1 + i - 1]
    BY <1>1, SubSeqProperties
<1> HIDE DEF kept
<1>3. n - (d + 1) + 1 = n - d /\ d <= n
    BY <1>1 DEF n
<1>4. Len(kept) = n - d
    BY <1>1, <1>2, <1>3
<1>5. \A i \in 1..(n - d) : d + 1 + i - 1 = i + d
    BY <1>1
<1>6. \A i \in 1..(n - d) : kept[i] = rows[i + d]
    BY <1>2, <1>3, <1>5
<1> QED BY <1>2, <1>4, <1>6 DEF kept, n

(* What a table is after new rows came and the oldest went *)
LEMMA Grown ==
    ASSUME NEW R, NEW rows \in Seq(R), NEW new \in Seq(R)
    PROVE  /\ Kept(rows \o new) \in Seq(R)
           /\ \E d \in Nat :
                /\ Len(Kept(rows \o new)) = Len(rows) + Len(new) - d
                /\ \A i \in DOMAIN Kept(rows \o new) :
                      Kept(rows \o new)[i] = IF i + d <= Len(rows) THEN rows[i + d]
                                             ELSE new[i + d - Len(rows)]
<1> DEFINE all == rows \o new
           d == IF Len(all) > RowsKept THEN Len(all) - RowsKept ELSE 0
<1>1. all \in Seq(R) /\ Len(all) = Len(rows) + Len(new)
      /\ \A i \in 1..Len(all) : all[i] = IF i <= Len(rows) THEN rows[i] ELSE new[i - Len(rows)]
    OBVIOUS
<1> HIDE DEF all
<1>2. d \in Nat /\ d <= Len(all)
    BY <1>1, MonitorAssumption
<1>3. Kept(all) = SubSeq(all, d + 1, Len(all))
    BY <1>1, MonitorAssumption DEF Kept
<1> HIDE DEF d
<1>4. Kept(all) \in Seq(R) /\ Len(Kept(all)) = Len(all) - d
      /\ \A i \in 1..(Len(all) - d) : Kept(all)[i] = all[i + d]
  <2>1. /\ SubSeq(all, d + 1, Len(all)) \in Seq(R)
        /\ Len(SubSeq(all, d + 1, Len(all))) = Len(all) - d
        /\ \A i \in 1..(Len(all) - d) : SubSeq(all, d + 1, Len(all))[i] = all[i + d]
    BY <1>1, <1>2, Suffix, Zenon
  <2> QED BY <1>3, <2>1, Zenon
<1>5. \A i \in DOMAIN Kept(all) : Kept(all)[i] = IF i + d <= Len(rows) THEN rows[i + d]
                                             ELSE new[i + d - Len(rows)]
  <2> SUFFICES ASSUME NEW i \in 1..(Len(all) - d)
               PROVE  Kept(all)[i] = IF i + d <= Len(rows) THEN rows[i + d] ELSE new[i + d - Len(rows)]
      BY <1>4
  <2> DEFINE m == i + d
  <2>1. m \in 1..Len(all)
    BY <1>1, <1>2
  <2>2. Kept(all)[i] = all[m]
    BY <1>4
  <2> HIDE DEF m
  <2>3. all[m] = IF m <= Len(rows) THEN rows[m] ELSE new[m - Len(rows)]
    BY <1>1, <2>1
  <2> QED BY <1>1, <1>2, <2>1, <2>2, <2>3 DEF m
<1> QED BY <1>1, <1>2, <1>4, <1>5 DEF all

(* The newest row of a service comes from the new rows if it is among them,
   and is the newest of before if it is not.                                *)
LEMMA NewestGrown ==
    ASSUME NEW R, NEW rows \in Seq(R), NEW new \in Seq(R), NEW s,
           Has(Kept(rows \o new), s)
    PROVE  \/ \E k \in DOMAIN new :
                new[k].service = s /\ Newest(Kept(rows \o new), s) = new[k]
           \/ /\ Has(rows, s) /\ Newest(Kept(rows \o new), s) = Newest(rows, s)
              /\ \A k \in DOMAIN new : new[k].service # s
<1> DEFINE table == Kept(rows \o new)
<1>1. table \in Seq(R)
    BY Grown
<1>2. PICK d \in Nat :
         /\ Len(table) = Len(rows) + Len(new) - d
         /\ \A i \in DOMAIN table : table[i] = IF i + d <= Len(rows) THEN rows[i + d]
                                          ELSE new[i + d - Len(rows)]
    BY Grown
<1>3. Len(rows) \in Nat /\ Len(new) \in Nat /\ Len(table) \in Nat
      /\ DOMAIN rows = 1..Len(rows) /\ DOMAIN new = 1..Len(new) /\ DOMAIN table = 1..Len(table)
    BY <1>1
<1> HIDE DEF table
<1>4. PICK m \in DOMAIN table : IsNewest(table, m, s)
    BY <1>1, NewestThere DEF table
<1>5. Newest(table, s) = table[m]
    BY <1>1, <1>4, NewestOnly
<1>6. CASE m + d > Len(rows)
  <2>1. m + d - Len(rows) \in DOMAIN new /\ table[m] = new[m + d - Len(rows)]
    BY <1>2, <1>3, <1>6
  <2> QED BY <1>4, <1>5, <2>1 DEF IsNewest, table
<1>7. CASE m + d <= Len(rows)
  <2>1. m + d \in DOMAIN rows /\ table[m] = rows[m + d]
    BY <1>2, <1>3, <1>7
  <2>2. ASSUME NEW j \in (m + d + 1)..Len(rows) PROVE rows[j].service # s
    <3>1. j - d \in (m + 1)..Len(table) /\ j - d \in DOMAIN table /\ j - d + d = j /\ j <= Len(rows)
      BY <1>2, <1>3
    <3>2. table[j - d] = rows[j]
      BY <1>2, <3>1
    <3> QED BY <1>4, <3>1, <3>2 DEF IsNewest
  <2>3. ASSUME NEW k \in DOMAIN new PROVE new[k].service # s
    <3> DEFINE j == Len(rows) + k - d
    <3>1. j \in (m + 1)..Len(table) /\ j \in DOMAIN table /\ j + d - Len(rows) = k /\ ~(j + d <= Len(rows))
      BY <1>2, <1>3, <1>7
    <3> HIDE DEF j
    <3>2. table[j] = new[k]
      BY <1>2, <3>1
    <3> QED BY <1>4, <3>1, <3>2 DEF IsNewest
  <2>4. IsNewest(rows, m + d, s)
    BY <1>4, <2>1, <2>2 DEF IsNewest
  <2>5. Has(rows, s) /\ Newest(rows, s) = rows[m + d]
    BY <2>4, NewestOnly
  <2> QED BY <1>5, <2>1, <2>3, <2>5 DEF table
<1> QED BY <1>3, <1>6, <1>7

----------------------------------------------------------------------------
(* The invariant: a snapshot says something of each service it found, and
   the tables hold rows of services and statuses.                           *)
Service == Configured \cup Stray
Status  == {"healthy", "degraded", "down", "listening"}
Seen    == {<<>>} \cup UNION {[S -> Status] : S \in SUBSET Service}

Sample == [service : Service, status : Status]
Change == [service : Service, old : Status \cup {"none"}, new : Status]

MonitorInv ==
    /\ watch \in [Observer -> [at : {"idle", "looked", "checked"}, listening : SUBSET Service,
                               found : Seen]]
    /\ samples \in Seq(Sample) /\ events \in Seq(Change)
    /\ ChainUnbroken

LEMMA MonitorInvInit == MonitorInit => MonitorInv
BY DEF MonitorInit, MonitorInv, Unwatched, Seen, ChainUnbroken, Has

LEMMA SeenStatus ==
    ASSUME NEW f \in Seen
    PROVE  DOMAIN f \in SUBSET Service /\ \A s \in DOMAIN f : f[s] \in Status
BY DEF Seen

LEMMA PreviousStatus ==
    ASSUME samples \in Seq(Sample), NEW s
    PROVE  Previous(s) \in Status \cup {"none"}
<1>1. CASE Has(samples, s)
  <2>1. PICK i \in DOMAIN samples : IsNewest(samples, i, s)
    BY <1>1, NewestThere
  <2>2. Newest(samples, s) = samples[i] /\ samples[i] \in Sample
    BY <2>1, NewestOnly
  <2> QED BY <2>2 DEF Previous, Sample
<1> QED BY <1>1 DEF Previous

(* Recording carries the story on. *)
LEMMA RecordStep ==
    ASSUME MonitorInv, NEW o \in Observer, Record(o)
    PROVE  samples' \in Seq(Sample) /\ events' \in Seq(Change) /\ ChainUnbroken'
<1> DEFINE found == watch[o].found
           C == {s \in DOMAIN found : Previous(s) # found[s]}
           listed == Listed[DOMAIN found]
           changed == Listed[C]
           fresh == [i \in DOMAIN listed |-> [service |-> listed[i], status |-> found[listed[i]]]]
           told == [i \in DOMAIN changed |->
                       [service |-> changed[i], old |-> Previous(changed[i]), new |-> found[changed[i]]]]
<1>1. samples' = Kept(samples \o fresh) /\ events' = Kept(events \o told)
    BY DEF Record
<1>2. samples \in Seq(Sample) /\ events \in Seq(Change) /\ ChainUnbroken
    BY DEF MonitorInv
<1>3. DOMAIN found \in SUBSET Service /\ \A s \in DOMAIN found : found[s] \in Status
    BY SeenStatus DEF MonitorInv
<1>4. /\ listed \in Seq(DOMAIN found)
      /\ \A i, j \in DOMAIN listed : listed[i] = listed[j] => i = j
      /\ \A s \in DOMAIN found : \E i \in DOMAIN listed : listed[i] = s
    BY <1>3, ListedOnce DEF Service
<1>5. /\ changed \in Seq(C)
      /\ \A i, j \in DOMAIN changed : changed[i] = changed[j] => i = j
      /\ \A s \in C : \E i \in DOMAIN changed : changed[i] = s
  <2>1. C \in SUBSET (Configured \cup Stray)
    BY <1>3 DEF Service
  <2> HIDE DEF C
  <2> QED BY <2>1, ListedOnce
<1> HIDE DEF found, listed, changed
<1>6. fresh \in Seq(Sample)
  <2>1. DOMAIN listed = 1..Len(listed) /\ Len(listed) \in Nat
    BY <1>4
  <2>2. \A i \in DOMAIN listed : listed[i] \in DOMAIN found
    BY <1>4
  <2>3. fresh \in [1..Len(listed) -> Sample]
    BY <1>3, <2>1, <2>2 DEF Sample
  <2> HIDE DEF fresh
  <2> QED BY <2>1, <2>3
<1>7. told \in Seq(Change)
  <2>1. DOMAIN changed = 1..Len(changed) /\ Len(changed) \in Nat
    BY <1>5
  <2>2. \A i \in DOMAIN changed : changed[i] \in DOMAIN found
    BY <1>5
  <2>3. \A s : Previous(s) \in Status \cup {"none"}
    BY <1>2, PreviousStatus
  <2>4. told \in [1..Len(changed) -> Change]
    BY <1>3, <2>1, <2>2, <2>3 DEF Change
  <2> HIDE DEF told
  <2> QED BY <2>1, <2>4
<1>8. samples' \in Seq(Sample) /\ events' \in Seq(Change)
    BY <1>1, <1>2, <1>6, <1>7, Grown
<1>9. \A i \in DOMAIN fresh : fresh[i].service = listed[i] /\ fresh[i].status = found[listed[i]]
                            /\ listed[i] \in DOMAIN found
    BY <1>4
<1>10. \A i \in DOMAIN told : /\ told[i].service = changed[i] /\ told[i].old = Previous(changed[i])
                            /\ told[i].new = found[changed[i]] /\ changed[i] \in C
    BY <1>5
<1>11. DOMAIN fresh = DOMAIN listed /\ DOMAIN told = DOMAIN changed
    OBVIOUS
<1> HIDE DEF fresh, told
(* Each event begins where the one before it ended. *)
<1>12. ASSUME NEW j \in DOMAIN events'
       PROVE  /\ events'[j].old # events'[j].new
              /\ \A i \in 1..(j - 1) :
                    Follows(i, j)' => events'[j].old \in {events'[i].new, "none"}
  <2>1. PICK d \in Nat :
           /\ Len(events') = Len(events) + Len(told) - d
           /\ \A i \in DOMAIN events' : events'[i] = IF i + d <= Len(events) THEN events[i + d]
                                            ELSE told[i + d - Len(events)]
    BY <1>1, <1>2, <1>7, Grown
  <2>2. Len(events) \in Nat /\ Len(told) \in Nat /\ Len(events') \in Nat
        /\ DOMAIN events = 1..Len(events) /\ DOMAIN told = 1..Len(told)
        /\ DOMAIN events' = 1..Len(events')
    BY <1>2, <1>7, <1>8
  <2>3. CASE j + d <= Len(events)
    <3> DEFINE q == j + d
    <3>1. q \in DOMAIN events /\ events'[j] = events[q]
      BY <2>1, <2>2, <2>3
    <3>2. ASSUME NEW i \in 1..(j - 1), Follows(i, j)'
          PROVE  events'[j].old \in {events'[i].new, "none"}
      <4> DEFINE p == i + d
      <4>0. p \in 1..(q - 1) /\ i \in DOMAIN events' /\ i + d <= Len(events)
        BY <2>2, <2>3
      <4>1. p \in 1..(q - 1) /\ i \in DOMAIN events' /\ events'[i] = events[p]
        BY <2>1, <4>0
      <4>2. ASSUME NEW k \in (p + 1)..(q - 1) PROVE events[k].service # events[q].service
        <5>1. /\ k - d \in (i + 1)..(j - 1) /\ k - d \in DOMAIN events'
              /\ k - d + d = k /\ k <= Len(events)
          BY <2>2, <2>3
        <5>2. events'[k - d] = events[k]
          BY <2>1, <5>1
        <5> HIDE DEF q, p
        <5> QED BY <3>1, <3>2, <5>1, <5>2 DEF Follows
      <4> HIDE DEF p, q
      <4>3. Follows(p, q)
        BY <3>1, <3>2, <4>1, <4>2 DEF Follows
      <4>4. events[q].old \in {events[p].new, "none"}
        BY <1>2, <3>1, <4>1, <4>3 DEF ChainUnbroken
      <4> QED BY <3>1, <4>1, <4>4
    <3>3. events'[j].old # events'[j].new
      BY <1>2, <3>1 DEF ChainUnbroken
    <3> QED BY <3>2, <3>3
  <2>4. CASE j + d > Len(events)
    <3> DEFINE n == j + d - Len(events)
               s == changed[n]
    <3>1. n \in DOMAIN told /\ events'[j] = told[n]
      BY <2>1, <2>2, <2>4
    <3>2. /\ events'[j].service = s /\ events'[j].old = Previous(s) /\ events'[j].new = found[s]
          /\ s \in C
      BY <1>10, <3>1
    <3>3. ASSUME NEW i \in 1..(j - 1), Follows(i, j)'
          PROVE  events'[j].old \in {events'[i].new, "none"}
      <4>1. i \in DOMAIN events' /\ events'[i].service = s
        BY <2>2, <3>2, <3>3 DEF Follows
      <4>2. CASE i + d > Len(events)
        <5> DEFINE m == i + d - Len(events)
        <5>1. m \in DOMAIN told /\ events'[i] = told[m] /\ m # n
          BY <2>1, <2>2, <4>1, <4>2
        <5>2. changed[m] = changed[n]
          BY <1>10, <4>1, <5>1
        <5> HIDE DEF m, n
        <5> QED BY <1>5, <1>11, <3>1, <5>1, <5>2
      <4>3. CASE i + d <= Len(events)
        <5>1. i + d \in DOMAIN events /\ events'[i] = events[i + d]
          BY <2>1, <2>2, <4>1, <4>3
        <5>2. ASSUME NEW k \in (i + d + 1)..Len(events) PROVE events[k].service # s
          <6>1. k - d \in (i + 1)..(j - 1) /\ k - d \in DOMAIN events' /\ k - d + d = k /\ k <= Len(events)
            BY <2>1, <2>2, <2>4
          <6>2. events'[k - d] = events[k]
            BY <2>1, <6>1
          <6> QED BY <3>2, <3>3, <6>1, <6>2 DEF Follows
        <5>3. IsNewest(events, i + d, s)
          BY <4>1, <5>1, <5>2 DEF IsNewest
        <5>4. Has(events, s) /\ Newest(events, s) = events'[i]
          BY <1>2, <5>1, <5>3, NewestOnly
        <5>5. s \in Configured \cup Stray
          BY <1>3, <3>2 DEF Service
        <5> QED BY <1>2, <3>2, <5>4, <5>5 DEF ChainUnbroken
      <4> QED BY <2>2, <4>2, <4>3
    <3>4. events'[j].old # events'[j].new
      BY <3>2
    <3> QED BY <3>3, <3>4
  <2> QED BY <2>2, <2>3, <2>4
(* The last event of a service says what its newest sample says. *)
<1>13. ASSUME NEW s \in Configured \cup Stray, Has(events', s), Has(samples', s)
       PROVE  Newest(events', s).new = Newest(samples', s).status
  <2>1. \/ \E k \in DOMAIN fresh : fresh[k].service = s /\ Newest(samples', s) = fresh[k]
        \/ /\ Has(samples, s) /\ Newest(samples', s) = Newest(samples, s)
           /\ \A k \in DOMAIN fresh : fresh[k].service # s
    BY <1>1, <1>2, <1>6, <1>13, NewestGrown
  <2>2. \/ \E k \in DOMAIN told : told[k].service = s /\ Newest(events', s) = told[k]
        \/ /\ Has(events, s) /\ Newest(events', s) = Newest(events, s)
           /\ \A k \in DOMAIN told : told[k].service # s
    BY <1>1, <1>2, <1>7, <1>13, NewestGrown
  <2>3. Has(events, s) /\ Previous(s) # "none" => Newest(events, s).new = Previous(s)
    BY <1>2 DEF ChainUnbroken
  <2>4. CASE s \in DOMAIN found
    <3>1. Newest(samples', s).status = found[s] /\ found[s] # "none"
      BY <1>3, <1>4, <1>9, <1>11, <2>1, <2>4 DEF Status
    <3>2. CASE s \in C
      BY <1>5, <1>10, <1>11, <2>2, <3>1, <3>2
    <3>3. CASE s \notin C
      <4>1. Previous(s) = found[s]
        BY <2>4, <3>3
      <4> QED BY <1>10, <2>2, <2>3, <3>1, <3>3, <4>1
    <3> QED BY <3>2, <3>3
  <2>5. CASE s \notin DOMAIN found
    <3>1. Has(samples, s) /\ Newest(samples', s) = Newest(samples, s)
      BY <1>9, <2>1, <2>5
    <3>2. Has(events, s) /\ Newest(events', s) = Newest(events, s)
      BY <1>10, <2>2, <2>5
    <3>3. Previous(s) = Newest(samples, s).status
      BY <3>1 DEF Previous
    <3>4. Previous(s) # "none"
      <4>1. PICK i \in DOMAIN samples : IsNewest(samples, i, s)
        BY <1>2, <3>1, NewestThere
      <4>2. Newest(samples, s) = samples[i] /\ samples[i] \in Sample
        BY <1>2, <4>1, NewestOnly
      <4> QED BY <3>3, <4>2 DEF Sample, Status
    <3> QED BY <2>3, <3>1, <3>2, <3>3, <3>4
  <2> QED BY <2>4, <2>5
<1>14. ChainUnbroken'
  <2>1. \A s \in Configured \cup Stray :
          Has(events', s) /\ Previous(s)' # "none" => Newest(events', s).new = Previous(s)'
    BY <1>13 DEF Previous
  <2> QED BY <1>12, <2>1 DEF ChainUnbroken
<1> QED BY <1>8, <1>14

LEMMA MonitorInvStep == MonitorInv /\ [MonitorNext]_monitorVars => MonitorInv'
<1> SUFFICES ASSUME MonitorInv, [MonitorNext]_monitorVars PROVE MonitorInv'
    OBVIOUS
<1> DEFINE Watches == [Observer -> [at : {"idle", "looked", "checked"}, listening : SUBSET Service,
                                    found : Seen]]
<1>0. watch \in Watches
    BY DEF MonitorInv
<1>1. ASSUME UNCHANGED <<samples, events>>, watch' \in Watches PROVE MonitorInv'
    BY <1>1 DEF MonitorInv, ChainUnbroken, Follows, Previous
<1>2. Unwatched \in [at : {"idle", "looked", "checked"}, listening : SUBSET Service, found : Seen]
    BY DEF Unwatched, Seen
<1>3. CASE MachineChanges
    BY <1>0, <1>1, <1>3 DEF MachineChanges
<1>4. CASE MonitorRestart
    BY <1>1, <1>2, <1>4 DEF MonitorRestart
<1>5. ASSUME NEW o \in Observer, Look(o) PROVE MonitorInv'
  <2>1. CASE \E strays \in SUBSET Stray :
               watch' = [watch EXCEPT ![o] = [@ EXCEPT !.at = "looked",
                                              !.listening = Listeners \cup strays]]
    <3>1. PICK strays \in SUBSET Stray :
               watch' = [watch EXCEPT ![o] = [@ EXCEPT !.at = "looked",
                                              !.listening = Listeners \cup strays]]
      BY <2>1
    <3>2. Listeners \cup strays \in SUBSET Service
      BY DEF Listeners, Service
    <3>3. watch' \in Watches
      BY <1>0, <3>1, <3>2
    <3> QED BY <1>1, <1>5, <3>3 DEF Look
  <2>2. CASE watch' = [watch EXCEPT ![o].at = "looked"]
    BY <1>0, <1>1, <1>5, <2>2 DEF Look
  <2> QED BY <1>5, <2>1, <2>2 DEF Look
<1>6. ASSUME NEW o \in Observer, Check(o) PROVE MonitorInv'
  <2> DEFINE f == [s \in Configured \cup watch[o].listening |-> StatusOf(o, s)]
  <2>1. Configured \cup watch[o].listening \in SUBSET Service
    BY <1>0 DEF Service
  <2>2. f \in [Configured \cup watch[o].listening -> Status]
    BY DEF StatusOf, Status
  <2>3. f \in Seen
    BY <2>1, <2>2 DEF Seen
  <2>4. watch' = [watch EXCEPT ![o] = [@ EXCEPT !.at = "checked", !.found = f]]
    BY <1>6 DEF Check
  <2> HIDE DEF f
  <2>5. watch' \in Watches
    BY <1>0, <2>3, <2>4
  <2> QED BY <1>1, <1>6, <2>5 DEF Check
<1>7. ASSUME NEW o \in Observer, Record(o) PROVE MonitorInv'
  <2>1. watch' \in Watches
    BY <1>0, <1>2, <1>7 DEF Record
  <2> QED BY <1>7, <2>1, RecordStep DEF MonitorInv
<1>8. ASSUME NEW o \in Observer, Raises(o) PROVE MonitorInv'
    BY <1>0, <1>1, <1>2, <1>8 DEF Raises
<1>9. CASE UNCHANGED monitorVars
    BY <1>0, <1>1, <1>9 DEF monitorVars
<1> QED BY <1>3, <1>4, <1>5, <1>6, <1>7, <1>8, <1>9 DEF MonitorNext, Snapshot

(* The events kept of a service tell its story without a gap, however many
   observers record and wherever the tables are cut
   (local_service_monitor.py 136-157).                                      *)
THEOREM ChainAlways == PartsSpec => []ChainUnbroken
<1>1. PartsInit => MonitorInv
    BY MonitorInvInit DEF PartsInit
<1>2. MonitorInv /\ [PartsNext]_partVars => MonitorInv'
    BY MonitorInvStep, MonitorPart
<1>3. MonitorInv => ChainUnbroken
    BY DEF MonitorInv
<1> QED BY <1>1, <1>2, <1>3, PartsSafety, PTL

----------------------------------------------------------------------------
(* The pages of the Deco.  What a page may show depends on how long it has
   been kept, and what a handler has read on how long it has run: either is
   of an age that is bounded when it is read, and grows older from then on. *)
FreshNodes == (TopologyTTL - 1 + Slow) + Slow
FreshPage  == FreshNodes + (ViewTTL - 1) + Slow

FreshAge(v) ==
    CASE v = "settings" -> Slow
      [] v = "nodes"    -> FreshNodes
      [] OTHER          -> FreshPage

Composed == {"topology", "graph"}

ReadInv ==
    CASE handler.at = "enrich" ->
            /\ handler.for \in {"nodes"} \cup Composed
            /\ handler.data <= TopologyTTL - 1 + Slow + handler.ran
      [] handler.at = "topology" ->
            /\ handler.for \in Composed
            /\ handler.for = "topology" => handler.data <= FreshNodes + (ViewTTL - 1) + handler.ran
      [] handler.at = "page" ->
            /\ handler.for \in {"settings"} \cup Composed
            /\ handler.for = "settings" => handler.data <= handler.ran
            /\ handler.for # "settings" => handler.data <= FreshNodes + (ViewTTL - 1) + handler.ran
      [] handler.at = "nodes" -> handler.for \in {"nodes"} \cup Composed
      [] OTHER -> TRUE

AgesInv ==
    /\ PagesTypeOK
    /\ \A v \in View : Cached(v) => page[v].data <= FreshAge(v) + page[v].kept
    /\ ReadInv

LEMMA PagesPart == [PartsNext]_partVars => [PagesNext]_pageVars
BY DEF PartsNext, partVars, houseVars, Migrating, Cleaning, Alarming, Granting, Naming,
       Monitoring, Boosting, Paging

LEMMA FreshAges ==
    /\ TopologyTTL \in Nat \ {0} /\ ViewTTL \in Nat \ {0} /\ Slow \in Nat
    /\ FreshNodes \in Nat /\ FreshPage \in Nat /\ FreshNodes <= FreshPage
    /\ \A v \in View : FreshAge(v) \in Nat
BY PagesAssumption DEF PagesAssumption, FreshNodes, FreshPage, FreshAge

LEMMA AgesInvInit == PagesInit => AgesInv
BY PagesAssumption DEF PagesAssumption, PagesInit, AgesInv, PagesTypeOK, ReadInv, Cached, NoPage,
   NoHandler

LEMMA AgesImply == AgesInv => AgesStack
<1> SUFFICES ASSUME AgesInv, NEW v \in View, Cached(v)
             PROVE  page[v].data <= AgeLimit(v)
    BY DEF AgesStack
<1>1. page[v].data \in Nat /\ page[v].kept \in Nat /\ page[v].kept < ViewTTL
    BY DEF AgesInv, PagesTypeOK, Cached
<1>2. page[v].data <= FreshAge(v) + page[v].kept
    BY DEF AgesInv
<1> QED BY <1>1, <1>2, FreshAges DEF FreshAge, FreshPage, FreshNodes, AgeLimit

(* A handler that goes on leaves the pages alone, and what it has read since
   is of a bounded age.                                                     *)
LEMMA HandlerGoesOn ==
    ASSUME AgesInv, page' = page, PagesTypeOK', ReadInv'
    PROVE  AgesInv'
BY DEF AgesInv, Cached, FreshAge, FreshPage, FreshNodes

(* Writing one page leaves the others as they were. *)
LEMMA PageStamped ==
    ASSUME AgesInv, PagesTypeOK', ReadInv', NEW v \in View, NEW p,
           page' = [page EXCEPT ![v] = p],
           p = NoPage \/ (\E a \in Nat : a <= FreshAge(v) /\ p = Stamped(a))
    PROVE  AgesInv'
<1>1. \A u \in View : page'[u] = IF u = v THEN p ELSE page[u]
    BY DEF AgesInv, PagesTypeOK
<1>2. p.kept < ViewTTL => p.data <= FreshAge(v) + p.kept
    BY FreshAges DEF NoPage, Stamped
<1> QED BY <1>1, <1>2 DEF AgesInv, Cached, FreshAge, FreshPage, FreshNodes

LEMMA AgesInvStep == AgesInv /\ [PagesNext]_pageVars => AgesInv'
<1> SUFFICES ASSUME AgesInv, [PagesNext]_pageVars PROVE AgesInv'
    OBVIOUS
<1> DEFINE Entry == [data : Nat, kept : 0..ViewTTL]
           At    == {"idle", "nodes", "enrich", "topology", "page"}
<1>0. /\ page \in [View -> Entry] /\ ReadInv
      /\ handler \in [for : View \cup {"none"}, at : At, data : Nat, ran : 0..Slow]
      /\ \A v \in View : Cached(v) => page[v].data <= FreshAge(v) + page[v].kept
    BY DEF AgesInv, PagesTypeOK
<1>a. NoPage \in Entry /\ \A a \in Nat : Stamped(a) \in Entry
    BY FreshAges DEF NoPage, Stamped
<1>b. ASSUME handler' = NoHandler
      PROVE  ReadInv' /\ (page' \in [View -> Entry] => PagesTypeOK')
    BY <1>b, FreshAges DEF NoHandler, ReadInv, PagesTypeOK
<1>c. ASSUME NEW age \in Nat, WithNodes(age), age <= FreshNodes + (ViewTTL - 1),
             handler.for \in {"nodes"} \cup Composed
      PROVE  ReadInv' /\ (page' \in [View -> Entry] => PagesTypeOK')
  <2>1. CASE handler.for = "nodes"
    BY <1>b, <1>c, <2>1 DEF WithNodes
  <2>2. CASE handler.for \in Composed
    <3>1. PICK at \in {"topology", "page"} : /\ handler' = [handler EXCEPT !.at = at, !.data = age]
                                             /\ at = "topology" => handler.for = "topology"
                                             /\ at = "page" => handler.for = "graph"
      BY <1>c, <2>2 DEF WithNodes, Composed
    <3>2. /\ handler'.for = handler.for /\ handler'.at = at /\ handler'.data = age
          /\ handler'.ran = handler.ran
          /\ handler' \in [for : View \cup {"none"}, at : At, data : Nat, ran : 0..Slow]
      BY <1>0, <3>1
    <3>3. age <= FreshNodes + (ViewTTL - 1) + handler.ran
      BY <1>0, <1>c, FreshAges
    <3> QED BY <2>2, <3>1, <3>2, <3>3 DEF ReadInv, PagesTypeOK, Composed
  <2> QED BY <1>c, <2>1, <2>2
<1>1. ASSUME NEW v \in View, Handle(v)
      PROVE  ReadInv' /\ (page' \in [View -> Entry] => PagesTypeOK')
  <2>1. handler' = [for |-> v, at |-> FirstStep(v), data |-> 0, ran |-> 0]
    BY <1>1 DEF Handle, NoHandler
  <2>2. handler'.for = v /\ handler'.at = FirstStep(v) /\ handler'.data = 0 /\ handler'.ran = 0
    BY <2>1
  <2>3. v \in {"nodes", "settings"} \cup Composed
    BY DEF View, Composed
  <2>4. ReadInv'
    BY <2>2, <2>3, FreshAges DEF FirstStep, ReadInv, Composed
  <2>5. handler' \in [for : View \cup {"none"}, at : At, data : Nat, ran : 0..Slow]
    BY <2>1, FreshAges DEF FirstStep
  <2> QED BY <2>4, <2>5 DEF PagesTypeOK
<1>2. ASSUME NEW v \in View, AskPage(v) PROVE AgesInv'
    BY <1>0, <1>1, <1>2, HandlerGoesOn DEF AskPage
<1>3. CASE RefreshNodes
  <2>1. \A v \in View : page'[v] = IF v \in {"nodes", "settings"} THEN NoPage ELSE page[v]
    BY <1>0, <1>3 DEF RefreshNodes, View
  <2>2. page' \in [View -> Entry]
    BY <1>0, <1>3, <1>a DEF RefreshNodes
  <2>3. PagesTypeOK' /\ ReadInv'
    BY <1>1, <1>3, <2>2 DEF RefreshNodes, View
  <2>4. ~(NoPage.kept < ViewTTL)
    BY FreshAges DEF NoPage
  <2>5. \A v \in View : Cached(v)' => page'[v].data <= FreshAge(v) + page'[v].kept
    BY <1>0, <2>1, <2>4 DEF Cached
  <2>6. \A v \in View : FreshAge(v)' = FreshAge(v)
    BY DEF FreshAge, FreshPage, FreshNodes
  <2> QED BY <2>3, <2>5, <2>6 DEF AgesInv
<1>4. CASE ReadNodes
  <2>0. handler.for \in {"nodes"} \cup Composed
    BY <1>0, <1>4 DEF ReadNodes, ReadInv
  <2>1. CASE Cached("nodes") /\ WithNodes(page["nodes"].data)
    <3>1. /\ page["nodes"].data \in Nat /\ page["nodes"].kept \in Nat /\ page["nodes"].kept < ViewTTL
          /\ page["nodes"].data <= FreshNodes + page["nodes"].kept
      BY <1>0, <2>1 DEF Cached, FreshAge, View
    <3>2. page["nodes"].data <= FreshNodes + (ViewTTL - 1)
      BY <3>1, FreshAges
    <3> QED BY <1>0, <1>4, <1>c, <2>0, <2>1, <3>1, <3>2, HandlerGoesOn DEF ReadNodes
  <2>2. ASSUME NEW t \in TopologyAge, handler' = [handler EXCEPT !.at = "enrich", !.data = t]
        PROVE  AgesInv'
    <3>1. t \in Nat /\ t <= TopologyTTL - 1 + Slow
      BY FreshAges DEF TopologyAge
    <3>2. /\ handler'.for = handler.for /\ handler'.at = "enrich" /\ handler'.data = t
          /\ handler'.ran = handler.ran
          /\ handler' \in [for : View \cup {"none"}, at : At, data : Nat, ran : 0..Slow]
      BY <1>0, <2>2, <3>1
    <3>3. t <= TopologyTTL - 1 + Slow + handler.ran
      BY <1>0, <3>1, FreshAges
    <3>4. ReadInv' /\ PagesTypeOK'
      BY <1>0, <1>4, <2>0, <3>2, <3>3 DEF ReadInv, PagesTypeOK, ReadNodes
    <3> QED BY <1>4, <3>4, HandlerGoesOn DEF ReadNodes
  <2> QED BY <1>4, <2>1, <2>2 DEF ReadNodes
<1>5. CASE StampNodes
  <2> DEFINE a == handler.data
  <2>1. /\ a \in Nat /\ a <= FreshNodes /\ handler.for \in {"nodes"} \cup Composed
    BY <1>0, <1>5, FreshAges DEF StampNodes, ReadInv, FreshNodes
  <2>2. PICK n \in {Stamped(a), NoPage} : page' = [page EXCEPT !["nodes"] = n]
    BY <1>5 DEF StampNodes
  <2>3. page' \in [View -> Entry]
    BY <1>0, <1>a, <2>1, <2>2
  <2>4. a <= FreshNodes + (ViewTTL - 1)
    BY <2>1, FreshAges
  <2>5. ReadInv' /\ PagesTypeOK'
    BY <1>5, <1>c, <2>1, <2>3, <2>4 DEF StampNodes
  <2>6. "nodes" \in View /\ FreshAge("nodes") = FreshNodes
    BY DEF View, FreshAge
  <2> QED BY <2>1, <2>2, <2>5, <2>6, PageStamped
<1>6. CASE ReadTopology
  <2>0. handler.for \in Composed
    BY <1>0, <1>6 DEF ReadTopology, ReadInv
  <2>1. ASSUME NEW t \in TopologyAge,
               handler' = [handler EXCEPT !.at = "page",
                  !.data = IF handler.for = "graph" THEN t ELSE Oldest(@, t)]
        PROVE  AgesInv'
    <3> DEFINE d == IF handler.for = "graph" THEN t ELSE Oldest(handler.data, t)
    <3>1. t \in Nat /\ t <= FreshNodes
      BY FreshAges DEF TopologyAge, FreshNodes
    <3>2. t <= FreshNodes + (ViewTTL - 1) + handler.ran
      BY <1>0, <3>1, FreshAges
    <3>3. handler.for = "topology" => handler.data <= FreshNodes + (ViewTTL - 1) + handler.ran
      BY <1>0, <1>6 DEF ReadTopology, ReadInv
    <3>4. d \in Nat /\ d <= FreshNodes + (ViewTTL - 1) + handler.ran
      BY <1>0, <2>0, <3>1, <3>2, <3>3 DEF Oldest, Composed
    <3> HIDE DEF d
    <3>5. handler' = [handler EXCEPT !.at = "page", !.data = d]
      BY <1>0, <2>1 DEF d
    <3>6. /\ handler'.for = handler.for /\ handler'.at = "page" /\ handler'.data = d
          /\ handler'.ran = handler.ran
          /\ handler' \in [for : View \cup {"none"}, at : At, data : Nat, ran : 0..Slow]
      BY <1>0, <3>4, <3>5
    <3>7. ReadInv' /\ PagesTypeOK'
      BY <1>0, <1>6, <2>0, <3>4, <3>6 DEF ReadInv, PagesTypeOK, ReadTopology, Composed
    <3> QED BY <1>6, <3>7, HandlerGoesOn DEF ReadTopology
  <2>2. ASSUME handler' = [handler EXCEPT !.at = IF handler.for = "graph" THEN "nodes" ELSE "page"]
        PROVE  AgesInv'
    <3>1. /\ handler'.for = handler.for /\ handler'.data = handler.data /\ handler'.ran = handler.ran
          /\ handler'.at = IF handler.for = "graph" THEN "nodes" ELSE "page"
          /\ handler' \in [for : View \cup {"none"}, at : At, data : Nat, ran : 0..Slow]
      BY <1>0, <2>2
    <3>2. handler.for = "topology" => handler.data <= FreshNodes + (ViewTTL - 1) + handler.ran
      BY <1>0, <1>6 DEF ReadTopology, ReadInv
    <3>3. ReadInv' /\ PagesTypeOK'
      BY <1>0, <1>6, <2>0, <3>1, <3>2 DEF ReadInv, PagesTypeOK, ReadTopology, Composed
    <3> QED BY <1>6, <3>3, HandlerGoesOn DEF ReadTopology
  <2> QED BY <1>6, <2>1, <2>2 DEF ReadTopology
<1>7. CASE StampPage
  <2> DEFINE v == handler.for
  <2>1. v \in {"settings"} \cup Composed /\ v \in View
    BY <1>0, <1>7 DEF StampPage, ReadInv, Composed, View
  <2>2. handler.data \in Nat /\ handler.data <= FreshAge(v)
    BY <1>0, <1>7, <2>1, FreshAges DEF StampPage, ReadInv, FreshAge, FreshPage, Composed
  <2>3. page' \in [View -> Entry]
    BY <1>0, <1>7, <1>a, <2>2 DEF StampPage
  <2>4. ReadInv' /\ PagesTypeOK'
    BY <1>7, <1>b, <2>3 DEF StampPage
  <2>5. page' = [page EXCEPT ![v] = Stamped(handler.data)]
    BY <1>7 DEF StampPage
  <2> HIDE DEF v
  <2> QED BY <2>1, <2>2, <2>4, <2>5, PageStamped
<1>8. CASE GiveUp
    BY <1>0, <1>8, <1>b, HandlerGoesOn DEF GiveUp
<1>9. CASE TimePasses
  <2>1. ReadInv' /\ PagesTypeOK'
    <3>1. page' \in [View -> Entry]
      BY <1>0, <1>9, <1>a, FreshAges DEF TimePasses
    <3>2. CASE ~Busy
      BY <1>0, <1>9, <3>1, <3>2 DEF TimePasses, ReadInv, PagesTypeOK
    <3>3. CASE Busy
      <4>1. handler' = [handler EXCEPT !.data = @ + 1, !.ran = @ + 1] /\ handler.ran < Slow
        BY <1>9, <3>3 DEF TimePasses
      <4>2. handler.data + 1 \in Nat /\ handler.ran + 1 \in 0..Slow
        BY <1>0, <4>1, FreshAges
      <4>3. /\ handler'.for = handler.for /\ handler'.at = handler.at
            /\ handler'.data = handler.data + 1 /\ handler'.ran = handler.ran + 1
            /\ handler' \in [for : View \cup {"none"}, at : At, data : Nat, ran : 0..Slow]
        BY <1>0, <4>1, <4>2, Zenon
      <4>4. handler.data \in Nat /\ handler.ran \in Nat
        BY <1>0
      <4> QED BY <1>0, <3>1, <4>3, <4>4, FreshAges DEF ReadInv, PagesTypeOK
    <3> QED BY <3>2, <3>3
  <2>2. ASSUME NEW v \in View, page'[v].kept < ViewTTL
        PROVE  page'[v].data <= FreshAge(v) + page'[v].kept
    <3>1. page[v].kept + 1 < ViewTTL /\ page'[v] = [data |-> page[v].data + 1, kept |-> page[v].kept + 1]
      BY <1>9, <2>2, FreshAges DEF TimePasses, NoPage
    <3>2. page[v].data \in Nat /\ page[v].kept \in Nat
      BY <1>0
    <3>3. page[v].data <= FreshAge(v) + page[v].kept
      BY <1>0, <3>1, <3>2, FreshAges DEF Cached
    <3> QED BY <3>1, <3>2, <3>3, FreshAges
  <2>3. \A v \in View : FreshAge(v)' = FreshAge(v)
    BY DEF FreshAge, FreshPage, FreshNodes
  <2> QED BY <2>1, <2>2, <2>3 DEF AgesInv, Cached
<1>10. CASE UNCHANGED pageVars
    BY <1>10 DEF pageVars, AgesInv, PagesTypeOK, ReadInv, Cached, FreshAge, FreshPage, FreshNodes
<1> QED BY <1>2, <1>3, <1>4, <1>5, <1>6, <1>7, <1>8, <1>9, <1>10 DEF PagesNext

(* No page that is shown from its cache is older than the lifetimes of the
   caches it was built through and its own, and the durations of the requests
   that filled them, add up to, in whatever order pages are asked for, built,
   refreshed and given up (deco_service.py 73-168, routes/deco.py 854-1108). *)
THEOREM AgesStackAlways == PartsSpec => []AgesStack
<1>1. PartsInit => AgesInv
    BY AgesInvInit DEF PartsInit
<1>2. AgesInv /\ [PartsNext]_partVars => AgesInv'
    BY AgesInvStep, PagesPart
<1> QED BY <1>1, <1>2, AgesImply, PartsSafety, PTL

=============================================================================
