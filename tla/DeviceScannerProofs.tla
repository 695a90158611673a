------------------------- MODULE DeviceScannerProofs -------------------------
(* What holds of the device inventory for every network, every set of
   scanners and every number of scans, crashes and errors.                  *)
EXTENDS DeviceScanner, FiniteSetTheorems, TLAPS

LEMMA IdleTyped ==
    ASSUME NEW seen \in SUBSET Mac,
           NEW out \in {"none", "complete", "skipped", "failed"}
    PROVE  Idle(seen, out) \in ScanState
  BY ConstantsAssumption DEF ConstantsAssumption, Idle, ScanState, Phases

LEMMA ToTyped ==
    ASSUME NEW s \in Scanners, NEW rec \in ScanState,
           scan \in [Scanners -> ScanState], To(s, rec)
    PROVE  scan' \in [Scanners -> ScanState]
  BY DEF To

LEMMA RaiseTyped ==
    ASSUME TypeOK, NEW s \in Scanners, Raise(s)
    PROVE  scan' \in [Scanners -> ScanState]
<1>1. [Call(s) EXCEPT !.pc = "next", !.todo = {}] \in ScanState
  BY ZenonT(30) DEF TypeOK, ScanState, Call
<1>2. Idle(scan[s].seen, "failed") \in ScanState
  BY IdleTyped DEF TypeOK, ScanState
<1> QED
  BY <1>1, <1>2, ToTyped DEF Raise, TypeOK

LEMMA ResumeTyped ==
    ASSUME TypeOK, NEW s \in Scanners, Resume(s)
    PROVE  scan' \in [Scanners -> ScanState]
<1>1. [Call(s) EXCEPT !.pc = "next", !.todo = @ \ {scan[s].cur},
                      !.seen = IF scan[s].phase \in {"sweep", "revive"} THEN @
                               ELSE @ \cup {scan[s].cur}] \in ScanState
  BY ZenonT(30) DEF TypeOK, ScanState, Call
<1> QED
  BY <1>1, ToTyped DEF Resume, TypeOK

(* Every step keeps the types; IdInv says which events call for an alert. *)
LEMMA TypeStep == TypeOK /\ IdInv /\ [Next]_vars => TypeOK'
<1> SUFFICES ASSUME TypeOK, IdInv, [Next]_vars PROVE TypeOK'
  OBVIOUS
<1> USE ConstantsAssumption DEF ConstantsAssumption
<1>1. ASSUME NEW s \in Scanners, StartScan(s) PROVE TypeOK'
  <2>1. [Idle({}, "none") EXCEPT !.pc = "collect"] \in ScanState
    BY IdleTyped DEF ScanState
  <2> QED
    BY <1>1, <2>1, ToTyped DEF StartScan, TypeOK, db, hist
<1>2. ASSUME NEW s \in Scanners, ScanStep(s) PROVE TypeOK'
  <2> DEFINE S == Call(s)
  <2>0. S \in ScanState
    BY DEF TypeOK, Call
  <2>1. CASE Collect(s)
    <3>1. \A merged \in SUBSET Mac :
            [Call(s) EXCEPT !.pc = "next", !.todo = merged,
                            !.heard = merged # {}] \in ScanState
      BY <2>0 DEF ScanState
    <3> QED
      BY <2>1, <3>1, ToTyped DEF Collect, TypeOK, db, hist
  <2>2. CASE Lookup(s)
    <3>1. \A m \in Mac :
            [Call(s) EXCEPT
                !.cur = m, !.existed = Present(m),
                !.named = Present(m) /\ name[m] # None,
                !.pc = IF m \in scan[s].seen \/ In(s, "nodes")
                       THEN "name" ELSE "select"] \in ScanState
      BY ZenonT(30), <2>0 DEF ScanState, Present
    <3>2. scan[s].todo \subseteq Mac
      BY <2>0 DEF ScanState, Call
    <3> QED
      BY <2>2, <3>1, <3>2, ToTyped DEF Lookup, TypeOK, db, hist
  <2>3. CASE SelectRow(s)
    <3>1. [Call(s) EXCEPT !.pc = "write", !.rowed = Present(scan[s].cur)]
             \in ScanState
      BY ZenonT(30), <2>0 DEF ScanState, Present
    <3> QED
      BY <2>3, <3>1, ToTyped DEF SelectRow, TypeOK, db, hist
  <2>4. scan[s].cur \in Mac /\ scan[s].phase \in Phases /\ scan[s].seen \in SUBSET Mac
    BY <2>0 DEF ScanState, Call
  <2>5. CASE UpdateRow(s)
    <3>1. [Call(s) EXCEPT !.pc = "reread"] \in ScanState
      BY <2>0 DEF ScanState
    <3>2. status' \in [Mac -> RowStatus]
      BY <2>4, <2>5 DEF UpdateRow, TypeOK, RowStatus
    <3> QED
      BY <2>5, <3>1, <3>2, ToTyped DEF UpdateRow, TypeOK, hist
  <2>6. CASE InsertRow(s)
    <3>1. [Call(s) EXCEPT !.pc = "reread"] \in ScanState
      BY <2>0 DEF ScanState
    <3>2. scan' \in [Scanners -> ScanState]
      BY <2>6, <3>1, ToTyped, RaiseTyped DEF InsertRow, TypeOK
    <3>3. CASE Present(scan[s].cur)
      BY <2>6, <3>2, <3>3 DEF InsertRow, TypeOK, hist
    <3>4. CASE ~Present(scan[s].cur)
      <4>1. status' \in [Mac -> RowStatus] /\ name' \in [Mac -> {"none", "user", "source"}]
        BY <2>4, <2>6, <3>4 DEF InsertRow, TypeOK, RowStatus, None
      <4>2. (In(s, "merged") /\ ~scan[s].existed) \in BOOLEAN
        BY DEF In
      <4>3. owed' \in [Mac -> BOOLEAN]
        <5>1. owed' = [owed EXCEPT ![scan[s].cur] =
                         In(s, "merged") /\ ~scan[s].existed]
          BY <2>6, <3>4 DEF InsertRow
        <5> QED
          BY <2>4, <4>2, <5>1, Zenon DEF TypeOK
      <4>4. gone' \in [Mac -> Nat]
        BY <2>4, <2>6, <3>4 DEF InsertRow, TypeOK
      <4> QED
        BY <2>6, <3>2, <3>4, <4>1, <4>3, <4>4 DEF InsertRow, TypeOK
    <3> QED
      BY <3>3, <3>4
  <2>7. CASE RereadRow(s)
    <3>1. [Call(s) EXCEPT !.pc = "name"] \in ScanState
      BY <2>0 DEF ScanState
    <3>2. scan' \in [Scanners -> ScanState]
      BY <2>7, <3>1, ToTyped, RaiseTyped, ResumeTyped DEF RereadRow, TypeOK
    <3> QED
      BY <2>7, <3>2 DEF RereadRow, TypeOK, db, hist
  <2>8. CASE NameRow(s)
    <3>1. [Call(s) EXCEPT !.pc = "event"] \in ScanState
      BY <2>0 DEF ScanState
    <3>2. scan' \in [Scanners -> ScanState]
      BY <2>8, <3>1, ToTyped, ResumeTyped DEF NameRow, TypeOK
    <3> QED
      BY <2>4, <2>8, <3>2 DEF NameRow, TypeOK, hist
  <2>9. EventKind(s) \in Kinds /\ (EventKind(s) \in Alerting <=> EventKind(s) # "connected")
    BY DEF EventKind, Kinds, Alerting
  <2>10. CASE RecordEvent(s)
    <3>0. issued + 1 \in Nat
      BY DEF TypeOK
    <3>1. [Call(s) EXCEPT !.pc = "alert", !.ev = issued + 1] \in ScanState
      BY <2>0, <3>0 DEF ScanState
    <3>2. scan' \in [Scanners -> ScanState]
      BY <2>10, <3>1, ToTyped, ResumeTyped DEF RecordEvent, WantsAlert, TypeOK
    <3>3. events' \subseteq [id : Nat, mac : Mac, kind : Kinds] /\ issued' \in Nat
      BY <2>4, <2>9, <2>10 DEF RecordEvent, WantsAlert, TypeOK
    <3> QED
      BY <2>10, <3>2, <3>3 DEF RecordEvent, WantsAlert, TypeOK, hist
  <2>11. CASE CreateAlert(s)
    <3>1. scan' \in [Scanners -> ScanState]
      BY <2>11, ResumeTyped DEF CreateAlert
    <3>2. EventKind(s) \in Alerting /\ scan[s].ev \in Nat
      BY <2>0, <2>11 DEF CreateAlert, IdInv, ScanState, Call
    <3>3. alerts' \subseteq [event : Nat, mac : Mac, kind : Alerting]
      BY <2>4, <2>11, <3>2 DEF CreateAlert, TypeOK
    <3> QED
      BY <2>11, <3>1, <3>3 DEF CreateAlert, TypeOK, hist
  <2>12. CASE AskClients(s)
    <3>1. \A found \in SUBSET Mac :
            [Call(s) EXCEPT !.phase = "clients", !.todo = found,
                            !.heard = @ \/ found # {}] \in ScanState
      BY <2>0 DEF ScanState, Phases
    <3> QED
      BY <2>12, <3>1, ToTyped DEF AskClients, TypeOK, db, hist
  <2>13. CASE AskNodes(s)
    <3>1. \A fresh \in SUBSET Node, used \in SUBSET Node :
            [Call(s) EXCEPT !.phase = "nodes", !.todo = fresh,
                            !.seen = @ \cup used,
                            !.heard = @ \/ fresh # {}] \in ScanState
      BY <2>0 DEF ScanState, Phases
    <3>2. [Call(s) EXCEPT !.phase = "nodes"] \in ScanState
      BY <2>0 DEF ScanState, Phases
    <3>3. scan' \in [Scanners -> ScanState] /\ nodeCache' \subseteq Node
      BY <2>13, <3>1, <3>2, ToTyped DEF AskNodes, TypeOK
    <3> QED
      BY <2>13, <3>3 DEF AskNodes, TypeOK, db, hist
  <2>14. CASE AskChester(s)
    <3>1. [Call(s) EXCEPT !.phase = "chester", !.pc = "select",
                          !.cur = Gateway, !.existed = TRUE,
                          !.seen = @ \cup {Gateway}, !.heard = TRUE]
             \in ScanState
      BY <2>0 DEF ScanState, Phases
    <3>2. [Call(s) EXCEPT !.phase = "chester"] \in ScanState
      BY <2>0 DEF ScanState, Phases
    <3> QED
      BY <2>14, <3>1, <3>2, ToTyped DEF AskChester, TypeOK, db, hist
  <2>15. CASE ListOnline(s)
    <3>1. [Call(s) EXCEPT !.phase = "sweep",
                          !.todo = Rows("online") \ scan[s].seen] \in ScanState
      BY <2>0 DEF ScanState, Phases, Rows
    <3>2. scan' \in [Scanners -> ScanState]
      BY <2>15, <3>1, IdleTyped, ToTyped DEF ListOnline, TypeOK
    <3> QED
      BY <2>15, <3>2 DEF ListOnline, TypeOK, db, hist
  <2>16. CASE MarkOffline(s)
    <3>1. \A m \in Mac : [Call(s) EXCEPT !.cur = m, !.pc = "event"] \in ScanState
      BY <2>0 DEF ScanState
    <3>2. scan[s].todo \subseteq Mac
      BY <2>0 DEF ScanState, Call
    <3>3. scan' \in [Scanners -> ScanState]
      BY <2>16, <3>1, <3>2, ToTyped DEF MarkOffline, TypeOK
    <3>4. status' \in [Mac -> RowStatus] /\ gone' \in [Mac -> Nat]
      BY <2>16, <3>2 DEF MarkOffline, TypeOK, RowStatus
    <3> QED
      BY <2>16, <3>3, <3>4 DEF MarkOffline, TypeOK
  <2>17. CASE ListOffline(s)
    <3>1. [Call(s) EXCEPT !.phase = "revive",
                          !.todo = Rows("offline") \cap scan[s].seen] \in ScanState
      BY <2>0 DEF ScanState, Phases, Rows
    <3> QED
      BY <2>17, <3>1, ToTyped DEF ListOffline, TypeOK, db, hist
  <2>18. CASE MarkOnline(s)
    <3>1. \A m \in Mac : [Call(s) EXCEPT !.cur = m, !.pc = "event"] \in ScanState
      BY <2>0 DEF ScanState
    <3>2. scan[s].todo \subseteq Mac
      BY <2>0 DEF ScanState, Call
    <3>3. scan' \in [Scanners -> ScanState]
      BY <2>18, <3>1, <3>2, ToTyped DEF MarkOnline, TypeOK
    <3>4. status' \in [Mac -> RowStatus]
      BY <2>18, <3>2 DEF MarkOnline, TypeOK, RowStatus
    <3> QED
      BY <2>18, <3>3, <3>4 DEF MarkOnline, TypeOK, hist
  <2>19. CASE Finish(s)
    BY <2>4, <2>19, IdleTyped, ToTyped DEF Finish, TypeOK, db, hist
  <2> QED
    BY <1>2, <2>1, <2>2, <2>3, <2>5, <2>6, <2>7, <2>8, <2>10, <2>11, <2>12,
       <2>13, <2>14, <2>15, <2>16, <2>17, <2>18, <2>19 DEF ScanStep
<1>3. ASSUME NEW s \in Scanners, Fault(s) PROVE TypeOK'
  BY <1>3, RaiseTyped, ResumeTyped DEF Fault, TypeOK, db, hist
<1>4. CASE Crash
  <2>1. scan' \in [Scanners -> ScanState]
    BY <1>4, IdleTyped DEF Crash
  <2> QED
    BY <1>4, <2>1 DEF Crash, TypeOK, db, hist
<1>5. ASSUME NEW m \in Mac, RenameDevice(m) PROVE TypeOK'
  BY <1>5 DEF RenameDevice, TypeOK, db, hist
<1>6. ASSUME NEW m \in Mac, DeleteDevice(m) PROVE TypeOK'
  BY <1>6 DEF DeleteDevice, TypeOK, db, hist, RowStatus, None
<1>7. CASE UNCHANGED vars
  BY <1>7 DEF vars, TypeOK, db, hist
<1>8. ASSUME NEW m \in Node, SyncNode(m) PROVE TypeOK'
  BY <1>8, ConstantsAssumption DEF ConstantsAssumption, SyncNode, TypeOK, RowStatus
<1> QED
  BY <1>1, <1>2, <1>3, <1>4, <1>5, <1>6, <1>7, <1>8 DEF Next

LEMMA TypeInit == Init => TypeOK
<1> SUFFICES ASSUME Init PROVE TypeOK
  OBVIOUS
<1>1. scan \in [Scanners -> ScanState]
  BY IdleTyped DEF Init
<1> QED
  BY <1>1 DEF Init, TypeOK, RowStatus, None

-----------------------------------------------------------------------------
(* Event ids: a scanner reaches the second statement of
   _record_device_event only through the first.                             *)

NoNewAlert ==
    \A t \in Scanners : scan'[t].pc = "alert" => scan'[t] = scan[t]

LEMMA ToQuiet ==
    ASSUME TypeOK, NEW s \in Scanners, NEW rec, rec.pc # "alert", To(s, rec)
    PROVE  NoNewAlert
  BY DEF To, NoNewAlert, TypeOK

LEMMA RaiseQuiet ==
    ASSUME TypeOK, NEW s \in Scanners, Raise(s)
    PROVE  NoNewAlert
<1>1. Idle(scan[s].seen, "failed").pc # "alert"
  BY DEF Idle
<1>2. [Call(s) EXCEPT !.pc = "next", !.todo = {}].pc # "alert"
  BY DEF TypeOK, ScanState, Call
<1> QED
  BY <1>1, <1>2, ToQuiet DEF Raise

LEMMA ResumeQuiet ==
    ASSUME TypeOK, NEW s \in Scanners, Resume(s)
    PROVE  NoNewAlert
<1> DEFINE rec == [Call(s) EXCEPT !.pc = "next", !.todo = @ \ {scan[s].cur},
                      !.seen = IF scan[s].phase \in {"sweep", "revive"} THEN @
                               ELSE @ \cup {scan[s].cur}]
<1>1. rec.pc # "alert"
  BY DEF TypeOK, ScanState, Call
<1>2. To(s, rec)
  BY DEF Resume
<1> HIDE DEF rec
<1> QED
  BY <1>1, <1>2, ToQuiet

(* A step that records no event and sends no scanner to its alert. *)
LEMMA IdFrame ==
    ASSUME TypeOK, IdInv, NoNewAlert, events' \subseteq events,
           issued' = issued
    PROVE  IdInv'
  BY DEF IdInv, NoNewAlert, At, EventKind, In

LEMMA IdStep == TypeOK /\ IdInv /\ [Next]_vars => IdInv'
<1> SUFFICES ASSUME TypeOK, IdInv, [Next]_vars PROVE IdInv'
  OBVIOUS
<1>1. ASSUME NEW s \in Scanners, StartScan(s) PROVE IdInv'
  <2>1. [Idle({}, "none") EXCEPT !.pc = "collect"].pc # "alert"
    BY DEF Idle
  <2> QED
    BY <1>1, <2>1, ToQuiet, IdFrame DEF StartScan, db
<1>2. ASSUME NEW s \in Scanners, ScanStep(s) PROVE IdInv'
  <2>0. Call(s) \in ScanState /\ Call(s) = scan[s]
    BY DEF TypeOK, Call
  <2>1. CASE Collect(s)
    <3>1. \A merged : [Call(s) EXCEPT !.pc = "next", !.todo = merged,
                                      !.heard = merged # {}].pc # "alert"
      BY <2>0 DEF ScanState
    <3> QED
      BY <2>1, <3>1, ToQuiet, IdFrame DEF Collect, db
  <2>2. CASE Lookup(s)
    <3>1. \A m : [Call(s) EXCEPT
                  !.cur = m, !.existed = Present(m),
                  !.named = Present(m) /\ name[m] # None,
                  !.pc = IF m \in scan[s].seen \/ In(s, "nodes")
                         THEN "name" ELSE "select"].pc # "alert"
      BY <2>0 DEF ScanState
    <3> QED
      BY <2>2, <3>1, ToQuiet, IdFrame DEF Lookup, db
  <2>3. CASE SelectRow(s)
    <3>1. [Call(s) EXCEPT !.pc = "write",
                          !.rowed = Present(scan[s].cur)].pc # "alert"
      BY <2>0 DEF ScanState
    <3> QED
      BY <2>3, <3>1, ToQuiet, IdFrame DEF SelectRow, db
  <2>4. [Call(s) EXCEPT !.pc = "reread"].pc # "alert"
    BY <2>0 DEF ScanState
  <2>5. CASE UpdateRow(s)
    BY <2>4, <2>5, ToQuiet, IdFrame DEF UpdateRow
  <2>6. CASE InsertRow(s)
    BY <2>4, <2>6, ToQuiet, RaiseQuiet, IdFrame DEF InsertRow
  <2>7. CASE RereadRow(s)
    <3>1. [Call(s) EXCEPT !.pc = "name"].pc # "alert"
      BY <2>0 DEF ScanState
    <3> QED
      BY <2>7, <3>1, ToQuiet, RaiseQuiet, ResumeQuiet, IdFrame
      DEF RereadRow, db
  <2>8. CASE NameRow(s)
    <3>1. [Call(s) EXCEPT !.pc = "event"].pc # "alert"
      BY <2>0 DEF ScanState
    <3> QED
      BY <2>8, <3>1, ToQuiet, ResumeQuiet, IdFrame DEF NameRow
  <2>9. CASE RecordEvent(s)
    <3>1. CASE Resume(s) /\ ~Present(scan[s].cur)
      BY <2>9, <3>1, ResumeQuiet, IdFrame DEF RecordEvent, WantsAlert
    <3>2. CASE Present(scan[s].cur)
      <4> DEFINE new == [id |-> issued + 1, mac |-> scan[s].cur,
                         kind |-> EventKind(s)]
                 rec == [Call(s) EXCEPT !.pc = "alert", !.ev = issued + 1]
      <4>1. issued \in Nat /\ issued' = issued + 1 /\ events' = events \cup {new}
        BY <2>9, <3>2 DEF RecordEvent, WantsAlert, TypeOK
      <4>2. \A e \in events' : e.id \in 1..issued'
        BY <4>1 DEF IdInv
      <4>3. \A t \in Scanners : At(t, "alert") =>
               scan[t].ev \in 1..issued /\ scan[t].ev # new.id
        BY <4>1 DEF IdInv
      <4>4. CASE Resume(s)
        <5>1. NoNewAlert
          BY <4>4, ResumeQuiet
        <5> QED
          BY <4>1, <4>2, <4>3, <5>1 DEF IdInv, NoNewAlert, At, EventKind, In
      <4>5. CASE EventKind(s) \in Alerting /\ To(s, rec)
        <5>1. rec.pc = "alert" /\ rec.ev = issued + 1 /\ rec.cur = scan[s].cur
              /\ rec.phase = scan[s].phase
          BY <2>0 DEF ScanState
        <5>2. scan'[s] = rec /\ \A t \in Scanners \ {s} : scan'[t] = scan[t]
          BY <4>5 DEF To, TypeOK
        <5>3. EventKind(s)' = EventKind(s)
          BY <5>1, <5>2 DEF EventKind, In
        <5>4. \A e \in events : e.id # issued + 1
          BY <4>1 DEF IdInv
        <5>5. ASSUME NEW t \in Scanners, At(t, "alert")'
              PROVE  /\ scan'[t].ev \in 1..issued'
                     /\ EventKind(t)' \in Alerting
                     /\ \A e \in events' : e.id = scan'[t].ev =>
                            e.mac = scan'[t].cur /\ e.kind = EventKind(t)'
          <6>1. CASE t = s
            <7>1. scan'[t].ev = issued + 1 /\ scan'[t].cur = scan[s].cur
              BY <5>1, <5>2, <6>1
            <7>2. EventKind(t)' = EventKind(s)
              BY <5>3, <6>1
            <7>3. scan'[t].ev \in 1..issued'
              BY <4>1, <7>1
            <7>4. EventKind(t)' \in Alerting
              BY <4>5, <7>2
            <7>5. \A e \in events' : e.id = scan'[t].ev => e = new
              BY <4>1, <5>4, <7>1
            <7> QED
              BY <7>1, <7>2, <7>3, <7>4, <7>5
          <6>2. CASE t # s
            <7>1. At(t, "alert") /\ scan'[t] = scan[t] /\ EventKind(t)' = EventKind(t)
              BY <5>2, <5>5, <6>2 DEF At, EventKind, In
            <7> QED
              BY <4>1, <4>3, <7>1 DEF IdInv
          <6> QED
            BY <6>1, <6>2
        <5> QED
          BY <4>2, <5>5, Zenon DEF IdInv, Alerting
      <4> QED
        BY <2>9, <3>2, <4>4, <4>5 DEF RecordEvent, WantsAlert
    <3> QED
      BY <2>9, <3>1, <3>2 DEF RecordEvent, WantsAlert
  <2>10. CASE CreateAlert(s)
    BY <2>10, ResumeQuiet, IdFrame DEF CreateAlert
  <2>12. CASE AskClients(s)
    <3>1. \A found :
            [Call(s) EXCEPT !.phase = "clients", !.todo = found,
                            !.heard = @ \/ found # {}].pc # "alert"
      BY <2>0, <2>12 DEF AskClients, Exhausted, ScanState, At
    <3> QED
      BY <2>12, <3>1, ToQuiet, IdFrame DEF AskClients, db
  <2>13. CASE AskNodes(s)
    <3>1. \A fresh, used :
            [Call(s) EXCEPT !.phase = "nodes", !.todo = fresh,
                            !.seen = @ \cup used,
                            !.heard = @ \/ fresh # {}].pc # "alert"
      BY <2>0, <2>13 DEF AskNodes, Exhausted, ScanState, At
    <3>2. [Call(s) EXCEPT !.phase = "nodes"].pc # "alert"
      BY <2>0, <2>13 DEF AskNodes, Exhausted, ScanState, At
    <3> QED
      BY <2>13, <3>1, <3>2, ToQuiet, IdFrame DEF AskNodes, db
  <2>14. CASE AskChester(s)
    <3>1. [Call(s) EXCEPT !.phase = "chester", !.pc = "select",
                          !.cur = Gateway, !.existed = TRUE,
                          !.seen = @ \cup {Gateway}, !.heard = TRUE].pc # "alert"
      BY <2>0 DEF ScanState
    <3>2. [Call(s) EXCEPT !.phase = "chester"].pc # "alert"
      BY <2>0, <2>14 DEF AskChester, Exhausted, ScanState, At
    <3> QED
      BY <2>14, <3>1, <3>2, ToQuiet, IdFrame DEF AskChester, db
  <2>15. CASE ListOnline(s)
    <3>1. [Call(s) EXCEPT !.phase = "sweep",
                          !.todo = Rows("online") \ scan[s].seen].pc # "alert"
      BY <2>0, <2>15 DEF ListOnline, Exhausted, ScanState, At
    <3>2. Idle({}, "skipped").pc # "alert"
      BY DEF Idle
    <3> QED
      BY <2>15, <3>1, <3>2, ToQuiet, IdFrame DEF ListOnline, db
  <2>16. CASE MarkOffline(s) \/ MarkOnline(s)
    <3>1. \A m : [Call(s) EXCEPT !.cur = m, !.pc = "event"].pc # "alert"
      BY <2>0 DEF ScanState
    <3> QED
      BY <2>16, <3>1, ToQuiet, IdFrame DEF MarkOffline, MarkOnline
  <2>17. CASE ListOffline(s)
    <3>1. [Call(s) EXCEPT !.phase = "revive",
                          !.todo = Rows("offline") \cap scan[s].seen].pc # "alert"
      BY <2>0, <2>17 DEF ListOffline, Exhausted, ScanState, At
    <3> QED
      BY <2>17, <3>1, ToQuiet, IdFrame DEF ListOffline, db
  <2>18. CASE Finish(s)
    <3>1. Idle(scan[s].seen, "complete").pc # "alert"
      BY DEF Idle
    <3> QED
      BY <2>18, <3>1, ToQuiet, IdFrame DEF Finish, db
  <2> QED
    BY <1>2, <2>1, <2>2, <2>3, <2>5, <2>6, <2>7, <2>8, <2>9, <2>10, <2>12,
       <2>13, <2>14, <2>15, <2>16, <2>17, <2>18 DEF ScanStep
<1>3. ASSUME NEW s \in Scanners, Fault(s) PROVE IdInv'
  BY <1>3, RaiseQuiet, ResumeQuiet, IdFrame DEF Fault, db
<1>4. CASE Crash
  <2>1. \A t \in Scanners : scan'[t].pc # "alert"
    BY <1>4 DEF Crash, Idle
  <2> QED
    BY <1>4, <2>1, IdFrame DEF Crash, db, NoNewAlert
<1>5. ASSUME NEW m \in Mac, RenameDevice(m) PROVE IdInv'
  BY <1>5, IdFrame DEF RenameDevice, NoNewAlert
<1>6. ASSUME NEW m \in Mac, DeleteDevice(m) PROVE IdInv'
  BY <1>6, IdFrame DEF DeleteDevice, NoNewAlert
<1>7. CASE UNCHANGED vars
  BY <1>7, IdFrame DEF vars, NoNewAlert
<1>8. ASSUME NEW m \in Node, SyncNode(m) PROVE IdInv'
  BY <1>8, IdFrame DEF SyncNode, NoNewAlert
<1> QED
  BY <1>1, <1>2, <1>3, <1>4, <1>5, <1>6, <1>7, <1>8 DEF Next

LEMMA IdInit == Init => IdInv
  BY DEF Init, IdInv, At, Idle

LEMMA Typed == Spec => [](TypeOK /\ IdInv)
<1>1. TypeOK /\ IdInv /\ [Next]_vars => (TypeOK /\ IdInv)'
  BY TypeStep, IdStep
<1> QED
  BY <1>1, TypeInit, IdInit, PTL DEF Spec

(* The variables keep their types. *)
THEOREM TypeCorrect == Spec => []TypeOK
  BY Typed, PTL

-----------------------------------------------------------------------------
(* The foreign keys: events and alerts never outlive what they refer to. *)

(* A step that writes neither table and removes no row of a device. *)
LEMMA ReferenceFrame ==
    ASSUME ReferentialIntegrity, TypeOK,
           events' = events, alerts' = alerts,
           \A m \in Mac : Present(m) => Present(m)'
    PROVE  ReferentialIntegrity'
  BY DEF ReferentialIntegrity, TypeOK

LEMMA ReferenceStep ==
    TypeOK /\ IdInv /\ ReferentialIntegrity /\ [Next]_vars
        => ReferentialIntegrity'
<1> SUFFICES ASSUME TypeOK, IdInv, ReferentialIntegrity, [Next]_vars
             PROVE  ReferentialIntegrity'
  OBVIOUS
<1>0. ASSUME status' = status, events' = events, alerts' = alerts
      PROVE  ReferentialIntegrity'
  BY <1>0, ReferenceFrame DEF Present
<1>1. ASSUME NEW s \in Scanners, StartScan(s) PROVE ReferentialIntegrity'
  BY <1>0, <1>1 DEF StartScan, db
<1>2. ASSUME NEW s \in Scanners, ScanStep(s) PROVE ReferentialIntegrity'
  <2>0. scan[s].cur \in Mac /\ scan[s].todo \subseteq Mac
    BY DEF TypeOK, ScanState
  <2>1. CASE Collect(s) \/ Lookup(s) \/ SelectRow(s) \/ RereadRow(s) \/ NameRow(s)
    BY <1>0, <2>1 DEF Collect, Lookup, SelectRow, RereadRow, NameRow, db
  <2>2. CASE AskClients(s) \/ AskNodes(s) \/ AskChester(s) \/ ListOnline(s)
             \/ ListOffline(s) \/ Finish(s)
    BY <1>0, <2>2 DEF AskClients, AskNodes, AskChester, ListOnline,
                      ListOffline, Finish, db
  <2>3. CASE UpdateRow(s)
    BY <2>0, <2>3, ReferenceFrame DEF UpdateRow, Present, TypeOK
  <2>4. CASE InsertRow(s)
    BY <2>0, <2>4, ReferenceFrame DEF InsertRow, Present, TypeOK
  <2>5. CASE MarkOffline(s)
    BY <2>0, <2>5, ReferenceFrame DEF MarkOffline, Present, TypeOK
  <2>6. CASE MarkOnline(s)
    BY <2>0, <2>6, ReferenceFrame DEF MarkOnline, Present, TypeOK
  <2>7. CASE RecordEvent(s)
    <3>1. CASE Present(scan[s].cur)
      BY <2>7, <3>1 DEF RecordEvent, WantsAlert, ReferentialIntegrity, Present
    <3>2. CASE ~Present(scan[s].cur)
      BY <1>0, <2>7, <3>2 DEF RecordEvent, WantsAlert
    <3> QED
      BY <3>1, <3>2
  <2>8. CASE CreateAlert(s)
    <3>1. CASE \E e \in events : e.id = scan[s].ev
      <4>1. PICK e \in events : e.id = scan[s].ev
        BY <3>1
      <4>2. e.mac = scan[s].cur /\ e.kind = EventKind(s)
        BY <2>8, <4>1 DEF CreateAlert, IdInv
      <4>3. \A a \in alerts' :
              \/ a \in alerts
              \/ a = [event |-> scan[s].ev, mac |-> scan[s].cur,
                      kind |-> EventKind(s)]
        BY <2>8 DEF CreateAlert
      <4> QED
        BY <2>8, <4>1, <4>2, <4>3 DEF CreateAlert, ReferentialIntegrity, Present
    <3>2. CASE ~\E e \in events : e.id = scan[s].ev
      BY <1>0, <2>8, <3>2 DEF CreateAlert
    <3> QED
      BY <3>1, <3>2
  <2> QED
    BY <1>2, <2>1, <2>2, <2>3, <2>4, <2>5, <2>6, <2>7, <2>8 DEF ScanStep
<1>3. ASSUME NEW s \in Scanners, Fault(s) PROVE ReferentialIntegrity'
  BY <1>0, <1>3 DEF Fault, db
<1>4. CASE Crash
  BY <1>0, <1>4 DEF Crash, db
<1>5. ASSUME NEW m \in Mac, RenameDevice(m) PROVE ReferentialIntegrity'
  BY <1>0, <1>5 DEF RenameDevice
<1>6. ASSUME NEW m \in Mac, DeleteDevice(m) PROVE ReferentialIntegrity'
  <2>1. \A n \in Mac \ {m} : Present(n) => Present(n)'
    BY <1>6 DEF DeleteDevice, Present, TypeOK
  <2> QED
    BY <1>6, <2>1 DEF DeleteDevice, ReferentialIntegrity, TypeOK
<1>7. CASE UNCHANGED vars
  BY <1>0, <1>7 DEF vars
<1>8. ASSUME NEW m \in Node, SyncNode(m) PROVE ReferentialIntegrity'
  BY <1>8, ReferenceFrame, ConstantsAssumption
  DEF ConstantsAssumption, SyncNode, Present, TypeOK
<1> QED
  BY <1>1, <1>2, <1>3, <1>4, <1>5, <1>6, <1>7, <1>8 DEF Next

(* An event never outlives its device, nor an alert its event, and the alert
   says of the event what the event says of the device.                     *)
THEOREM ReferencesHold == Spec => []ReferentialIntegrity
<1>1. Init => ReferentialIntegrity
  BY DEF Init, ReferentialIntegrity
<1> QED
  BY <1>1, Typed, ReferenceStep, PTL DEF Spec

-----------------------------------------------------------------------------
(* Presence: why overlapping scans leave statuses that one of them observed. *)

(* A scanner that answers for every device: it has yet to sweep, or ended
   without completing.                                                      *)
Excused(s) == Before(s) \/ (~Active(s) /\ scan[s].outcome # "complete")

LEMMA ToOne ==
    ASSUME TypeOK, NEW s \in Scanners, NEW rec, To(s, rec)
    PROVE  scan'[s] = rec /\ \A t \in Scanners \ {s} : scan'[t] = scan[t]
  BY DEF To, TypeOK

(* Only s moved, and what it answered for it still does or need no more. *)
LEMMA PresenceFrame ==
    ASSUME PresenceInv, NEW s \in Scanners, Stage(s)',
           \A t \in Scanners \ {s} : scan'[t] = scan[t],
           \A m \in Mac :
               /\ (status[m] = "online" /\ m \notin synced /\ ~OnlineAnswered(s, m))
                     \/ ~(status'[m] = "online" /\ m \notin synced')
                     \/ OnlineAnswered(s, m)'
               /\ (status[m] = "offline" /\ ~OfflineAnswered(s, m))
                     \/ status'[m] # "offline"
                     \/ OfflineAnswered(s, m)'
    PROVE  PresenceInv'
<1>1. \A t \in Scanners : Stage(t)'
  BY DEF PresenceInv, Stage, At, In, Active, Before
<1>2. ASSUME NEW t \in Scanners \ {s}, NEW m \in Mac
      PROVE  /\ OnlineAnswered(t, m) => OnlineAnswered(t, m)'
             /\ OfflineAnswered(t, m) => OfflineAnswered(t, m)'
  BY DEF OnlineAnswered, OfflineAnswered, Left, Active, Before, At, In
<1>3. ASSUME NEW m \in Mac, status'[m] = "online", m \notin synced'
      PROVE  \E t \in Scanners : OnlineAnswered(t, m)'
  <2>1. CASE OnlineAnswered(s, m)'
    BY <2>1
  <2>2. CASE status[m] = "online" /\ m \notin synced /\ ~OnlineAnswered(s, m)
    <3>1. PICK t \in Scanners : OnlineAnswered(t, m)
      BY <2>2 DEF PresenceInv
    <3> QED
      BY <1>2, <2>2, <3>1
  <2> QED
    BY <1>3, <2>1, <2>2
<1>4. ASSUME NEW m \in Mac, status'[m] = "offline"
      PROVE  \E t \in Scanners : OfflineAnswered(t, m)'
  <2>1. CASE OfflineAnswered(s, m)'
    BY <2>1
  <2>2. CASE status[m] = "offline" /\ ~OfflineAnswered(s, m)
    <3>1. PICK t \in Scanners : OfflineAnswered(t, m)
      BY <2>2 DEF PresenceInv
    <3> QED
      BY <1>2, <2>2, <3>1
  <2> QED
    BY <1>4, <2>1, <2>2
<1> QED
  BY <1>1, <1>3, <1>4 DEF PresenceInv

LEMMA PresenceExcused ==
    ASSUME TypeOK, PresenceInv, NEW s \in Scanners, NEW rec, To(s, rec),
           Stage(s)', Excused(s)'
    PROVE  PresenceInv'
<1>1. \A m \in Mac : OnlineAnswered(s, m)' /\ OfflineAnswered(s, m)'
  BY DEF Excused, OnlineAnswered, OfflineAnswered
<1> QED
  BY <1>1, ToOne, PresenceFrame

(* The call goes on before its sweep, or is over without completing. *)
LEMMA GoesOn ==
    ASSUME TypeOK, PresenceInv, NEW s \in Scanners, NEW rec, To(s, rec),
           \/ rec.pc # "idle" /\ rec.phase \notin {"sweep", "revive"}
           \/ /\ rec.pc = "idle" /\ rec.phase = "merged"
              /\ rec.outcome # "complete"
    PROVE  PresenceInv'
<1>1. scan'[s] = rec
  BY ToOne
<1>2. Stage(s)' /\ Excused(s)'
  BY <1>1 DEF Stage, Excused, Active, Before, At, In
<1> QED
  BY <1>2, PresenceExcused

LEMMA RaiseGoesOn ==
    ASSUME TypeOK, PresenceInv, NEW s \in Scanners, Raise(s)
    PROVE  PresenceInv'
<1> DEFINE rec1 == [Call(s) EXCEPT !.pc = "next", !.todo = {}]
           rec2 == Idle(scan[s].seen, "failed")
<1>0. scan[s] \in ScanState
  BY DEF TypeOK
<1>1. CASE In(s, "clients") \/ In(s, "nodes") \/ (In(s, "chester") /\ ~At(s, "next"))
  <2>1. To(s, rec1)
    BY <1>1 DEF Raise
  <2>2. rec1.pc = "next" /\ rec1.phase \notin {"sweep", "revive"}
    BY <1>0, <1>1 DEF Call, In, ScanState
  <2> HIDE DEF rec1
  <2> QED
    BY <2>1, <2>2, GoesOn
<1>2. CASE ~(In(s, "clients") \/ In(s, "nodes") \/ (In(s, "chester") /\ ~At(s, "next")))
  <2>1. To(s, rec2)
    BY <1>2 DEF Raise
  <2>2. rec2.pc = "idle" /\ rec2.phase = "merged" /\ rec2.outcome # "complete"
    BY DEF Idle
  <2> HIDE DEF rec2
  <2> QED
    BY <2>1, <2>2, GoesOn
<1> QED
  BY <1>1, <1>2

(* The end of an iteration, in whatever phase, of a device's status unchanged *)
LEMMA ResumeKeeps ==
    ASSUME TypeOK, PresenceInv, NEW s \in Scanners, Resume(s), ~At(s, "idle"),
           ~At(s, "next"), status' = status, synced' = synced
    PROVE  PresenceInv'
<1> DEFINE rec == [Call(s) EXCEPT
                     !.pc = "next",
                     !.todo = @ \ {scan[s].cur},
                     !.seen = IF scan[s].phase \in {"sweep", "revive"} THEN @
                              ELSE @ \cup {scan[s].cur}]
<1>0. scan[s] \in ScanState
  BY DEF TypeOK
<1>1. To(s, rec)
  BY DEF Resume
<1>2. /\ rec.pc = "next" /\ rec.phase = scan[s].phase
      /\ rec.todo = scan[s].todo \ {scan[s].cur}
      /\ scan[s].phase \in {"sweep", "revive"} => rec.seen = scan[s].seen
  BY <1>0 DEF Call, ScanState
<1> HIDE DEF rec
<1>3. CASE scan[s].phase \notin {"sweep", "revive"}
  BY <1>1, <1>2, <1>3, GoesOn
<1>4. CASE scan[s].phase \in {"sweep", "revive"}
  <2>1. scan'[s] = rec /\ \A t \in Scanners \ {s} : scan'[t] = scan[t]
    BY <1>1, ToOne
  <2>2. Stage(s)'
    BY <1>2, <1>4, <2>1 DEF PresenceInv, Stage, Active, Before, At, In
  <2>3. \A m \in Mac : OnlineAnswered(s, m) => OnlineAnswered(s, m)'
    BY <1>2, <1>4, <2>1 DEF OnlineAnswered, Left, Active, Before, At, In
  <2>4. \A m \in Mac : OfflineAnswered(s, m) => OfflineAnswered(s, m)'
    BY <1>2, <1>4, <2>1 DEF OfflineAnswered, Left, Active, Before, At, In
  <2> QED
    BY <2>1, <2>2, <2>3, <2>4, PresenceFrame
<1> QED
  BY <1>3, <1>4

LEMMA PresenceStep ==
    TypeOK /\ PresenceInv /\ [Next]_vars => PresenceInv'
<1> SUFFICES ASSUME TypeOK, PresenceInv, [Next]_vars PROVE PresenceInv'
  OBVIOUS
<1>0. ASSUME scan' = scan,
             \A m \in Mac : /\ status'[m] = "online" /\ m \notin synced'
                                 => status[m] = "online" /\ m \notin synced
                            /\ status'[m] = "offline" => status[m] = "offline"
      PROVE  PresenceInv'
  <2>1. \A s \in Scanners : Stage(s)'
    BY <1>0 DEF PresenceInv, Stage, Active, Before, At, In
  <2>2. \A s \in Scanners, m \in Mac :
           /\ OnlineAnswered(s, m) => OnlineAnswered(s, m)'
           /\ OfflineAnswered(s, m) => OfflineAnswered(s, m)'
    BY <1>0 DEF OnlineAnswered, OfflineAnswered, Left, Active, Before, At, In
  <2>3. ASSUME NEW m \in Mac, status'[m] = "online", m \notin synced'
        PROVE  \E s \in Scanners : OnlineAnswered(s, m)'
    <3>1. PICK s \in Scanners : OnlineAnswered(s, m)
      BY <1>0, <2>3 DEF PresenceInv
    <3> QED
      BY <2>2, <3>1
  <2>4. ASSUME NEW m \in Mac, status'[m] = "offline"
        PROVE  \E s \in Scanners : OfflineAnswered(s, m)'
    <3>1. PICK s \in Scanners : OfflineAnswered(s, m)
      BY <1>0, <2>4 DEF PresenceInv
    <3> QED
      BY <2>2, <3>1
  <2> QED
    BY <2>1, <2>3, <2>4 DEF PresenceInv
<1>1. ASSUME NEW s \in Scanners, StartScan(s) PROVE PresenceInv'
  <2> DEFINE rec == [Idle({}, "none") EXCEPT !.pc = "collect"]
  <2>1. To(s, rec)
    BY <1>1 DEF StartScan
  <2>2. rec.pc = "collect" /\ rec.phase = "merged"
    BY DEF Idle
  <2> HIDE DEF rec
  <2> QED
    BY <2>1, <2>2, GoesOn
<1>2. ASSUME NEW s \in Scanners, ScanStep(s) PROVE PresenceInv'
  <2>0. /\ scan[s] \in ScanState /\ Call(s) = scan[s]
        /\ Stage(s)
    BY DEF TypeOK, Call, PresenceInv
  <2>1. CASE Collect(s)
    <3>1. PICK merged \in SUBSET Mac :
            To(s, [Call(s) EXCEPT !.pc = "next", !.todo = merged,
                                  !.heard = merged # {}])
      BY <2>1 DEF Collect
    <3>2. scan[s].phase \notin {"sweep", "revive"}
      BY <2>0, <2>1 DEF Collect, Stage, Active, Before, At
    <3> DEFINE rec == [Call(s) EXCEPT !.pc = "next", !.todo = merged,
                                      !.heard = merged # {}]
    <3>3. rec.pc = "next" /\ rec.phase = scan[s].phase
      BY <2>0 DEF ScanState
    <3>4. To(s, rec)
      BY <3>1
    <3> HIDE DEF rec
    <3> QED
      BY <3>2, <3>3, <3>4, GoesOn
  <2>2. CASE Lookup(s)
    <3>1. PICK m \in scan[s].todo :
            To(s, [Call(s) EXCEPT
                     !.cur = m, !.existed = Present(m),
                     !.named = Present(m) /\ name[m] # None,
                     !.pc = IF m \in scan[s].seen \/ In(s, "nodes")
                            THEN "name" ELSE "select"])
      BY <2>2 DEF Lookup
    <3> DEFINE rec == [Call(s) EXCEPT
                         !.cur = m, !.existed = Present(m),
                         !.named = Present(m) /\ name[m] # None,
                         !.pc = IF m \in scan[s].seen \/ In(s, "nodes")
                                THEN "name" ELSE "select"]
    <3>2. rec.pc \in {"name", "select"} /\ rec.phase = scan[s].phase
      BY <2>0 DEF ScanState
    <3>3. scan[s].phase \notin {"sweep", "revive"}
      BY <2>2 DEF Lookup
    <3>4. To(s, rec)
      BY <3>1
    <3> HIDE DEF rec
    <3> QED
      BY <3>2, <3>3, <3>4, GoesOn
  <2>3. CASE SelectRow(s)
    <3> DEFINE rec == [Call(s) EXCEPT !.pc = "write",
                                      !.rowed = Present(scan[s].cur)]
    <3>1. rec.pc = "write" /\ rec.phase = scan[s].phase /\ To(s, rec)
      BY <2>0, <2>3 DEF ScanState, SelectRow
    <3>2. scan[s].phase \notin {"sweep", "revive"}
      BY <2>0, <2>3 DEF SelectRow, Stage, Active, Before, At
    <3> HIDE DEF rec
    <3> QED
      BY <3>1, <3>2, GoesOn
  <2>4. CASE UpdateRow(s) \/ (InsertRow(s) /\ ~Present(scan[s].cur))
    <3> DEFINE rec == [Call(s) EXCEPT !.pc = "reread"]
    <3>1. rec.pc = "reread" /\ rec.phase = scan[s].phase /\ To(s, rec)
      BY <2>0, <2>4 DEF ScanState, UpdateRow, InsertRow
    <3>2. scan[s].phase \notin {"sweep", "revive"}
      BY <2>0, <2>4 DEF UpdateRow, InsertRow, Stage, Active, Before, At
    <3> HIDE DEF rec
    <3> QED
      BY <3>1, <3>2, GoesOn
  <2>5. CASE InsertRow(s) /\ Present(scan[s].cur)
    BY <2>5, RaiseGoesOn DEF InsertRow
  <2>6. CASE RereadRow(s)
    <3>1. CASE Raise(s)
      BY <3>1, RaiseGoesOn
    <3>2. CASE Resume(s)
      BY <2>6, <3>2, ResumeKeeps DEF RereadRow, At, db, hist
    <3>3. CASE To(s, [Call(s) EXCEPT !.pc = "name"])
      <4> DEFINE rec == [Call(s) EXCEPT !.pc = "name"]
      <4>1. rec.pc = "name" /\ rec.phase = scan[s].phase /\ To(s, rec)
        BY <2>0, <3>3 DEF ScanState
      <4>2. scan[s].phase \notin {"sweep", "revive"}
        BY <2>0, <2>6 DEF RereadRow, Stage, Active, Before, At
      <4> HIDE DEF rec
      <4> QED
        BY <4>1, <4>2, GoesOn
    <3> QED
      BY <2>6, <3>1, <3>2, <3>3 DEF RereadRow
  <2>7. CASE NameRow(s)
    <3>1. CASE Resume(s)
      BY <2>7, <3>1, ResumeKeeps DEF NameRow, At, hist
    <3>2. CASE To(s, [Call(s) EXCEPT !.pc = "event"])
      <4> DEFINE rec == [Call(s) EXCEPT !.pc = "event"]
      <4>1. rec.pc = "event" /\ rec.phase = scan[s].phase /\ To(s, rec)
        BY <2>0, <3>2 DEF ScanState
      <4>2. scan[s].phase \notin {"sweep", "revive"}
        BY <2>0, <2>7 DEF NameRow, Stage, Active, Before, At
      <4> HIDE DEF rec
      <4> QED
        BY <4>1, <4>2, GoesOn
    <3> QED
      BY <2>7, <3>1, <3>2 DEF NameRow
  <2>8. CASE RecordEvent(s)
    <3>1. CASE Resume(s)
      BY <2>8, <3>1, ResumeKeeps DEF RecordEvent, At, hist
    <3>2. CASE To(s, [Call(s) EXCEPT !.pc = "alert", !.ev = issued + 1])
      <4> DEFINE rec == [Call(s) EXCEPT !.pc = "alert", !.ev = issued + 1]
      <4>1. /\ rec.pc = "alert" /\ rec.phase = scan[s].phase
            /\ rec.todo = scan[s].todo /\ rec.cur = scan[s].cur
            /\ rec.seen = scan[s].seen /\ To(s, rec)
        BY <2>0, <3>2 DEF ScanState
      <4> HIDE DEF rec
      <4>2. scan'[s] = rec /\ \A t \in Scanners \ {s} : scan'[t] = scan[t]
        BY <4>1, ToOne
      <4>3. scan[s].pc = "event"
        BY <2>8 DEF RecordEvent, At
      <4>4. Stage(s)'
        BY <2>0, <4>1, <4>2, <4>3 DEF Stage, Active, Before, At, In
      <4>5. \A m \in Mac : OnlineAnswered(s, m) => OnlineAnswered(s, m)'
        BY <4>1, <4>2, <4>3 DEF OnlineAnswered, Left, Active, Before, At, In
      <4>6. \A m \in Mac : OfflineAnswered(s, m) => OfflineAnswered(s, m)'
        BY <4>1, <4>2, <4>3 DEF OfflineAnswered, Left, Active, Before, At, In
      <4>7. status' = status /\ synced' = synced
        BY <2>8 DEF RecordEvent, hist
      <4> QED
        BY <4>2, <4>4, <4>5, <4>6, <4>7, PresenceFrame
    <3> QED
      BY <2>8, <3>1, <3>2 DEF RecordEvent
  <2>9. CASE CreateAlert(s)
    BY <2>9, ResumeKeeps DEF CreateAlert, At, hist
  <2>10. CASE AskClients(s)
    <3>1. PICK found \in SUBSET Mac :
            To(s, [Call(s) EXCEPT !.phase = "clients", !.todo = found,
                                  !.heard = @ \/ found # {}])
      BY <2>10 DEF AskClients
    <3> DEFINE rec == [Call(s) EXCEPT !.phase = "clients", !.todo = found,
                                      !.heard = @ \/ found # {}]
    <3>2. rec.pc = "next" /\ rec.phase = "clients"
      BY <2>0, <2>10 DEF ScanState, AskClients, Exhausted, At
    <3>3. To(s, rec)
      BY <3>1
    <3> HIDE DEF rec
    <3> QED
      BY <3>2, <3>3, GoesOn
  <2>11. CASE AskNodes(s)
    <3>1. ASSUME NEW fresh \in SUBSET Node, NEW used,
                 To(s, [Call(s) EXCEPT !.phase = "nodes", !.todo = fresh,
                                       !.seen = @ \cup used,
                                       !.heard = @ \/ fresh # {}])
          PROVE  PresenceInv'
      <4> DEFINE rec == [Call(s) EXCEPT !.phase = "nodes", !.todo = fresh,
                                        !.seen = @ \cup used,
                                        !.heard = @ \/ fresh # {}]
      <4>1. rec.pc = "next" /\ rec.phase = "nodes"
        BY <2>0, <2>11 DEF ScanState, AskNodes, Exhausted, At
      <4>2. To(s, rec)
        BY <3>1
      <4> HIDE DEF rec
      <4> QED
        BY <4>1, <4>2, GoesOn
    <3>2. CASE To(s, [Call(s) EXCEPT !.phase = "nodes"])
      <4> DEFINE rec == [Call(s) EXCEPT !.phase = "nodes"]
      <4>1. rec.pc = "next" /\ rec.phase = "nodes" /\ To(s, rec)
        BY <2>0, <2>11, <3>2 DEF ScanState, AskNodes, Exhausted, At
      <4> HIDE DEF rec
      <4> QED
        BY <4>1, GoesOn
    <3> QED
      BY <2>11, <3>1, <3>2 DEF AskNodes
  <2>12. CASE AskChester(s)
    <3>1. CASE To(s, [Call(s) EXCEPT !.phase = "chester", !.pc = "select",
                                     !.cur = Gateway, !.existed = TRUE,
                                     !.seen = @ \cup {Gateway}, !.heard = TRUE])
      <4> DEFINE rec == [Call(s) EXCEPT !.phase = "chester", !.pc = "select",
                                        !.cur = Gateway, !.existed = TRUE,
                                        !.seen = @ \cup {Gateway}, !.heard = TRUE]
      <4>1. rec.pc = "select" /\ rec.phase = "chester" /\ To(s, rec)
        BY <2>0, <3>1 DEF ScanState
      <4> HIDE DEF rec
      <4> QED
        BY <4>1, GoesOn
    <3>2. CASE To(s, [Call(s) EXCEPT !.phase = "chester"])
      <4> DEFINE rec == [Call(s) EXCEPT !.phase = "chester"]
      <4>1. rec.pc = "next" /\ rec.phase = "chester" /\ To(s, rec)
        BY <2>0, <2>12, <3>2 DEF ScanState, AskChester, Exhausted, At
      <4> HIDE DEF rec
      <4> QED
        BY <4>1, GoesOn
    <3> QED
      BY <2>12, <3>1, <3>2 DEF AskChester

  <2>13. CASE ListOnline(s)
    <3>1. CASE scan[s].seen = {}
      <4> DEFINE rec == Idle({}, "skipped")
      <4>1. /\ rec.pc = "idle" /\ rec.phase = "merged"
            /\ rec.outcome # "complete" /\ To(s, rec)
        BY <2>13, <3>1 DEF ListOnline, Idle
      <4> HIDE DEF rec
      <4> QED
        BY <4>1, GoesOn
    <3>2. CASE scan[s].seen # {}
      <4> DEFINE rec == [Call(s) EXCEPT !.phase = "sweep",
                                        !.todo = Rows("online") \ scan[s].seen]
      <4>1. /\ rec.pc = "next" /\ rec.phase = "sweep"
            /\ rec.todo = Rows("online") \ scan[s].seen
            /\ rec.seen = scan[s].seen /\ To(s, rec)
        BY <2>0, <2>13, <3>2 DEF ScanState, ListOnline, Exhausted, At
      <4> HIDE DEF rec
      <4>2. scan'[s] = rec /\ \A t \in Scanners \ {s} : scan'[t] = scan[t]
        BY <4>1, ToOne
      <4>3. Stage(s)'
        BY <4>1, <4>2 DEF Stage, Active, Before, At, In
      <4>4. \A m \in Mac : status[m] = "online" => OnlineAnswered(s, m)'
        BY <4>1, <4>2 DEF OnlineAnswered, Left, Active, At, In, Rows
      <4>5. \A m \in Mac : OfflineAnswered(s, m)'
        BY <4>1, <4>2 DEF OfflineAnswered, Active, At, In
      <4>6. status' = status /\ synced' = synced
        BY <2>13 DEF ListOnline, db, hist
      <4> QED
        BY <4>2, <4>3, <4>4, <4>5, <4>6, PresenceFrame
    <3> QED
      BY <3>1, <3>2
  <2>14. CASE MarkOffline(s)
    <3>1. PICK m \in scan[s].todo :
            /\ status' = [status EXCEPT ![m] =
                            IF @ = "absent" THEN @ ELSE "offline"]
            /\ To(s, [Call(s) EXCEPT !.cur = m, !.pc = "event"])
      BY <2>14 DEF MarkOffline
    <3> DEFINE rec == [Call(s) EXCEPT !.cur = m, !.pc = "event"]
    <3>2. scan[s].pc = "next" /\ scan[s].phase = "sweep" /\ synced' = synced
      BY <2>14 DEF MarkOffline, At, In
    <3>3. /\ rec.pc = "event" /\ rec.phase = "sweep" /\ rec.cur = m
          /\ rec.todo = scan[s].todo /\ rec.seen = scan[s].seen /\ To(s, rec)
      BY <2>0, <3>1, <3>2 DEF ScanState
    <3> HIDE DEF rec
    <3>4. scan'[s] = rec /\ \A t \in Scanners \ {s} : scan'[t] = scan[t]
      BY <3>3, ToOne
    <3>5. Stage(s)'
      BY <3>3, <3>4 DEF Stage, Active, Before, At, In
    <3>6. \A x \in Mac : OfflineAnswered(s, x)'
      BY <3>3, <3>4 DEF OfflineAnswered, Active, At, In
    <3>7. ASSUME NEW x \in Mac, status'[x] = "online", x \notin synced'
          PROVE  /\ status[x] = "online" /\ x \notin synced
                 /\ OnlineAnswered(s, x) => OnlineAnswered(s, x)'
      <4>1. x # m /\ status[x] = "online"
        BY <3>1, <3>7 DEF TypeOK
      <4>2. OnlineAnswered(s, x) => OnlineAnswered(s, x)'
        BY <3>2, <3>3, <3>4, <4>1
        DEF OnlineAnswered, Left, Active, Before, At, In
      <4> QED
        BY <3>2, <3>7, <4>1, <4>2
    <3> QED
      BY <3>4, <3>5, <3>6, <3>7, PresenceFrame
  <2>15. CASE ListOffline(s)
    <3> DEFINE rec == [Call(s) EXCEPT !.phase = "revive",
                         !.todo = Rows("offline") \cap scan[s].seen]
    <3>1. scan[s].pc = "next" /\ scan[s].phase = "sweep" /\ scan[s].todo = {}
      BY <2>15 DEF ListOffline, Exhausted, At, In
    <3>2. /\ rec.pc = "next" /\ rec.phase = "revive"
          /\ rec.todo = Rows("offline") \cap scan[s].seen
          /\ rec.seen = scan[s].seen /\ To(s, rec)
      BY <2>0, <2>15, <3>1 DEF ScanState, ListOffline
    <3> HIDE DEF rec
    <3>3. scan'[s] = rec /\ \A t \in Scanners \ {s} : scan'[t] = scan[t]
      BY <3>2, ToOne
    <3>4. Stage(s)'
      BY <3>2, <3>3 DEF Stage, Active, Before, At, In
    <3>5. \A m \in Mac : OnlineAnswered(s, m) => OnlineAnswered(s, m)'
      BY <3>1, <3>2, <3>3 DEF OnlineAnswered, Left, Active, Before, At, In
    <3>6. \A m \in Mac : status[m] = "offline" => OfflineAnswered(s, m)'
      BY <3>2, <3>3 DEF OfflineAnswered, Left, Active, At, In, Rows
    <3>7. status' = status /\ synced' = synced
      BY <2>15 DEF ListOffline, db, hist
    <3> QED
      BY <3>3, <3>4, <3>5, <3>6, <3>7, PresenceFrame
  <2>16. CASE MarkOnline(s)
    <3>1. PICK m \in scan[s].todo :
            /\ status' = [status EXCEPT ![m] =
                            IF @ = "absent" THEN @ ELSE "online"]
            /\ synced' = synced \ {m}
            /\ To(s, [Call(s) EXCEPT !.cur = m, !.pc = "event"])
      BY <2>16 DEF MarkOnline
    <3> DEFINE rec == [Call(s) EXCEPT !.cur = m, !.pc = "event"]
    <3>2. /\ scan[s].pc = "next" /\ scan[s].phase = "revive"
          /\ m \in scan[s].seen
      BY <2>0, <2>16, <3>1 DEF MarkOnline, Stage, At, In
    <3>3. /\ rec.pc = "event" /\ rec.phase = "revive" /\ rec.cur = m
          /\ rec.todo = scan[s].todo /\ rec.seen = scan[s].seen /\ To(s, rec)
      BY <2>0, <3>1, <3>2 DEF ScanState
    <3> HIDE DEF rec
    <3>4. scan'[s] = rec /\ \A t \in Scanners \ {s} : scan'[t] = scan[t]
      BY <3>3, ToOne
    <3>5. Stage(s)'
      BY <2>0, <3>2, <3>3, <3>4 DEF Stage, Active, Before, At, In
    <3>6. OnlineAnswered(s, m)'
      BY <3>2, <3>3, <3>4 DEF OnlineAnswered
    <3>7. ASSUME NEW x \in Mac, x # m
          PROVE  /\ status'[x] = status[x] /\ (x \in synced' <=> x \in synced)
                 /\ OnlineAnswered(s, x) => OnlineAnswered(s, x)'
                 /\ OfflineAnswered(s, x) => OfflineAnswered(s, x)'
      <4>1. status'[x] = status[x] /\ (x \in synced' <=> x \in synced)
        BY <3>1, <3>7 DEF TypeOK
      <4>2. OnlineAnswered(s, x) => OnlineAnswered(s, x)'
        BY <3>2, <3>3, <3>4, <3>7
        DEF OnlineAnswered, Left, Active, Before, At, In
      <4>3. OfflineAnswered(s, x) => OfflineAnswered(s, x)'
        BY <3>2, <3>3, <3>4, <3>7
        DEF OfflineAnswered, Left, Active, Before, At, In
      <4> QED
        BY <4>1, <4>2, <4>3
    <3>8. m \in Mac => status'[m] # "offline"
      BY <3>1 DEF TypeOK
    <3> QED
      BY <3>4, <3>5, <3>6, <3>7, <3>8, PresenceFrame
  <2>17. CASE Finish(s)
    <3> DEFINE rec == Idle(scan[s].seen, "complete")
    <3>1. scan[s].pc = "next" /\ scan[s].phase = "revive" /\ scan[s].todo = {}
      BY <2>17 DEF Finish, Exhausted, At, In
    <3>2. /\ rec.pc = "idle" /\ rec.phase = "merged" /\ rec.seen = scan[s].seen
          /\ To(s, rec)
      BY <2>17 DEF Finish, Idle
    <3> HIDE DEF rec
    <3>3. scan'[s] = rec /\ \A t \in Scanners \ {s} : scan'[t] = scan[t]
      BY <3>2, ToOne
    <3>4. Stage(s)'
      BY <3>2, <3>3 DEF Stage, Active, Before, At, In
    <3>5. \A m \in Mac : OnlineAnswered(s, m) => OnlineAnswered(s, m)'
      BY <3>1, <3>2, <3>3 DEF OnlineAnswered, Left, Active, Before, At, In
    <3>6. \A m \in Mac : OfflineAnswered(s, m) => OfflineAnswered(s, m)'
      BY <3>1, <3>2, <3>3 DEF OfflineAnswered, Left, Active, Before, At, In
    <3>7. status' = status /\ synced' = synced
      BY <2>17 DEF Finish, db, hist
    <3> QED
      BY <3>3, <3>4, <3>5, <3>6, <3>7, PresenceFrame
  <2> QED
    BY <1>2, <2>1, <2>2, <2>3, <2>4, <2>5, <2>6, <2>7, <2>8, <2>9, <2>10,
       <2>11, <2>12, <2>13, <2>14, <2>15, <2>16, <2>17 DEF ScanStep
<1>3. ASSUME NEW s \in Scanners, Fault(s) PROVE PresenceInv'
  <2>1. CASE scan[s].pc \in {"event", "alert"}
    BY <1>3, <2>1, ResumeKeeps DEF Fault, At, db, hist
  <2>2. CASE scan[s].pc \notin {"event", "alert"}
    BY <1>3, <2>2, RaiseGoesOn DEF Fault
  <2> QED
    BY <2>1, <2>2
<1>4. CASE Crash
  <2>1. \A s \in Scanners :
           /\ scan'[s].pc = "idle" /\ scan'[s].phase = "merged"
           /\ scan'[s].outcome = "none"
    BY <1>4 DEF Crash, Idle
  <2>2. \A s \in Scanners, m \in Mac :
           Stage(s)' /\ OnlineAnswered(s, m)' /\ OfflineAnswered(s, m)'
    BY <2>1 DEF Stage, OnlineAnswered, OfflineAnswered, Active, Before, At, In
  <2>3. status' = status /\ synced' = synced
    BY <1>4 DEF Crash, db, hist
  <2>4. \A s \in Scanners : Stage(s)'
    BY <2>1 DEF Stage, Active, Before, At, In
  <2> QED
    BY <2>2, <2>3, <2>4 DEF PresenceInv
<1>5. ASSUME NEW m \in Mac, RenameDevice(m) PROVE PresenceInv'
  BY <1>0, <1>5 DEF RenameDevice, hist
<1>6. ASSUME NEW m \in Mac, DeleteDevice(m) PROVE PresenceInv'
  <2>1. \A x \in Mac : status'[x] = IF x = m THEN "absent" ELSE status[x]
    BY <1>6 DEF DeleteDevice, TypeOK
  <2> QED
    BY <1>0, <1>6, <2>1 DEF DeleteDevice
<1>7. CASE UNCHANGED vars
  BY <1>0, <1>7 DEF vars
<1>8. ASSUME NEW m \in Node, SyncNode(m) PROVE PresenceInv'
  <2>1. m \in Mac
    BY ConstantsAssumption DEF ConstantsAssumption
  <2>2. \A x \in Mac : status'[x] = IF x = m THEN "online" ELSE status[x]
    BY <1>8, <2>1 DEF SyncNode, TypeOK
  <2>3. synced' = synced \cup {m} /\ scan' = scan
    BY <1>8 DEF SyncNode
  <2> QED
    BY <1>0, <2>2, <2>3
<1> QED
  BY <1>1, <1>2, <1>3, <1>4, <1>5, <1>6, <1>7, <1>8 DEF Next

LEMMA PresenceInit == Init => PresenceInv
  BY DEF Init, PresenceInv, Stage, Active, Before, At, In, Idle

(* After scans that all ran to the end, whatever came between their
   statements, each status is one that the last scan of some scanner saw.   *)
THEOREM PresenceHolds == Spec => []PresenceWitnessed
<1>1. PresenceInv => PresenceWitnessed
  BY DEF PresenceInv, PresenceWitnessed, AllComplete, Quiet, OnlineAnswered,
         OfflineAnswered, Active, Before, At
<1> QED
  BY <1>1, Typed, PresenceInit, PresenceStep, PTL DEF Spec

-----------------------------------------------------------------------------
(* Counting: what crashes and errors cut off. *)

(* The set grew by at most one element for each scanner. *)
LEMMA OneEach ==
    ASSUME NEW U, NEW V, IsFiniteSet(U), NEW T \in SUBSET Scanners, NEW f,
           V \subseteq U \cup {f[s] : s \in T}
    PROVE  /\ IsFiniteSet(V)
           /\ Cardinality(V) \in Nat /\ Cardinality(U) \in Nat
           /\ Cardinality(Scanners) \in Nat
           /\ Cardinality(V) <= Cardinality(U) + Cardinality(Scanners)
<1> DEFINE lost == {f[s] : s \in T}
           g    == [s \in T |-> f[s]]
<1>1. IsFiniteSet(Scanners) /\ Cardinality(Scanners) \in Nat /\ Cardinality(U) \in Nat
  BY FinitenessAssumption, FS_CardinalityType DEF FinitenessAssumption
<1>2. IsFiniteSet(T) /\ Cardinality(T) \in Nat /\ Cardinality(T) <= Cardinality(Scanners)
  BY <1>1, FS_Subset, FS_CardinalityType
<1>3. g \in Surjection(T, lost)
  BY DEF Surjection
<1>4. IsFiniteSet(lost) /\ Cardinality(lost) \in Nat /\ Cardinality(lost) <= Cardinality(T)
  BY <1>2, <1>3, FS_Surjection, FS_CardinalityType
<1> HIDE DEF lost, g
<1>5. IsFiniteSet(U \cap lost) /\ Cardinality(U \cap lost) \in Nat
  BY FS_Intersection, FS_CardinalityType
<1>6. /\ IsFiniteSet(U \cup lost) /\ Cardinality(U \cup lost) \in Nat
      /\ Cardinality(U \cup lost) <= Cardinality(U) + Cardinality(lost)
  <2>1. /\ IsFiniteSet(U \cup lost)
        /\ Cardinality(U \cup lost) =
              Cardinality(U) + Cardinality(lost) - Cardinality(U \cap lost)
    BY <1>4, FS_Union
  <2> QED
    BY <1>1, <1>4, <1>5, <2>1, FS_CardinalityType
<1>7. /\ IsFiniteSet(V) /\ Cardinality(V) \in Nat
      /\ Cardinality(V) <= Cardinality(U \cup lost)
  BY <1>6, FS_Subset, FS_CardinalityType DEF lost
<1> QED
  BY <1>1, <1>2, <1>4, <1>6, <1>7

(* ... which one more crash or error accounts for ... *)
LEMMA Accounted ==
    ASSUME TypeOK, mishaps' = mishaps + 1,
           NEW U, NEW V, IsFiniteSet(U), NEW T \in SUBSET Scanners, NEW f,
           V \subseteq U \cup {f[s] : s \in T}, Cardinality(U) <= CutOff
    PROVE  Cardinality(V) <= CutOff'
<1> DEFINE n == Cardinality(Scanners)
<1>1. n \in Nat /\ Cardinality(V) \in Nat /\ Cardinality(U) \in Nat
      /\ Cardinality(V) <= Cardinality(U) + n
  BY OneEach
<1>2. CutOff = mishaps * n /\ CutOff' = (mishaps + 1) * n /\ mishaps \in Nat
  BY DEF CutOff, TypeOK
<1> HIDE DEF n
<1>3. (mishaps + 1) * n = mishaps * n + n /\ mishaps * n \in Nat
  BY <1>1, <1>2
<1> QED
  BY <1>1, <1>2, <1>3

(* ... and when it did not grow there is nothing to account for. *)
LEMMA NoneCutOff ==
    ASSUME mishaps' = mishaps, NEW U, NEW V, IsFiniteSet(U), TypeOK,
           V \subseteq U, Cardinality(U) <= CutOff
    PROVE  Cardinality(V) <= CutOff'
<1>1. /\ Cardinality(V) <= Cardinality(U)
      /\ Cardinality(V) \in Nat /\ Cardinality(U) \in Nat
  BY FS_Subset, FS_CardinalityType
<1>2. CutOff' = CutOff /\ CutOff \in Int
  <2>1. Cardinality(Scanners) \in Nat
    BY FinitenessAssumption, FS_CardinalityType DEF FinitenessAssumption
  <2> QED
    BY <2>1 DEF CutOff, TypeOK
<1> QED
  BY <1>1, <1>2

(* A step of a scan is a step of no other. *)
LEMMA OneMoves ==
    ASSUME TypeOK, NEW s \in Scanners, StartScan(s) \/ ScanStep(s) \/ Fault(s)
    PROVE  \A t \in Scanners \ {s} : scan'[t] = scan[t]
<1>1. ASSUME NEW rec, To(s, rec) PROVE \A t \in Scanners \ {s} : scan'[t] = scan[t]
  BY <1>1, ToOne
<1>2. ASSUME Raise(s) \/ Resume(s) PROVE \A t \in Scanners \ {s} : scan'[t] = scan[t]
  BY <1>1, <1>2 DEF Raise, Resume
<1>3. CASE StartScan(s) \/ Fault(s)
  BY <1>1, <1>2, <1>3 DEF StartScan, Fault
<1>4. CASE Collect(s) \/ Lookup(s) \/ SelectRow(s) \/ UpdateRow(s)
  BY <1>1, <1>4 DEF Collect, Lookup, SelectRow, UpdateRow
<1>5. CASE InsertRow(s) \/ RereadRow(s) \/ NameRow(s)
  BY <1>1, <1>2, <1>5 DEF InsertRow, RereadRow, NameRow
<1>6. CASE RecordEvent(s) \/ CreateAlert(s)
  BY <1>1, <1>2, <1>6 DEF RecordEvent, CreateAlert
<1>7. CASE AskClients(s) \/ AskNodes(s) \/ AskChester(s)
  BY <1>1, <1>7 DEF AskClients, AskNodes, AskChester
<1>8. CASE ListOnline(s) \/ MarkOffline(s) \/ ListOffline(s) \/ MarkOnline(s) \/ Finish(s)
  BY <1>1, <1>8 DEF ListOnline, MarkOffline, ListOffline, MarkOnline, Finish
<1> QED
  BY <1>3, <1>4, <1>5, <1>6, <1>7, <1>8 DEF ScanStep

-----------------------------------------------------------------------------
(* Alerts *)

(* There are finitely many events, and an id is that of one. *)
EventSet ==
    /\ IsFiniteSet(events)
    /\ \A e, f \in events : e.id = f.id => e = f
AlertInv == EventSet /\ AlertsComplete

LEMMA UnalertedFinite == EventSet => IsFiniteSet(Unalerted)
  BY FS_Subset DEF EventSet, Unalerted

(* A step that adds no event, takes no alert of one that stays, and leaves
   alone those about to write an alert.                                     *)
LEMMA AlertFrame ==
    ASSUME TypeOK, AlertInv, mishaps' = mishaps, events' \subseteq events,
           \A a \in alerts : a \in alerts' \/ \A e \in events' : e.id # a.event,
           \A t \in Scanners : At(t, "alert") => scan'[t] = scan[t]
    PROVE  AlertInv'
<1>1. EventSet'
  BY FS_Subset DEF AlertInv, EventSet
<1>2. Unalerted' \subseteq Unalerted
  BY DEF Unalerted, At
<1> QED
  BY <1>1, <1>2, UnalertedFinite, NoneCutOff DEF AlertInv, AlertsComplete

(* Whatever a crash or an error does to the scans. *)
LEMMA AlertCutOff ==
    ASSUME TypeOK, AlertInv, mishaps' = mishaps + 1,
           events' = events, alerts' = alerts
    PROVE  AlertInv'
<1> DEFINE T == {s \in Scanners : At(s, "alert")}
           f == [s \in Scanners |-> CHOOSE e \in events : e.id = scan[s].ev]
<1>1. EventSet'
  BY DEF AlertInv, EventSet
<1>2. ASSUME NEW e \in Unalerted', e \notin Unalerted
      PROVE  e \in {f[s] : s \in T}
  <2>1. PICK s \in Scanners : At(s, "alert") /\ scan[s].ev = e.id
    BY <1>2 DEF Unalerted
  <2>2. e \in events
    BY <1>2 DEF Unalerted
  <2>3. \A x \in events : x.id = scan[s].ev => x = e
    BY <2>1, <2>2 DEF AlertInv, EventSet
  <2>4. f[s] = e
    BY <2>1, <2>2, <2>3
  <2> QED
    BY <2>1, <2>4
<1> HIDE DEF f
<1>3. Unalerted' \subseteq Unalerted \cup {f[s] : s \in T} /\ T \in SUBSET Scanners
  BY <1>2
<1> HIDE DEF T
<1> QED
  BY <1>1, <1>3, UnalertedFinite, Accounted DEF AlertInv, AlertsComplete

LEMMA AlertStep ==
    TypeOK /\ IdInv /\ ReferentialIntegrity /\ AlertInv /\ [Next]_vars => AlertInv'
<1> SUFFICES ASSUME TypeOK, IdInv, ReferentialIntegrity, AlertInv, [Next]_vars
             PROVE  AlertInv'
  OBVIOUS
<1>1. ASSUME NEW s \in Scanners, RecordEvent(s) PROVE AlertInv'
  <2> DEFINE m   == scan[s].cur
             new == [id |-> issued + 1, mac |-> m, kind |-> EventKind(s)]
  <2>0. \A t \in Scanners \ {s} : scan'[t] = scan[t]
    BY <1>1, OneMoves DEF ScanStep
  <2>1. ~At(s, "alert") /\ alerts' = alerts /\ mishaps' = mishaps
    BY <1>1 DEF RecordEvent, At
  <2>2. CASE ~Present(m)
    BY <1>1, <2>0, <2>1, <2>2, AlertFrame DEF RecordEvent
  <2>3. CASE Present(m)
    <3>1. events' = events \cup {new} /\ issued \in Nat /\ (\A e \in events : e.id # new.id)
      BY <1>1, <2>3 DEF RecordEvent, WantsAlert, IdInv, TypeOK
    <3>2. EventSet'
      BY <3>1, FS_AddElement DEF AlertInv, EventSet
    <3>3. new \notin Unalerted'
      <4>1. CASE EventKind(s) \in Alerting
        <5> DEFINE rec == [Call(s) EXCEPT !.pc = "alert", !.ev = issued + 1]
        <5>1. To(s, rec)
          BY <1>1, <2>3, <4>1 DEF RecordEvent, WantsAlert
        <5>2. rec.pc = "alert" /\ rec.ev = new.id
          BY DEF TypeOK, ScanState, Call
        <5> HIDE DEF rec
        <5>3. scan'[s].pc = "alert" /\ scan'[s].ev = new.id
          BY <5>1, <5>2, ToOne
        <5> QED
          BY <5>3 DEF Unalerted, At
      <4>2. CASE EventKind(s) \notin Alerting
        BY <4>2 DEF Unalerted
      <4> QED
        BY <4>1, <4>2
    <3> HIDE DEF new
    <3>4. Unalerted' \subseteq Unalerted
      BY <2>0, <2>1, <3>1, <3>3 DEF Unalerted, At
    <3> QED
      BY <2>1, <3>2, <3>4, UnalertedFinite, NoneCutOff DEF AlertInv, AlertsComplete
  <2> QED
    BY <2>2, <2>3
<1>2. ASSUME NEW s \in Scanners, CreateAlert(s) PROVE AlertInv'
  <2>0. \A t \in Scanners \ {s} : scan'[t] = scan[t]
    BY <1>2, OneMoves DEF ScanStep
  <2>1. At(s, "alert") /\ events' = events /\ mishaps' = mishaps /\ alerts \subseteq alerts'
    BY <1>2 DEF CreateAlert
  <2>2. ASSUME NEW e \in events, e.id = scan[s].ev
        PROVE  \E a \in alerts' : a.event = e.id
    <3>1. Present(scan[s].cur)
      BY <2>1, <2>2 DEF IdInv, ReferentialIntegrity
    <3>2. [event |-> e.id, mac |-> scan[s].cur, kind |-> EventKind(s)] \in alerts'
      BY <1>2, <2>2, <3>1 DEF CreateAlert
    <3> QED
      BY <3>2
  <2>3. Unalerted' \subseteq Unalerted
    BY <2>0, <2>1, <2>2 DEF Unalerted, At
  <2> QED
    BY <2>1, <2>3, UnalertedFinite, NoneCutOff DEF AlertInv, AlertsComplete, EventSet
<1>3. ASSUME NEW s \in Scanners, StartScan(s) \/ ScanStep(s),
             ~RecordEvent(s), ~CreateAlert(s)
      PROVE  AlertInv'
  <2>1. ~At(s, "alert") /\ events' = events /\ alerts' = alerts /\ mishaps' = mishaps
    BY <1>3 DEF StartScan, ScanStep, Collect, Lookup, SelectRow, UpdateRow, InsertRow,
       RereadRow, NameRow, AskClients, AskNodes, AskChester, ListOnline, MarkOffline,
       ListOffline, MarkOnline, Finish, Exhausted, At, db
  <2> QED
    BY <1>3, <2>1, OneMoves, AlertFrame
<1>4. ASSUME (\E s \in Scanners : Fault(s)) \/ Crash PROVE AlertInv'
  BY <1>4, AlertCutOff DEF Fault, Crash, db
<1>5. ASSUME NEW m \in Mac, DeleteDevice(m) PROVE AlertInv'
  <2>1. ASSUME NEW a \in alerts, a \notin alerts', NEW e \in events' PROVE e.id # a.event
    <3>1. a.mac = m /\ e \in events /\ e.mac # m
      BY <1>5, <2>1 DEF DeleteDevice
    <3>2. PICK f \in events : f.id = a.event /\ f.mac = a.mac
      BY DEF ReferentialIntegrity
    <3> QED
      BY <3>1, <3>2 DEF AlertInv, EventSet
  <2> QED
    BY <1>5, <2>1, AlertFrame DEF DeleteDevice
<1>6. CASE UNCHANGED vars \/ (\E m \in Mac : RenameDevice(m)) \/ (\E m \in Node : SyncNode(m))
  BY <1>6, AlertFrame DEF vars, RenameDevice, SyncNode
<1> QED
  BY <1>1, <1>2, <1>3, <1>4, <1>5, <1>6 DEF Next

LEMMA AlertInvAlways == Spec => []AlertInv
<1>1. Init => AlertInv
  <2> SUFFICES ASSUME Init PROVE AlertInv
    OBVIOUS
  <2>1. Unalerted = {} /\ events = {} /\ mishaps = 0
    BY DEF Init, Unalerted
  <2>2. Cardinality(Scanners) \in Nat
    BY FinitenessAssumption, FS_CardinalityType DEF FinitenessAssumption
  <2> QED
    BY <2>1, <2>2, FS_EmptySet DEF AlertInv, EventSet, AlertsComplete, CutOff
<1> QED
  BY <1>1, Typed, ReferencesHold, AlertStep, PTL DEF Spec

(* Every event that calls for an alert has it, but for one per scanner and
   crash or error between the two commits of _record_device_event.          *)
THEOREM AlertsAlways == Spec => []AlertsComplete
<1>1. AlertInv => AlertsComplete
  BY DEF AlertInv
<1> QED
  BY <1>1, AlertInvAlways, PTL

-----------------------------------------------------------------------------
(* Announcements *)

Owing == {m \in Unannounced : owed[m]}

LEMMA OwingFinite == IsFiniteSet(Owing)
  BY FinitenessAssumption, FS_Subset DEF FinitenessAssumption, Owing, Unannounced

(* Nobody new owes an announcement: rows and what they owe are as before or
   gone, announcements of rows that stay stay, and who is about to announce
   a row is so after the step, unless the row is announced.                 *)
LEMMA OwingFrame ==
    ASSUME TypeOK, NewDevicesAnnounced, mishaps' = mishaps,
           \A m \in Mac : Present(m)' /\ owed'[m] => \/ Present(m) /\ owed[m]
                                                     \/ m \notin Unannounced',
           \A e \in events : e \in events' \/ ~Present(e.mac)',
           \A s \in Scanners, m \in Mac :
               Announcing(s, m) => Announcing(s, m)' \/ m \notin Unannounced'
    PROVE  NewDevicesAnnounced'
<1>1. Owing' \subseteq Owing
  BY DEF Owing, Unannounced
<1> QED
  BY <1>1, OwingFinite, NoneCutOff DEF NewDevicesAnnounced, Owing

(* Whatever a crash or an error does to the scans. *)
LEMMA OwingCutOff ==
    ASSUME TypeOK, NewDevicesAnnounced, mishaps' = mishaps + 1,
           status' = status, events' = events, owed' = owed
    PROVE  NewDevicesAnnounced'
<1> DEFINE f == [s \in Scanners |-> scan[s].cur]
<1>1. ASSUME NEW m \in Owing', m \notin Owing
      PROVE  m \in {f[s] : s \in Scanners}
  <2>1. PICK s \in Scanners : Announcing(s, m)
    BY <1>1 DEF Owing, Unannounced, Present
  <2> QED
    BY <2>1 DEF Announcing
<1> HIDE DEF f
<1>2. Owing' \subseteq Owing \cup {f[s] : s \in Scanners}
  BY <1>1
<1> QED
  BY <1>2, OwingFinite, Accounted DEF NewDevicesAnnounced, Owing

(* A step of a scan at a place from which nothing is announced. *)
LEMMA NotAnnouncing ==
    ASSUME TypeOK, NewDevicesAnnounced, mishaps' = mishaps,
           \A m \in Mac : Present(m)' => Present(m),
           owed' = owed, events \subseteq events',
           NEW s \in Scanners, StartScan(s) \/ ScanStep(s),
           \/ scan[s].pc \notin {"reread", "name", "event"}
           \/ ~In(s, "merged") \/ scan[s].existed
    PROVE  NewDevicesAnnounced'
  BY OneMoves, OwingFrame DEF Announcing, In

LEMMA AnnouncedStep ==
    TypeOK /\ NewDevicesAnnounced /\ [Next]_vars => NewDevicesAnnounced'
<1> SUFFICES ASSUME TypeOK, NewDevicesAnnounced, [Next]_vars PROVE NewDevicesAnnounced'
  OBVIOUS
<1>1. ASSUME NEW s \in Scanners, StartScan(s) \/ ScanStep(s) PROVE NewDevicesAnnounced'
  <2> DEFINE m == scan[s].cur
  <2>0. /\ scan[s] \in ScanState /\ Call(s) = scan[s] /\ m \in Mac
        /\ \A t \in Scanners \ {s} : scan'[t] = scan[t]
    BY <1>1, OneMoves DEF TypeOK, Call, ScanState
  <2>1. CASE InsertRow(s)
    <3>1. CASE Present(m)
      BY <1>1, <2>1, <3>1, NotAnnouncing DEF InsertRow, hist, Present, At
    <3>2. CASE ~Present(m)
      <4> DEFINE rec == [Call(s) EXCEPT !.pc = "reread"]
      <4>1. To(s, rec) /\ rec.pc = "reread" /\ rec.phase = scan[s].phase
            /\ rec.existed = scan[s].existed /\ rec.cur = m
        BY <2>0, <2>1, <3>2 DEF InsertRow, ScanState
      <4> HIDE DEF rec
      <4>2. scan'[s] = rec
        BY <4>1, ToOne
      <4>3. \A t \in Scanners, x \in Mac : Announcing(t, x) => Announcing(t, x)'
        BY <2>0, <2>1 DEF InsertRow, Announcing, In, At
      <4>4. owed'[m] => m \notin Unannounced'
        <5>1. owed'[m] = (In(s, "merged") /\ ~scan[s].existed)
          BY <2>0, <2>1, <3>2 DEF InsertRow, TypeOK
        <5> QED
          BY <4>1, <4>2, <5>1 DEF Unannounced, Announcing, In
      <4>5. /\ \A x \in Mac \ {m} : owed'[x] = owed[x] /\ status'[x] = status[x]
            /\ events' = events /\ mishaps' = mishaps
        BY <2>0, <2>1, <3>2 DEF InsertRow, TypeOK
      <4> QED
        BY <4>3, <4>4, <4>5, OwingFrame DEF Present
    <3> QED
      BY <3>1, <3>2
  <2>2. CASE /\ RereadRow(s) \/ NameRow(s) \/ RecordEvent(s)
             /\ In(s, "merged") /\ ~scan[s].existed
    <3>1. \A x \in Mac : Announcing(s, x) => x = m
      BY DEF Announcing
    <3>2. /\ status' = status /\ owed' = owed /\ mishaps' = mishaps
          /\ events \subseteq events'
      BY <2>2 DEF RereadRow, NameRow, RecordEvent, db, hist
    <3>3. CASE ~Present(m)
      <4>1. m \notin Unannounced'
        BY <3>2, <3>3 DEF Unannounced, Present
      <4> QED
        BY <2>0, <3>1, <3>2, <4>1, OwingFrame DEF Announcing, Present, In
    <3>4. CASE Present(m) /\ (RereadRow(s) \/ NameRow(s))
      <4>1. PICK pc \in {"name", "event"} : To(s, [Call(s) EXCEPT !.pc = pc])
        BY <2>2, <3>4 DEF RereadRow, NameRow, In
      <4> DEFINE rec == [Call(s) EXCEPT !.pc = pc]
      <4>2. To(s, rec) /\ rec.pc = pc /\ rec.phase = scan[s].phase
            /\ rec.existed = scan[s].existed /\ rec.cur = m
        BY <2>0, <4>1 DEF ScanState
      <4> HIDE DEF rec
      <4>3. scan'[s] = rec
        BY <4>2, ToOne
      <4>4. \A x \in Mac : Announcing(s, x) => Announcing(s, x)'
        BY <4>2, <4>3 DEF Announcing, In
      <4>5. \A t \in Scanners, x \in Mac : Announcing(t, x) => Announcing(t, x)'
        BY <2>0, <4>4 DEF Announcing, In
      <4> QED
        BY <3>2, <4>5, OwingFrame DEF Present
    <3>5. CASE Present(m) /\ RecordEvent(s)
      <4>0. EventKind(s) = "new_device"
        BY <2>2 DEF EventKind, In
      <4>1. [id |-> issued + 1, mac |-> m, kind |-> "new_device"] \in events'
        BY <3>5, <4>0 DEF RecordEvent
      <4>2. m \notin Unannounced'
        BY <4>1 DEF Unannounced
      <4> QED
        BY <2>0, <3>1, <3>2, <4>2, OwingFrame DEF Announcing, Present, In
    <3> QED
      BY <2>2, <3>3, <3>4, <3>5
  <2>3. CASE /\ RereadRow(s) \/ NameRow(s) \/ RecordEvent(s)
             /\ ~In(s, "merged") \/ scan[s].existed
    <3>1. /\ status' = status /\ owed' = owed /\ mishaps' = mishaps
          /\ events \subseteq events'
      BY <2>3 DEF RereadRow, NameRow, RecordEvent, db, hist
    <3> QED
      BY <1>1, <2>3, <3>1, NotAnnouncing DEF Present
  <2>4. CASE UpdateRow(s) \/ MarkOffline(s) \/ MarkOnline(s)
    <3>1. /\ \A x \in Mac : Present(x)' => Present(x)
          /\ owed' = owed /\ mishaps' = mishaps /\ events' = events
          /\ scan[s].pc \in {"write", "next"}
      BY <2>0, <2>4 DEF UpdateRow, MarkOffline, MarkOnline, Present, TypeOK, At
    <3> QED
      BY <1>1, <3>1, NotAnnouncing
  <2>5. CASE \/ StartScan(s) \/ Collect(s) \/ Lookup(s) \/ SelectRow(s) \/ CreateAlert(s)
             \/ AskClients(s) \/ AskNodes(s) \/ AskChester(s) \/ ListOnline(s)
             \/ ListOffline(s) \/ Finish(s)
    <3>1. /\ status' = status /\ owed' = owed /\ mishaps' = mishaps /\ events' = events
          /\ scan[s].pc \notin {"reread", "name", "event"}
      BY <2>5 DEF StartScan, Collect, Lookup, SelectRow, CreateAlert, AskClients,
         AskNodes, AskChester, ListOnline, ListOffline, Finish, Exhausted, At, db, hist
    <3> QED
      BY <1>1, <3>1, NotAnnouncing DEF Present
  <2> QED
    BY <1>1, <2>1, <2>2, <2>3, <2>4, <2>5 DEF ScanStep
<1>2. ASSUME (\E s \in Scanners : Fault(s)) \/ Crash PROVE NewDevicesAnnounced'
  BY <1>2, OwingCutOff DEF Fault, Crash, db, hist
<1>3. ASSUME NEW m \in Mac, DeleteDevice(m) PROVE NewDevicesAnnounced'
  <2>1. /\ \A x \in Mac : x # m => owed'[x] = owed[x] /\ status'[x] = status[x]
        /\ ~Present(m)' /\ scan' = scan /\ mishaps' = mishaps
        /\ \A e \in events : e \in events' \/ e.mac = m
    BY <1>3 DEF DeleteDevice, TypeOK, Present
  <2> QED
    BY <2>1, OwingFrame DEF Present, Announcing, In
<1>4. CASE UNCHANGED vars \/ (\E m \in Mac : RenameDevice(m)) \/ (\E m \in Node : SyncNode(m))
  <2>1. /\ \A x \in Mac : Present(x)' => Present(x)
        /\ owed' = owed /\ events' = events /\ mishaps' = mishaps /\ scan' = scan
    BY <1>4 DEF vars, db, hist, RenameDevice, SyncNode, Present, TypeOK
  <2> QED
    BY <2>1, OwingFrame DEF Announcing, In
<1> QED
  BY <1>1, <1>2, <1>3, <1>4 DEF Next

(* A row inserted by the branch for new devices has its new_device event, or
   someone is about to write it, but for one row per scanner and crash or
   error: neither another scan nor the DELETE route can keep it from it.    *)
THEOREM NewDevicesAlways == Spec => []NewDevicesAnnounced
<1>1. Init => NewDevicesAnnounced
  <2> SUFFICES ASSUME Init PROVE NewDevicesAnnounced
    OBVIOUS
  <2>1. {m \in Unannounced : owed[m]} = {} /\ mishaps = 0
    BY DEF Init, Unannounced
  <2>2. Cardinality(Scanners) \in Nat
    BY FinitenessAssumption, FS_CardinalityType DEF FinitenessAssumption
  <2> QED
    BY <2>1, <2>2, FS_EmptySet DEF NewDevicesAnnounced, CutOff
<1> QED
  BY <1>1, Typed, AnnouncedStep, PTL DEF Spec

-----------------------------------------------------------------------------
(* Departures *)

(* Who sweeps has rows left that have not been offline since they were listed. *)
SweepInv ==
    \A s \in Scanners, m \in Mac :
        Active(s) /\ In(s, "sweep") /\ Left(s, m) => status[m] # "offline"

Lost(m) == gone[m] - Cardinality(Disconnects(m)) - Cardinality(Leaving(m))

LEMMA LostIs ==
    ASSUME NEW s \in Scanners, Scanners = {s}, TypeOK, EventSet, NEW m \in Mac
    PROVE  /\ IsFiniteSet(Disconnects(m)) /\ Cardinality(Disconnects(m)) \in Nat
           /\ Cardinality(Leaving(m)) =
                 IF At(s, "event") /\ In(s, "sweep") /\ scan[s].cur = m THEN 1 ELSE 0
           /\ CutOff = mishaps /\ gone[m] \in Nat /\ mishaps \in Nat
<1>1. Leaving(m) = IF At(s, "event") /\ In(s, "sweep") /\ scan[s].cur = m
                   THEN {s} ELSE {}
  BY DEF Leaving
<1>2. Cardinality(Scanners) = 1
  BY FS_Singleton
<1>3. IsFiniteSet(Disconnects(m))
  BY FS_Subset DEF Disconnects, EventSet
<1> QED
  BY <1>1, <1>2, <1>3, FS_Singleton, FS_EmptySet, FS_CardinalityType DEF CutOff, TypeOK

(* The step takes nobody away and makes no row one that is left to sweep. *)
Steady(s) ==
    /\ scan'[s].pc # "event" \/ scan'[s].phase # "sweep"
    /\ \A m \in Mac : Active(s)' /\ In(s, "sweep")' /\ Left(s, m)'
                        => Active(s) /\ In(s, "sweep") /\ Left(s, m)

LEMMA ToSteady ==
    ASSUME TypeOK, NEW s \in Scanners, NEW rec, To(s, rec),
           \/ rec.pc = "idle" \/ rec.phase # "sweep"
           \/ /\ ~At(s, "idle") /\ rec.phase = scan[s].phase /\ rec.pc # "event"
              /\ \A m \in rec.todo : rec.pc = "next" \/ m # rec.cur => Left(s, m)
    PROVE  Steady(s)
<1>1. scan'[s] = rec
  BY ToOne
<1> QED
  BY <1>1 DEF Steady, Active, In, Left, At

LEMMA RaiseSteady ==
    ASSUME TypeOK, NEW s \in Scanners, Raise(s)
    PROVE  Steady(s)
<1> DEFINE rec1 == [Call(s) EXCEPT !.pc = "next", !.todo = {}]
           rec2 == Idle(scan[s].seen, "failed")
<1>0. scan[s] \in ScanState /\ Call(s) = scan[s]
  BY DEF TypeOK, Call
<1>1. CASE In(s, "clients") \/ In(s, "nodes") \/ (In(s, "chester") /\ ~At(s, "next"))
  <2>1. To(s, rec1) /\ rec1.phase # "sweep"
    BY <1>0, <1>1 DEF Raise, In, ScanState
  <2> HIDE DEF rec1
  <2> QED
    BY <2>1, ToSteady
<1>2. CASE ~(In(s, "clients") \/ In(s, "nodes") \/ (In(s, "chester") /\ ~At(s, "next")))
  <2>1. To(s, rec2) /\ rec2.pc = "idle"
    BY <1>2 DEF Raise, Idle
  <2> HIDE DEF rec2
  <2> QED
    BY <2>1, ToSteady
<1> QED
  BY <1>1, <1>2

LEMMA ResumeSteady ==
    ASSUME TypeOK, NEW s \in Scanners, Resume(s), ~At(s, "idle")
    PROVE  Steady(s)
<1> DEFINE rec == [Call(s) EXCEPT
                     !.pc = "next",
                     !.todo = @ \ {scan[s].cur},
                     !.seen = IF scan[s].phase \in {"sweep", "revive"} THEN @
                              ELSE @ \cup {scan[s].cur}]
<1>1. To(s, rec)
  BY DEF Resume
<1>2. /\ rec.pc = "next" /\ rec.phase = scan[s].phase
      /\ rec.todo = scan[s].todo \ {scan[s].cur}
  BY DEF TypeOK, ScanState, Call
<1> HIDE DEF rec
<1> QED
  BY <1>1, <1>2, ToSteady DEF Left

LEMMA MostSteady ==
    ASSUME TypeOK, PresenceInv, NEW s \in Scanners, StartScan(s) \/ ScanStep(s) \/ Fault(s),
           ~MarkOffline(s), ~ListOnline(s)
    PROVE  Steady(s)
<1>0. scan[s] \in ScanState /\ Call(s) = scan[s] /\ Stage(s)
  BY DEF TypeOK, Call, PresenceInv
<1>1. CASE StartScan(s)
  <2> DEFINE rec == [Idle({}, "none") EXCEPT !.pc = "collect"]
  <2>1. To(s, rec) /\ rec.phase = "merged"
    BY <1>1 DEF StartScan, Idle
  <2> HIDE DEF rec
  <2> QED
    BY <2>1, ToSteady
<1>2. CASE Collect(s) \/ Lookup(s) \/ SelectRow(s) \/ UpdateRow(s)
  <2>1. scan[s].phase # "sweep"
    BY <1>0, <1>2 DEF Collect, Lookup, SelectRow, UpdateRow, Stage, Active, Before, At, In
  <2>2. ASSUME NEW merged, To(s, [Call(s) EXCEPT !.pc = "next", !.todo = merged,
                                                 !.heard = merged # {}])
        PROVE  Steady(s)
    <3> DEFINE rec == [Call(s) EXCEPT !.pc = "next", !.todo = merged, !.heard = merged # {}]
    <3>1. To(s, rec) /\ rec.phase # "sweep"
      BY <1>0, <2>1, <2>2 DEF ScanState
    <3> HIDE DEF rec
    <3> QED
      BY <3>1, ToSteady
  <2>3. ASSUME NEW m, NEW e, NEW n, NEW pc,
               To(s, [Call(s) EXCEPT !.cur = m, !.existed = e, !.named = n, !.pc = pc])
        PROVE  Steady(s)
    <3> DEFINE rec == [Call(s) EXCEPT !.cur = m, !.existed = e, !.named = n, !.pc = pc]
    <3>1. To(s, rec) /\ rec.phase # "sweep"
      BY <1>0, <2>1, <2>3 DEF ScanState
    <3> HIDE DEF rec
    <3> QED
      BY <3>1, ToSteady
  <2>4. ASSUME NEW r, To(s, [Call(s) EXCEPT !.pc = "write", !.rowed = r])
        PROVE  Steady(s)
    <3> DEFINE rec == [Call(s) EXCEPT !.pc = "write", !.rowed = r]
    <3>1. To(s, rec) /\ rec.phase # "sweep"
      BY <1>0, <2>1, <2>4 DEF ScanState
    <3> HIDE DEF rec
    <3> QED
      BY <3>1, ToSteady
  <2>5. ASSUME To(s, [Call(s) EXCEPT !.pc = "reread"]) PROVE Steady(s)
    <3> DEFINE rec == [Call(s) EXCEPT !.pc = "reread"]
    <3>1. To(s, rec) /\ rec.phase # "sweep"
      BY <1>0, <2>1, <2>5 DEF ScanState
    <3> HIDE DEF rec
    <3> QED
      BY <3>1, ToSteady
  <2> QED
    BY <1>2, <2>2, <2>3, <2>4, <2>5 DEF Collect, Lookup, SelectRow, UpdateRow
<1>3. CASE InsertRow(s) \/ RereadRow(s) \/ NameRow(s)
  <2>1. scan[s].phase # "sweep" /\ ~At(s, "idle")
    BY <1>0, <1>3 DEF InsertRow, RereadRow, NameRow, Stage, Active, Before, At, In
  <2>2. ASSUME NEW pc, To(s, [Call(s) EXCEPT !.pc = pc]) PROVE Steady(s)
    <3> DEFINE rec == [Call(s) EXCEPT !.pc = pc]
    <3>1. To(s, rec) /\ rec.phase # "sweep"
      BY <1>0, <2>1, <2>2 DEF ScanState
    <3> HIDE DEF rec
    <3> QED
      BY <3>1, ToSteady
  <2> QED
    BY <1>3, <2>1, <2>2, RaiseSteady, ResumeSteady DEF InsertRow, RereadRow, NameRow
<1>4. CASE RecordEvent(s) \/ CreateAlert(s)
  <2>1. ~At(s, "idle")
    BY <1>4 DEF RecordEvent, CreateAlert, At
  <2>2. CASE RecordEvent(s) /\ To(s, [Call(s) EXCEPT !.pc = "alert", !.ev = issued + 1])
    <3> DEFINE rec == [Call(s) EXCEPT !.pc = "alert", !.ev = issued + 1]
    <3>1. To(s, rec) /\ rec.phase = scan[s].phase /\ rec.pc = "alert"
          /\ rec.todo = scan[s].todo /\ rec.cur = scan[s].cur
      BY <1>0, <2>2 DEF ScanState
    <3> HIDE DEF rec
    <3> QED
      BY <2>1, <3>1, ToSteady DEF Left
  <2> QED
    BY <1>4, <2>1, <2>2, ResumeSteady DEF RecordEvent, CreateAlert
<1>5. CASE AskClients(s)
  <2>1. PICK found : To(s, [Call(s) EXCEPT !.phase = "clients", !.todo = found,
                                           !.heard = @ \/ found # {}])
    BY <1>5 DEF AskClients
  <2> DEFINE rec == [Call(s) EXCEPT !.phase = "clients", !.todo = found,
                                    !.heard = @ \/ found # {}]
  <2>2. To(s, rec) /\ rec.phase # "sweep"
    BY <1>0, <2>1 DEF ScanState
  <2> HIDE DEF rec
  <2> QED
    BY <2>2, ToSteady
<1>6. CASE AskNodes(s)
  <2>1. ASSUME NEW fresh, NEW used,
               To(s, [Call(s) EXCEPT !.phase = "nodes", !.todo = fresh, !.seen = @ \cup used,
                                     !.heard = @ \/ fresh # {}])
        PROVE  Steady(s)
    <3> DEFINE rec == [Call(s) EXCEPT !.phase = "nodes", !.todo = fresh, !.seen = @ \cup used,
                                      !.heard = @ \/ fresh # {}]
    <3>1. To(s, rec) /\ rec.phase # "sweep"
      BY <1>0, <2>1 DEF ScanState
    <3> HIDE DEF rec
    <3> QED
      BY <3>1, ToSteady
  <2>2. CASE To(s, [Call(s) EXCEPT !.phase = "nodes"])
    <3> DEFINE rec == [Call(s) EXCEPT !.phase = "nodes"]
    <3>1. To(s, rec) /\ rec.phase # "sweep"
      BY <1>0, <2>2 DEF ScanState
    <3> HIDE DEF rec
    <3> QED
      BY <3>1, ToSteady
  <2> QED
    BY <1>6, <2>1, <2>2 DEF AskNodes
<1>7. CASE AskChester(s)
  <2>1. CASE To(s, [Call(s) EXCEPT !.phase = "chester", !.pc = "select", !.cur = Gateway,
                      !.existed = TRUE, !.seen = @ \cup {Gateway}, !.heard = TRUE])
    <3> DEFINE rec == [Call(s) EXCEPT !.phase = "chester", !.pc = "select", !.cur = Gateway,
                         !.existed = TRUE, !.seen = @ \cup {Gateway}, !.heard = TRUE]
    <3>1. To(s, rec) /\ rec.phase # "sweep"
      BY <1>0, <2>1 DEF ScanState
    <3> HIDE DEF rec
    <3> QED
      BY <3>1, ToSteady
  <2>2. CASE To(s, [Call(s) EXCEPT !.phase = "chester"])
    <3> DEFINE rec == [Call(s) EXCEPT !.phase = "chester"]
    <3>1. To(s, rec) /\ rec.phase # "sweep"
      BY <1>0, <2>2 DEF ScanState
    <3> HIDE DEF rec
    <3> QED
      BY <3>1, ToSteady
  <2> QED
    BY <1>7, <2>1, <2>2 DEF AskChester
<1>8. CASE ListOffline(s)
  <2> DEFINE rec == [Call(s) EXCEPT !.phase = "revive",
                                    !.todo = Rows("offline") \cap scan[s].seen]
  <2>1. To(s, rec) /\ rec.phase # "sweep"
    BY <1>0, <1>8 DEF ListOffline, ScanState
  <2> HIDE DEF rec
  <2> QED
    BY <2>1, ToSteady
<1>9. CASE MarkOnline(s)
  <2>1. PICK m : To(s, [Call(s) EXCEPT !.cur = m, !.pc = "event"])
    BY <1>9 DEF MarkOnline
  <2> DEFINE rec == [Call(s) EXCEPT !.cur = m, !.pc = "event"]
  <2>2. To(s, rec) /\ rec.phase # "sweep"
    BY <1>0, <1>9, <2>1 DEF MarkOnline, In, ScanState
  <2> HIDE DEF rec
  <2> QED
    BY <2>2, ToSteady
<1>10. CASE Finish(s)
  <2> DEFINE rec == Idle(scan[s].seen, "complete")
  <2>1. To(s, rec) /\ rec.pc = "idle"
    BY <1>10 DEF Finish, Idle
  <2> HIDE DEF rec
  <2> QED
    BY <2>1, ToSteady
<1>11. CASE Fault(s)
  BY <1>11, RaiseSteady, ResumeSteady DEF Fault
<1> QED
  BY <1>1, <1>2, <1>3, <1>4, <1>5, <1>6, <1>7, <1>8, <1>9, <1>10, <1>11 DEF ScanStep

LEMMA SweepStep ==
    ASSUME NEW s \in Scanners, Scanners = {s},
           TypeOK, PresenceInv, SweepInv, [Next]_vars
    PROVE  SweepInv'
<1>1. ASSUME Steady(s), \A m \in Mac : status'[m] = "offline" => status[m] = "offline"
      PROVE  SweepInv'
  BY <1>1 DEF SweepInv, Steady
<1>2. CASE (StartScan(s) \/ ScanStep(s) \/ Fault(s)) /\ ~MarkOffline(s) /\ ~ListOnline(s)
  <2>1. \A m \in Mac : status'[m] = "offline" => status[m] = "offline"
    BY <1>2 DEF StartScan, ScanStep, Fault, Collect, Lookup, SelectRow, UpdateRow, InsertRow,
       RereadRow, NameRow, RecordEvent, CreateAlert, AskClients, AskNodes, AskChester,
       ListOffline, MarkOnline, Finish, db, TypeOK
  <2> QED
    BY <1>1, <1>2, <2>1, MostSteady
<1>3. CASE ListOnline(s)
  <2>1. status' = status
    BY <1>3 DEF ListOnline, db
  <2>2. CASE scan[s].seen = {}
    <3> DEFINE rec == Idle({}, "skipped")
    <3>1. To(s, rec) /\ rec.pc = "idle"
      BY <1>3, <2>2 DEF ListOnline, Idle
    <3> HIDE DEF rec
    <3> QED
      BY <1>1, <2>1, <3>1, ToSteady
  <2>3. CASE scan[s].seen # {}
    <3> DEFINE rec == [Call(s) EXCEPT !.phase = "sweep",
                                      !.todo = Rows("online") \ scan[s].seen]
    <3>1. To(s, rec) /\ rec.todo \subseteq Rows("online")
      BY <1>3, <2>3 DEF ListOnline, TypeOK, ScanState, Call
    <3> HIDE DEF rec
    <3>2. scan'[s] = rec
      BY <3>1, ToOne
    <3> QED
      BY <2>1, <3>1, <3>2 DEF SweepInv, Left, Rows
  <2> QED
    BY <2>2, <2>3
<1>4. CASE MarkOffline(s)
  <2>1. PICK m \in scan[s].todo :
          /\ status' = [status EXCEPT ![m] = IF @ = "absent" THEN @ ELSE "offline"]
          /\ To(s, [Call(s) EXCEPT !.cur = m, !.pc = "event"])
    BY <1>4 DEF MarkOffline
  <2> DEFINE rec == [Call(s) EXCEPT !.cur = m, !.pc = "event"]
  <2>2. To(s, rec) /\ rec.pc = "event" /\ rec.cur = m /\ rec.todo = scan[s].todo
        /\ rec.phase = scan[s].phase
    BY <2>1 DEF TypeOK, ScanState, Call
  <2>3. At(s, "next") /\ In(s, "sweep")
    BY <1>4 DEF MarkOffline
  <2> HIDE DEF rec
  <2>4. scan'[s] = rec
    BY <2>2, ToOne
  <2>5. \A x \in Mac \ {m} : status'[x] = status[x]
    BY <2>1 DEF TypeOK
  <2> QED
    BY <2>2, <2>3, <2>4, <2>5 DEF SweepInv, Active, At, Left
<1>5. CASE Crash
  <2>1. scan'[s].pc = "idle"
    BY <1>5 DEF Crash, Idle
  <2> QED
    BY <2>1 DEF SweepInv, Active, At
<1>6. CASE UNCHANGED vars \/ (\E m \in Mac : RenameDevice(m) \/ DeleteDevice(m))
           \/ (\E m \in Node : SyncNode(m))
  <2>1. scan' = scan /\ \A m \in Mac : status'[m] = "offline" => status[m] = "offline"
    BY <1>6 DEF vars, RenameDevice, DeleteDevice, SyncNode, TypeOK
  <2> QED
    BY <2>1 DEF SweepInv, Active, At, In, Left
<1> QED
  BY <1>2, <1>3, <1>4, <1>5, <1>6 DEF Next

(* A departure is told, about to be told, or cut off.  A step that leaves
   alone the departures of m and their events changes nothing about it, ... *)
LEMMA LostFrame ==
    ASSUME NEW s \in Scanners, Scanners = {s}, TypeOK, TypeOK', EventSet, EventSet',
           DeparturesRecorded, NEW m \in Mac, Present(m), mishaps' = mishaps,
           gone'[m] = gone[m], Disconnects(m)' = Disconnects(m), Leaving(m)' = Leaving(m)
    PROVE  Lost(m)' \in 0..CutOff'
<1>1. Lost(m) \in 0..CutOff
  BY DEF DeparturesRecorded, Lost
<1>2. Lost(m)' = Lost(m) /\ CutOff' = CutOff
  BY DEF Lost, CutOff
<1> QED
  BY <1>1, <1>2

(* ... and a crash or an error cuts off one at most.                        *)
LEMMA LostCutOff ==
    ASSUME NEW s \in Scanners, Scanners = {s}, TypeOK, TypeOK', EventSet, EventSet',
           DeparturesRecorded, NEW m \in Mac, Present(m), mishaps' = mishaps + 1,
           gone'[m] = gone[m], Disconnects(m)' = Disconnects(m), Leaving(m)' = {}
    PROVE  Lost(m)' \in 0..CutOff'
<1>1. Lost(m) \in 0..CutOff
  BY DEF DeparturesRecorded, Lost
<1>2. /\ Cardinality(Disconnects(m)) \in Nat /\ Cardinality(Leaving(m)) \in 0..1
      /\ CutOff = mishaps /\ gone[m] \in Nat /\ mishaps \in Nat
  BY LostIs
<1>3. CutOff' = mishaps'
  <2>1. Cardinality(Scanners) = 1
    BY FS_Singleton
  <2> QED
    BY <1>2, <2>1 DEF CutOff
<1>4. Lost(m)' = gone[m] - Cardinality(Disconnects(m)) - 0
  BY FS_EmptySet DEF Lost
<1> QED
  BY <1>1, <1>2, <1>3, <1>4 DEF Lost

LEMMA DepartureStep ==
    ASSUME NEW s \in Scanners, Scanners = {s}, TypeOK, TypeOK', PresenceInv, PresenceInv',
           ReferentialIntegrity, EventSet, EventSet', IdInv, SweepInv, DeparturesRecorded,
           [Next]_vars
    PROVE  DeparturesRecorded'
<1> SUFFICES ASSUME NEW m \in Mac, Present(m)'
             PROVE  Lost(m)' \in 0..CutOff'
  BY DEF DeparturesRecorded, Lost
<1>0. scan[s] \in ScanState /\ Call(s) = scan[s] /\ Stage(s) /\ Cardinality(Scanners) = 1
  BY FS_Singleton DEF TypeOK, Call, PresenceInv
<1>1. Leaving(m) = (IF At(s, "event") /\ In(s, "sweep") /\ scan[s].cur = m THEN {s} ELSE {})
      /\ Leaving(m)' = (IF scan'[s].pc = "event" /\ scan'[s].phase = "sweep" /\ scan'[s].cur = m
                        THEN {s} ELSE {})
  BY DEF Leaving, At, In
<1>2. CASE InsertRow(s) /\ ~Present(m)
  <2>1. scan[s].cur = m /\ gone'[m] = 0 /\ events' = events /\ mishaps' = mishaps
    BY <1>2 DEF InsertRow, Present, TypeOK, hist
  <2>2. Disconnects(m)' = {}
    BY <1>2, <2>1 DEF Disconnects, ReferentialIntegrity
  <2>3. Leaving(m)' = {}
    BY <1>1, <1>2, MostSteady DEF Steady, ScanStep, InsertRow, MarkOffline, ListOnline, At, Exhausted
  <2>4. CutOff' = mishaps /\ mishaps \in Nat
    BY <1>0, <2>1 DEF CutOff, TypeOK
  <2> QED
    BY <2>1, <2>2, <2>3, <2>4, FS_EmptySet DEF Lost
<1>3. CASE MarkOffline(s)
  <2>1. PICK x \in scan[s].todo :
          /\ status' = [status EXCEPT ![x] = IF @ = "absent" THEN @ ELSE "offline"]
          /\ gone'   = [gone EXCEPT ![x] = IF status[x] = "online" THEN @ + 1 ELSE @]
          /\ To(s, [Call(s) EXCEPT !.cur = x, !.pc = "event"])
    BY <1>3 DEF MarkOffline
  <2> DEFINE rec == [Call(s) EXCEPT !.cur = x, !.pc = "event"]
  <2>2. To(s, rec) /\ rec.pc = "event" /\ rec.cur = x /\ rec.phase = scan[s].phase
    BY <1>0, <2>1 DEF ScanState
  <2>3. At(s, "next") /\ In(s, "sweep") /\ events' = events /\ mishaps' = mishaps
    BY <1>3 DEF MarkOffline
  <2> HIDE DEF rec
  <2>4. scan'[s] = rec /\ Leaving(m) = {} /\ Disconnects(m)' = Disconnects(m)
    BY <1>1, <2>2, <2>3, ToOne DEF Disconnects, At
  <2>5. x \in Mac
    BY <1>0, <2>1 DEF ScanState
  <2>6. Present(m)
    BY <2>1, <2>5 DEF Present, TypeOK
  <2>7. CASE x # m
    <3>1. gone'[m] = gone[m] /\ Leaving(m)' = {}
      BY <1>1, <2>1, <2>2, <2>4, <2>5, <2>7 DEF TypeOK
    <3> QED
      BY <2>3, <2>4, <2>6, <3>1, LostFrame
  <2>8. CASE x = m
    <3>1. status[m] = "online"
      BY <2>1, <2>3, <2>6, <2>8 DEF SweepInv, Active, Left, At, Present, TypeOK, RowStatus
    <3>2. gone'[m] = gone[m] + 1 /\ Leaving(m)' = {s}
      BY <1>1, <2>1, <2>2, <2>3, <2>4, <2>8, <3>1 DEF TypeOK, In
    <3>3. Lost(m) \in 0..CutOff
      BY <2>6 DEF DeparturesRecorded, Lost
    <3>5. gone[m] \in Nat /\ Cardinality(Disconnects(m)) \in Nat /\ CutOff' = CutOff
      BY <2>3, LostIs DEF CutOff
    <3>4. Lost(m) = gone[m] - Cardinality(Disconnects(m)) - 0
          /\ Lost(m)' = gone[m] + 1 - Cardinality(Disconnects(m)) - 1
      <4>1. Cardinality(Leaving(m)) = 0 /\ Cardinality(Leaving(m)') = 1
        BY <2>4, <3>2, FS_EmptySet, FS_Singleton
      <4>2. Cardinality(Disconnects(m)') = Cardinality(Disconnects(m))
        BY <2>4
      <4>3. Lost(m) = gone[m] - Cardinality(Disconnects(m)) - 0
        BY <4>1 DEF Lost
      <4>4. Lost(m)' = gone'[m] - Cardinality(Disconnects(m)) - 1
        BY <4>1, <4>2 DEF Lost
      <4> QED
        BY <3>2, <3>5, <4>3, <4>4
    <3> QED
      BY <3>3, <3>4, <3>5
  <2> QED
    BY <2>7, <2>8
<1>4. CASE RecordEvent(s)
  <2>1. At(s, "event") /\ status' = status /\ gone' = gone /\ mishaps' = mishaps
    BY <1>4 DEF RecordEvent, hist
  <2>2. Leaving(m)' = {} /\ Present(m)
    <3>1. Steady(s)
      BY <1>4, <2>1, MostSteady DEF ScanStep, MarkOffline, ListOnline, Exhausted, At
    <3> QED
      BY <1>1, <2>1, <3>1 DEF Steady, Present
  <2> DEFINE new == [id |-> issued + 1, mac |-> scan[s].cur, kind |-> EventKind(s)]
  <2>3. CASE In(s, "sweep") /\ scan[s].cur = m
    <3>1. Leaving(m) = {s} /\ EventKind(s) = "disconnected"
      BY <1>1, <2>1, <2>3 DEF EventKind, In
    <3>2. events' = events \cup {new} /\ new \notin events
      <4>1. events' = events \cup {new}
        BY <1>4, <2>2, <2>3 DEF RecordEvent
      <4>2. new.id \notin 1..issued
        BY DEF TypeOK
      <4> HIDE DEF new
      <4> QED
        BY <4>1, <4>2 DEF IdInv
    <3>3. Disconnects(m)' = Disconnects(m) \cup {new} /\ new \notin Disconnects(m)
      <4>1. new.mac = m /\ new.kind = "disconnected"
        BY <2>3, <3>1
      <4> HIDE DEF new
      <4> QED
        BY <3>2, <4>1 DEF Disconnects
    <3> HIDE DEF new
    <3>4. IsFiniteSet(Disconnects(m)) /\ Cardinality(Disconnects(m)) \in Nat
          /\ gone[m] \in Nat /\ CutOff' = CutOff
      BY <2>1, LostIs DEF CutOff
    <3>5. Cardinality(Disconnects(m)') = Cardinality(Disconnects(m)) + 1
      BY <3>3, <3>4, FS_AddElement
    <3>6. Lost(m) = gone[m] - Cardinality(Disconnects(m)) - 1
          /\ Lost(m)' = gone[m] - (Cardinality(Disconnects(m)) + 1) - 0
      BY <2>1, <2>2, <3>1, <3>5, FS_Singleton, FS_EmptySet DEF Lost
    <3>7. Lost(m) \in 0..CutOff
      BY <2>2 DEF DeparturesRecorded, Lost
    <3> QED
      BY <3>4, <3>6, <3>7
  <2>4. CASE ~In(s, "sweep") \/ scan[s].cur # m
    <3>1. Leaving(m) = {}
      BY <1>1, <2>4
    <3>2. new.mac # m \/ new.kind # "disconnected"
      BY <2>4 DEF EventKind
    <3>3. events' = events \/ events' = events \cup {new}
      BY <1>4 DEF RecordEvent
    <3> HIDE DEF new
    <3>4. Disconnects(m)' = Disconnects(m)
      BY <3>2, <3>3 DEF Disconnects
    <3> QED
      BY <2>1, <2>2, <3>1, <3>4, LostFrame
  <2> QED
    BY <2>3, <2>4
<1>5. CASE /\ StartScan(s) \/ ScanStep(s)
           /\ ~MarkOffline(s) /\ ~RecordEvent(s) /\ ~(InsertRow(s) /\ ~Present(m))
  <2>1. events' = events /\ mishaps' = mishaps /\ ~At(s, "event")
    BY <1>5 DEF StartScan, ScanStep, Collect, Lookup, SelectRow, UpdateRow, InsertRow,
       RereadRow, NameRow, CreateAlert, AskClients, AskNodes, AskChester, ListOnline,
       ListOffline, MarkOnline, Finish, Exhausted, At, db
  <2>2. gone'[m] = gone[m] /\ Present(m)
    <3>1. CASE InsertRow(s)
      BY <1>5, <3>1 DEF InsertRow, TypeOK, Present, hist
    <3>2. CASE UpdateRow(s) \/ MarkOnline(s)
      <4>1. PICK x : status' = [status EXCEPT ![x] = IF @ = "absent" THEN @ ELSE "online"]
        BY <3>2 DEF UpdateRow, MarkOnline
      <4>2. gone' = gone
        BY <3>2 DEF UpdateRow, MarkOnline
      <4> QED
        BY <4>1, <4>2 DEF Present, TypeOK
    <3>3. CASE ~(InsertRow(s) \/ UpdateRow(s) \/ MarkOnline(s))
      BY <1>5, <3>3 DEF StartScan, ScanStep, Collect, Lookup, SelectRow,
         RereadRow, NameRow, CreateAlert, AskClients, AskNodes, AskChester, ListOnline,
         ListOffline, Finish, db, hist, Present
    <3> QED
      BY <3>1, <3>2, <3>3
  <2>3. Leaving(m) = {} /\ Leaving(m)' = {}
    <3>1. CASE ListOnline(s)
      <4>1. scan'[s].pc # "event"
        <5> DEFINE rec == [Call(s) EXCEPT !.phase = "sweep",
                                          !.todo = Rows("online") \ scan[s].seen]
        <5>1. rec.pc = "next" /\ Idle({}, "skipped").pc = "idle"
          BY <1>0, <3>1 DEF ListOnline, Exhausted, At, ScanState, Idle
        <5>2. To(s, rec) \/ To(s, Idle({}, "skipped"))
          BY <3>1 DEF ListOnline
        <5> HIDE DEF rec
        <5> QED
          BY <5>1, <5>2, ToOne
      <4> QED
        BY <1>1, <2>1, <4>1
    <3>2. CASE ~ListOnline(s)
      BY <1>1, <1>5, <2>1, <3>2, MostSteady DEF Steady
    <3> QED
      BY <3>1, <3>2
  <2> QED
    BY <2>1, <2>2, <2>3, LostFrame DEF Disconnects
<1>6. CASE Fault(s) \/ Crash
  <2>1. /\ status' = status /\ gone' = gone /\ events' = events /\ mishaps' = mishaps + 1
    BY <1>6 DEF Fault, Crash, db, hist
  <2>2. scan'[s].pc # "event" \/ scan'[s].phase # "sweep"
    <3>1. CASE Crash
      BY <3>1 DEF Crash, Idle
    <3>2. CASE Fault(s)
      BY <3>2, RaiseSteady, ResumeSteady DEF Fault, Steady
    <3> QED
      BY <1>6, <3>1, <3>2
  <2>3. Leaving(m)' = {}
    BY <1>1, <2>2
  <2> QED
    BY <2>1, <2>3, LostCutOff DEF Present, Disconnects
<1>7. CASE UNCHANGED vars \/ (\E x \in Mac : RenameDevice(x)) \/ (\E x \in Node : SyncNode(x))
  <2>1. /\ scan' = scan /\ events' = events /\ gone' = gone /\ mishaps' = mishaps /\ Present(m)
    BY <1>7 DEF vars, db, hist, RenameDevice, SyncNode, Present, TypeOK
  <2> QED
    BY <1>1, <2>1, LostFrame DEF Disconnects, At, In
<1>8. CASE \E x \in Mac : DeleteDevice(x)
  <2>1. PICK x \in Mac : DeleteDevice(x)
    BY <1>8
  <2>2. x # m /\ Present(m) /\ gone'[m] = gone[m] /\ mishaps' = mishaps /\ scan' = scan
    BY <2>1 DEF DeleteDevice, Present, TypeOK
  <2>3. Disconnects(m)' = Disconnects(m)
    BY <2>1, <2>2 DEF DeleteDevice, Disconnects
  <2> QED
    BY <1>1, <2>2, <2>3, LostFrame DEF At, In
<1> QED
  BY <1>2, <1>3, <1>4, <1>5, <1>6, <1>7, <1>8 DEF Next

LEMMA PresenceAlways == Spec => []PresenceInv
  BY Typed, PresenceInit, PresenceStep, PTL DEF Spec

(* With one scanner the event log tells the departures of each device: one
   event for each change from online to offline and none besides, but for
   the one being written and one per crash or error.                        *)
THEOREM DeparturesAlways ==
    ASSUME NEW s, Scanners = {s}
    PROVE  Spec => []DeparturesRecorded
<1>1. Init => SweepInv /\ DeparturesRecorded
  <2> SUFFICES ASSUME Init PROVE SweepInv /\ DeparturesRecorded
    OBVIOUS
  <2> QED
    BY DEF Init, SweepInv, Active, At, Idle, DeparturesRecorded, Present
<1>2. (/\ TypeOK /\ IdInv /\ PresenceInv /\ ReferentialIntegrity /\ AlertInv
       /\ TypeOK' /\ PresenceInv' /\ AlertInv'
       /\ SweepInv /\ DeparturesRecorded /\ [Next]_vars)
      => SweepInv' /\ DeparturesRecorded'
  <2> SUFFICES ASSUME TypeOK, IdInv, PresenceInv, ReferentialIntegrity, AlertInv,
                      TypeOK', PresenceInv', AlertInv', SweepInv, DeparturesRecorded,
                      [Next]_vars
               PROVE  SweepInv' /\ DeparturesRecorded'
    OBVIOUS
  <2>1. s \in Scanners
    OBVIOUS
  <2>2. EventSet /\ EventSet'
    BY DEF AlertInv
  <2>3. SweepInv'
    BY <2>1, SweepStep
  <2> QED
    BY <2>1, <2>2, <2>3, DepartureStep
<1> QED
  BY <1>1, <1>2, Typed, PresenceAlways, ReferencesHold, AlertInvAlways, PTL DEF Spec

=============================================================================
