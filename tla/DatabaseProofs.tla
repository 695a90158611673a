---------------------------- MODULE DatabaseProofs ----------------------------
(* What holds of the database's two daily companions, the migrations at
   startup and the cleanups, by themselves and as parts of SeparateParts: for
   any scripts and crashes, any period, hour and clock.                     *)
EXTENDS SeparateParts, TLAPS

-----------------------------------------------------------------------------
(* The migrations: where in the order of the scripts the startup is *)

SchemaInv == MigrationTypeOK /\ Progress

LEMMA SchemaInit == MigrationInit => SchemaInv
  BY ScriptAssumption DEF ScriptAssumption, MigrationInit, SchemaInv, MigrationTypeOK, Progress

LEMMA StartKeepsSchema == SchemaInv /\ BeginStartup => SchemaInv'
<1> SUFFICES ASSUME SchemaInv, BeginStartup PROVE SchemaInv'
  OBVIOUS
<1>1. MigrationTypeOK'
  BY ScriptAssumption DEF ScriptAssumption, SchemaInv, BeginStartup, MigrationTypeOK
<1>2. (crashes = 0 => \A x \in schema : x[1] \in recorded)
  BY DEF SchemaInv, BeginStartup, Progress, MigrationTypeOK
<1> QED
  BY <1>1, <1>2 DEF SchemaInv, BeginStartup, Progress, MigrationTypeOK

LEMMA CheckKeeps == SchemaInv /\ CheckScript => SchemaInv'
<1> SUFFICES ASSUME SchemaInv, CheckScript PROVE SchemaInv'
  OBVIOUS
<1> USE ScriptAssumption DEF ScriptAssumption, SchemaInv, CheckScript, MigrationTypeOK, Progress
<1>1. CASE cur > Last
  BY <1>1
<1>2. CASE ~(cur > Last) /\ cur \in recorded
  <2>1. \A m \in 1..(cur' - 1) : m \in recorded
    BY <1>2
  <2> QED
    BY <1>2, <2>1
<1>3. CASE ~(cur > Last) /\ cur \notin recorded
  <2>1. cur \in 1..Last /\ line' = 1 /\ Length[cur] \in Nat \ {0}
    BY <1>3
  <2> QED
    BY <1>3, <2>1
<1> QED
  BY <1>1, <1>2, <1>3

LEMMA RunStatementKeeps == SchemaInv /\ RunStatement => SchemaInv'
<1> SUFFICES ASSUME SchemaInv, RunStatement PROVE SchemaInv'
  OBVIOUS
<1>0. /\ cur \in 1..Last \ recorded /\ line \in 1..Length[cur]
      /\ Length[cur] \in Nat \ {0}
      /\ \A m \in 1..(cur - 1) : m \in recorded
      /\ \A k \in 1..(line - 1) : <<cur, k>> \in schema
      /\ pc = "script"
  BY ScriptAssumption DEF ScriptAssumption, SchemaInv, RunStatement, Progress
<1>1. CASE <<cur, line>> \in schema \cap Alters
  <2>1. crashes > 0
    <3> SUFFICES ASSUME crashes = 0 PROVE FALSE
      BY DEF SchemaInv, MigrationTypeOK
    <3>1. <<cur, line>>[1] \in recorded
             \/ (pc = "script" /\ <<cur, line>>[1] = cur /\ <<cur, line>>[2] < line)
      BY <1>0, <1>1 DEF SchemaInv, Progress
    <3>2. <<cur, line>>[1] = cur /\ <<cur, line>>[2] = line
      OBVIOUS
    <3>3. line \in Nat /\ ~(line < line)
      BY <1>0
    <3> QED
      BY <1>0, <3>1, <3>2, <3>3
  <2> QED
    BY <1>0, <1>1, <2>1 DEF SchemaInv, RunStatement, Progress, MigrationTypeOK
<1>2. CASE <<cur, line>> \notin schema \cap Alters
  <2>1. schema' = schema \cup {<<cur, line>>} /\ UNCHANGED <<recorded, cur, crashes>>
    BY <1>2 DEF RunStatement
  <2>2. <<cur, line>> \in Script(cur)
    BY <1>0 DEF Script
  <2>3. \A x \in schema' : \A m \in 1..(x[1] - 1) : m \in recorded
    BY <1>0, <2>1 DEF SchemaInv, Progress
  <2>4. \A m \in recorded : Script(m) \subseteq schema'
    BY <2>1 DEF SchemaInv, Progress
  <2>5. schema' \subseteq UNION {Script(m) : m \in 1..Last}
    BY <1>0, <2>1, <2>2 DEF SchemaInv, MigrationTypeOK
  <2>6. CASE line < Length[cur]
    <3>1. line' = line + 1 /\ pc' = pc
      BY <1>2, <2>6 DEF RunStatement
    <3>2. line' \in 1..Length[cur]
      BY <1>0, <2>6, <3>1
    <3>3. \A k \in 1..(line' - 1) : <<cur, k>> \in schema'
      BY <1>0, <2>1, <3>1
    <3>4. MigrationTypeOK'
      BY <1>0, <2>1, <2>5, <3>1 DEF SchemaInv, MigrationTypeOK
    <3>5. crashes = 0 => \A x \in schema' : x[1] \in recorded
                                          \/ (x[1] = cur /\ x[2] < line')
      <4> SUFFICES ASSUME crashes = 0, NEW x \in schema'
                   PROVE  x[1] \in recorded \/ (x[1] = cur /\ x[2] < line')
        OBVIOUS
      <4>0. line \in Nat /\ line' = line + 1
        BY <1>0, <3>1
      <4>1. CASE x = <<cur, line>>
        <5>1. x[1] = cur /\ x[2] = line
          BY <4>1
        <5> QED
          BY <4>0, <5>1
      <4>2. CASE x \in schema
        <5>1. x[1] \in recorded \/ (x[1] = cur /\ x[2] < line)
          BY <1>0, <4>2 DEF SchemaInv, Progress
        <5>2. PICK m \in 1..Last : x \in Script(m)
          BY <4>2 DEF SchemaInv, MigrationTypeOK
        <5>3. x[2] \in Int
          BY <5>2 DEF Script
        <5> QED
          BY <4>0, <5>1, <5>3
      <4> QED
        BY <2>1, <4>1, <4>2
    <3> QED
      BY <1>0, <2>1, <2>3, <2>4, <3>1, <3>2, <3>3, <3>4, <3>5
      DEF SchemaInv, Progress
  <2>7. CASE ~(line < Length[cur])
    <3>1. pc' = "record" /\ line' = line
      BY <1>2, <2>7 DEF RunStatement
    <3>2. Script(cur) \subseteq schema'
      BY <1>0, <2>1, <2>7 DEF Script
    <3>3. MigrationTypeOK'
      BY <1>0, <2>1, <2>5, <3>1 DEF SchemaInv, MigrationTypeOK
    <3> QED
      BY <1>0, <2>1, <2>3, <2>4, <3>1, <3>2, <3>3 DEF SchemaInv, Progress
  <2> QED
    BY <2>6, <2>7
<1> QED
  BY <1>1, <1>2

LEMMA RecordKeeps == SchemaInv /\ RecordScript => SchemaInv'
<1> SUFFICES ASSUME SchemaInv, RecordScript PROVE SchemaInv'
  OBVIOUS
<1>1. /\ cur \in 1..Last /\ Script(cur) \subseteq schema
      /\ \A m \in 1..(cur - 1) : m \in recorded
  BY DEF SchemaInv, RecordScript, Progress
<1>2. MigrationTypeOK'
  BY <1>1, ScriptAssumption DEF ScriptAssumption, SchemaInv, RecordScript, MigrationTypeOK
<1>3. \A m \in 1..(cur' - 1) : m \in recorded'
  BY <1>1 DEF RecordScript
<1>4. crashes = 0 => \A x \in schema : x[1] \in recorded'
  <2> SUFFICES ASSUME crashes = 0, NEW x \in schema PROVE x[1] \in recorded'
    OBVIOUS
  <2>1. PICK m \in 1..Last : x \in Script(m)
    BY DEF SchemaInv, MigrationTypeOK
  <2>2. x[1] = m
    BY <2>1 DEF Script
  <2>3. \A i \in 1..(m - 1) : i \in recorded
    BY <2>2 DEF SchemaInv, Progress
  <2>4. m <= cur
    BY <1>1, <2>1, <2>3 DEF SchemaInv, RecordScript, Progress
  <2> QED
    BY <1>1, <2>1, <2>2, <2>4 DEF RecordScript
<1> QED
  BY <1>1, <1>2, <1>3, <1>4 DEF SchemaInv, RecordScript, Progress

LEMMA CrashKeeps == SchemaInv /\ ServerDies => SchemaInv'
  BY DEF SchemaInv, ServerDies, MigrationTypeOK, Progress

LEMMA SchemaAlways == MigrationSpec => []SchemaInv
<1>1. SchemaInv /\ UNCHANGED migrationVars => SchemaInv'
  BY DEF SchemaInv, migrationVars, MigrationTypeOK, Progress
<1>2. SchemaInv /\ [MigrationNext]_migrationVars => SchemaInv'
  BY <1>1, StartKeepsSchema, CheckKeeps, RunStatementKeeps, RecordKeeps, CrashKeeps
  DEF MigrationNext, Startup
<1> QED
  BY <1>2, SchemaInit, PTL DEF MigrationSpec

(* What the table migrations says is so, across every crash and restart. *)
THEOREM TruthfulAlways == MigrationSpec => []RecordTruthful
<1>1. SchemaInv => RecordTruthful
  <2> SUFFICES ASSUME SchemaInv PROVE RecordTruthful
    OBVIOUS
  <2>1. pc = "up" => \A m \in 1..Last : m \in recorded
    BY ScriptAssumption DEF ScriptAssumption, SchemaInv, Progress
  <2> QED
    BY <2>1 DEF SchemaInv, Progress, RecordTruthful
<1> QED
  BY <1>1, SchemaAlways, PTL

(* A startup fails only over what a crash left behind. *)
THEOREM FailuresExplained == MigrationSpec => []FailureExplained
<1>1. SchemaInv => FailureExplained
  BY DEF SchemaInv, Progress, FailureExplained
<1> QED
  BY <1>1, SchemaAlways, PTL

-----------------------------------------------------------------------------
(* The cleanups *)

(* Multiples of a day keep their order. *)
LEMMA DayOrder ==
  ASSUME NEW p \in Int, NEW q \in Int, NEW d \in Nat \ {0}, q <= p
  PROVE  q * d <= p * d
  BY SMT

(* A tick is less than a day after the beginning of its day. *)
LEMMA DayStart ==
  ASSUME NEW t \in Int, NEW d \in Nat \ {0}
  PROVE  /\ t \div d \in Int
         /\ (t \div d) * d <= t
         /\ t < (t \div d) * d + d
  BY SMT

(* Comparing dates for times errs by less than a day. *)
LEMMA OlderAge ==
  ASSUME NEW t \in Nat, now \in Nat, Older(t)
  PROVE  Age(t) > (Days - 1) * Day
<1> DEFINE cut == now - Days * Day
<1>0. Day \in Nat \ {0} /\ Days \in Nat /\ Days * Day \in Nat
  BY TimeAssumption, SMT DEF TimeAssumption
<1>1. cut \in Int /\ t \div Day \in Int /\ cut \div Day \in Int
  BY <1>0, DayStart
<1>2. t \div Day <= cut \div Day
  BY DEF Older
<1>3. (t \div Day) * Day <= (cut \div Day) * Day
  BY <1>0, <1>1, <1>2, DayOrder
<1>4. t < (t \div Day) * Day + Day /\ (cut \div Day) * Day <= cut
  BY <1>0, <1>1, DayStart
<1>5. (Days - 1) * Day = Days * Day - Day
  BY <1>0, SMT
<1> DEFINE x == (t \div Day) * Day
           y == (cut \div Day) * Day
           z == Days * Day
<1>6. x \in Int /\ y \in Int /\ z \in Nat
  BY <1>0, <1>1
<1>7. x <= y /\ t < x + Day /\ y <= now - z
  BY <1>3, <1>4
<1> HIDE DEF x, y, z
<1>8. now - t > z - Day
  BY <1>0, <1>6, <1>7
<1> QED
  BY <1>5, <1>8 DEF Age, z

(* Alerts and events agree, and no event is of the future. *)
CleanupInv ==
  /\ RetentionTypeOK /\ AlertConsistent
  /\ \A e \in Event : stamp[e] <= now

LEMMA CleanupInit == RetentionInit => CleanupInv
  BY DEF RetentionInit, CleanupInv, RetentionTypeOK, AlertConsistent, Never

LEMMA RecordEventKeeps ==
  ASSUME CleanupInv, NEW e \in Event, RecordEvent(e) PROVE CleanupInv'
<1>1. RetentionTypeOK'
  BY DEF CleanupInv, RecordEvent, RetentionTypeOK
<1>2. \A x \in Event : stamp'[x] <= now'
  BY DEF CleanupInv, RecordEvent, RetentionTypeOK
<1>3. AlertConsistent'
  BY DEF CleanupInv, RecordEvent, RetentionTypeOK, AlertConsistent, Never
<1> QED
  BY <1>1, <1>2, <1>3 DEF CleanupInv

LEMMA DismissAlertKeeps ==
  ASSUME CleanupInv, NEW e \in Event, DismissAlert(e) PROVE CleanupInv'
<1>1. RetentionTypeOK'
  BY DEF CleanupInv, DismissAlert, RetentionTypeOK
<1>2. \A x \in Event : stamp'[x] <= now'
  BY DEF CleanupInv, DismissAlert
<1>3. stamp[e] \in Nat /\ now \in Nat
  BY DEF CleanupInv, DismissAlert, RetentionTypeOK, AlertConsistent
<1>4. AlertConsistent'
  BY <1>3 DEF CleanupInv, DismissAlert, RetentionTypeOK, AlertConsistent
<1> QED
  BY <1>1, <1>2, <1>4 DEF CleanupInv

LEMMA CleanupEventsKeeps == CleanupInv /\ CleanupEvents => CleanupInv'
<1> SUFFICES ASSUME CleanupInv, CleanupEvents PROVE CleanupInv'
  OBVIOUS
<1> DEFINE old == {e \in Recorded : Older(stamp[e])}
<1>0. /\ stamp' = [e \in Event |-> IF e \in old THEN Never ELSE stamp[e]]
      /\ alert' = [e \in Event |-> IF e \in old THEN "none" ELSE alert[e]]
      /\ dismissed' = [e \in Event |-> IF e \in old THEN Never ELSE dismissed[e]]
      /\ job' = "alerts" /\ UNCHANGED <<now, missed, down>>
  BY DEF CleanupEvents
<1> HIDE DEF old
<1>1. RetentionTypeOK'
  BY <1>0 DEF CleanupInv, RetentionTypeOK
<1>2. \A x \in Event : stamp'[x] <= now'
  BY <1>0 DEF CleanupInv, RetentionTypeOK, Never
<1>3. AlertConsistent'
  BY <1>0 DEF CleanupInv, RetentionTypeOK, AlertConsistent
<1> QED
  BY <1>1, <1>2, <1>3 DEF CleanupInv

LEMMA CleanupAlertsKeeps == CleanupInv /\ CleanupAlerts => CleanupInv'
<1> SUFFICES ASSUME CleanupInv, CleanupAlerts PROVE CleanupInv'
  OBVIOUS
<1> DEFINE old == {e \in Event : alert[e] = "dismissed" /\ Older(dismissed[e])}
<1>1. CASE UNCHANGED <<alert, dismissed>>
  BY <1>1 DEF CleanupInv, CleanupAlerts, RetentionTypeOK, AlertConsistent
<1>2. CASE /\ alert' = [e \in Event |-> IF e \in old THEN "none" ELSE alert[e]]
           /\ dismissed' = [e \in Event |-> IF e \in old THEN Never ELSE dismissed[e]]
  <2>0. job' = "idle" /\ UNCHANGED <<now, stamp, missed, down>>
    BY DEF CleanupAlerts
  <2> HIDE DEF old
  <2>1. RetentionTypeOK'
    BY <1>2, <2>0 DEF CleanupInv, RetentionTypeOK
  <2>2. AlertConsistent'
    BY <1>2, <2>0 DEF CleanupInv, RetentionTypeOK, AlertConsistent
  <2> QED
    BY <2>0, <2>1, <2>2 DEF CleanupInv
<1> QED
  BY <1>1, <1>2 DEF CleanupAlerts

(* The steps that touch no row *)
LEMMA OthersKeep ==
  ASSUME CleanupInv,
         \/ ClockTicks \/ SchedulerDies \/ SchedulerStarts
         \/ CleanupEventsFails \/ Misfire \/ UNCHANGED retentionVars
  PROVE  CleanupInv'
<1>1. /\ UNCHANGED <<stamp, alert, dismissed>>
      /\ now' \in Nat /\ now <= now'
      /\ missed' \in Nat /\ down' \in Nat
      /\ job' \in {"down", "idle", "due", "alerts"}
  BY DEF CleanupInv, RetentionTypeOK, ClockTicks, SchedulerDies, SchedulerStarts,
         CleanupEventsFails, Misfire, retentionVars
<1>2. RetentionTypeOK'
  BY <1>1 DEF CleanupInv, RetentionTypeOK
<1>3. \A x \in Event : stamp'[x] <= now'
  BY <1>1 DEF CleanupInv, RetentionTypeOK, Never
<1>4. AlertConsistent'
  <2> SUFFICES ASSUME NEW e \in Event, alert[e] = "dismissed"
               PROVE  dismissed[e] \in stamp[e]..now'
    BY <1>1 DEF CleanupInv, AlertConsistent
  <2>1. dismissed[e] \in stamp[e]..now /\ now \in Nat /\ stamp[e] \in Int
    BY DEF CleanupInv, AlertConsistent, RetentionTypeOK, Never
  <2> QED
    BY <1>1, <2>1
<1> QED
  BY <1>2, <1>3, <1>4 DEF CleanupInv

LEMMA CleanupAlways == RetentionSpec => []CleanupInv
<1>1. CleanupInv /\ [RetentionNext]_retentionVars => CleanupInv'
  BY RecordEventKeeps, DismissAlertKeeps, CleanupEventsKeeps, CleanupAlertsKeeps,
     OthersKeep DEF RetentionNext
<1> QED
  BY <1>1, CleanupInit, PTL DEF RetentionSpec

(* The types of the two tables and the clock, for any life time of either. *)
THEOREM RetentionTypeCorrect == RetentionSpec => []RetentionTypeOK
<1>1. CleanupInv => RetentionTypeOK
  BY DEF CleanupInv
<1> QED
  BY <1>1, CleanupAlways, PTL

(* Dismissals, deletions and cascades leave alerts and events in agreement. *)
THEOREM AlertsConsistent == RetentionSpec => []AlertConsistent
<1>1. CleanupInv => AlertConsistent
  BY DEF CleanupInv
<1> QED
  BY <1>1, CleanupAlways, PTL

(* No cleanup takes an event or a dismissed alert before Days - 1 full days,
   though it compares dates where it should compare times.                  *)
THEOREM KeptLongEnough == RetentionSpec => KeptAtLeast
<1>1. ASSUME CleanupInv, CleanupEvents, NEW e \in Recorded, stamp'[e] = Never
      PROVE  Age(stamp[e]) > (Days - 1) * Day
  <2>1. Older(stamp[e])
    BY <1>1 DEF CleanupEvents, Recorded
  <2>2. stamp[e] \in Nat /\ now \in Nat
    BY <1>1 DEF CleanupInv, RetentionTypeOK, Recorded
  <2> QED
    BY <2>1, <2>2, OlderAge
<1>2. ASSUME CleanupInv, CleanupAlerts, NEW e \in Event,
             alert[e] # "none", alert'[e] = "none"
      PROVE  alert[e] = "dismissed" /\ Age(dismissed[e]) > (Days - 1) * Day
  <2>1. alert[e] = "dismissed" /\ Older(dismissed[e])
    BY <1>2 DEF CleanupAlerts
  <2>2. stamp[e] \in Nat /\ dismissed[e] \in stamp[e]..now /\ now \in Nat
    BY <1>2, <2>1 DEF CleanupInv, RetentionTypeOK, AlertConsistent
  <2>3. dismissed[e] \in Nat
    BY <2>2
  <2> QED
    BY <2>1, <2>2, <2>3, OlderAge
<1> DEFINE Keeps ==
      /\ CleanupEvents => \A e \in Recorded :
            stamp'[e] = Never => Age(stamp[e]) > (Days - 1) * Day
      /\ CleanupAlerts => \A e \in Event :
            (alert[e] # "none" /\ alert'[e] = "none") =>
                alert[e] = "dismissed" /\ Age(dismissed[e]) > (Days - 1) * Day
<1>3. CleanupInv => Keeps
  BY <1>1, <1>2
<1> QED
  BY <1>3, CleanupAlways, PTL DEF KeptAtLeast

-----------------------------------------------------------------------------
(* How old a row can get: the cleanup comes once a day, at CleanupHour. *)
LEMMA Division ==
  ASSUME NEW n \in Int, NEW d \in Nat \ {0}
  PROVE  /\ n \div d \in Int /\ n % d \in 0..(d - 1)
         /\ n = (n \div d) * d + (n % d)
  BY SMT

LEMMA Products ==
  ASSUME NEW a \in Int, NEW b \in Int, NEW d \in Nat \ {0}
  PROVE  /\ a * d \in Int /\ b * d \in Int
         /\ (a + b) * d = a * d + b * d
         /\ (a - b) * d = a * d - b * d
         /\ (a + 1) * d = a * d + d
         /\ a >= 0 => a * d >= 0
         /\ a >= 1 => a * d >= d
         /\ a <= -1 => a * d <= -d
  BY SMT

LEMMA RemainderUnique ==
  ASSUME NEW n \in Int, NEW d \in Nat \ {0}, NEW q \in Int, NEW r \in 0..(d - 1),
         n = q * d + r
  PROVE  n % d = r
<1> DEFINE p == n \div d
           s == n % d
<1>1. p \in Int /\ s \in 0..(d - 1) /\ n = p * d + s
  BY Division
<1> HIDE DEF p, s
<1>2. p * d \in Int /\ q * d \in Int /\ (p - q) * d = p * d - q * d
  BY <1>1, Products
<1>3. (p - q) * d = r - s
  BY <1>1, <1>2
<1>4. p - q \in Int /\ ~(p - q >= 1) /\ ~(p - q <= -1)
  BY <1>1, <1>3, Products
<1>5. p = q
  BY <1>1, <1>4
<1> QED
  BY <1>1, <1>2, <1>5 DEF s

LEMMA NextHour ==
  ASSUME NEW n \in Nat, NEW d \in Nat \ {0}
  PROVE  /\ n % d \in 0..(d - 1)
         /\ (n + 1) % d = IF (n % d) + 1 = d THEN 0 ELSE (n % d) + 1
<1> DEFINE p == n \div d
           s == n % d
<1>1. p \in Int /\ s \in 0..(d - 1) /\ n = p * d + s
  BY Division
<1> HIDE DEF p, s
<1>2. p * d \in Int /\ (p + 1) * d = p * d + d
  BY <1>1, Products
<1>3. CASE s + 1 = d
  <2>1. n + 1 = (p + 1) * d + 0 /\ p + 1 \in Int /\ n + 1 \in Int /\ 0 \in 0..(d - 1)
    BY <1>1, <1>2, <1>3
  <2>2. (n + 1) % d = 0
    BY <2>1, RemainderUnique
  <2> QED
    BY <1>1, <1>3, <2>2 DEF s
<1>4. CASE s + 1 # d
  <2>1. n + 1 = p * d + (s + 1) /\ n + 1 \in Int /\ s + 1 \in 0..(d - 1)
    BY <1>1, <1>2, <1>4
  <2>2. (n + 1) % d = s + 1
    BY <1>1, <2>1, RemainderUnique
  <2> QED
    BY <1>1, <1>4, <2>2 DEF s
<1> QED
  BY <1>3, <1>4

(* What a cleanup leaves is within the period. *)
LEMMA YoungerAge ==
  ASSUME NEW t \in Nat, now \in Nat, ~Older(t)
  PROVE  Age(t) < Days * Day
<1> DEFINE cut == now - Days * Day
           z == Days * Day
<1>0. Day \in Nat \ {0} /\ z \in Nat
  BY TimeAssumption, SMT DEF TimeAssumption
<1>1. cut \in Int /\ t \div Day \in Int /\ cut \div Day \in Int
  BY <1>0, DayStart
<1>2. (cut \div Day) + 1 <= t \div Day
  BY <1>1 DEF Older
<1>3. ((cut \div Day) + 1) * Day <= (t \div Day) * Day
  BY <1>0, <1>1, <1>2, DayOrder
<1>4. (t \div Day) * Day <= t
  BY <1>0, DayStart
<1>8. cut < (cut \div Day) * Day + Day
  BY <1>0, <1>1, DayStart
<1> DEFINE x == (t \div Day) * Day
           y == (cut \div Day) * Day
<1>5. x \in Int /\ y \in Int /\ ((cut \div Day) + 1) * Day = y + Day
  BY <1>0, <1>1, Products
<1>6. y + Day <= x /\ x <= t /\ now - z < y + Day
  BY <1>3, <1>4, <1>5, <1>8
<1> HIDE DEF x, y, z
<1>7. now - t < z
  BY <1>0, <1>5, <1>6
<1> QED
  BY <1>7 DEF Age, z

(* The age of a row, by how long ago the last cleanup was due: what a missed
   cleanup adds is a day, and a process that is down or about to clean up has
   as much as a day behind it.                                              *)
Hour      == now % Day
SinceHour == IF Hour >= CleanupHour THEN Hour - CleanupHour ELSE (Hour - CleanupHour) + Day

AgeInv ==
  \A e \in Recorded :
     Age(stamp[e]) < (Days + missed) * Day + down
                     + (IF job \in {"idle", "alerts"} THEN SinceHour ELSE Day)

(* The numbers that AgeInv is about *)
LEMMA AgeTypes ==
  ASSUME CleanupInv
  PROVE  /\ now \in Nat /\ missed \in Nat /\ down \in Nat /\ Day \in Nat \ {0}
         /\ (Days + missed) * Day \in Nat /\ (Days + missed) * Day >= Days * Day
         /\ Days * Day \in Nat /\ Days * Day >= Day
         /\ SinceHour \in 0..(Day - 1)
         /\ \A e \in Recorded : stamp[e] \in Nat
<1>1. /\ now \in Nat /\ missed \in Nat /\ down \in Nat
      /\ Day \in Nat \ {0} /\ Days \in Nat \ {0} /\ CleanupHour \in 0..(Day - 1)
  BY TimeAssumption DEF TimeAssumption, CleanupInv, RetentionTypeOK
<1>2. (Days + missed) * Day = Days * Day + missed * Day
  BY <1>1, Products
<1>3. Days * Day \in Int /\ missed * Day \in Int /\ Days * Day >= Day /\ missed * Day >= 0
  BY <1>1, Products
<1>4. SinceHour \in 0..(Day - 1)
  BY <1>1, NextHour DEF SinceHour, Hour
<1>5. \A e \in Recorded : stamp[e] \in Nat
  BY DEF CleanupInv, RetentionTypeOK, Recorded
<1> QED
  BY <1>1, <1>2, <1>3, <1>4, <1>5

LEMMA AgeInitially == RetentionInit => AgeInv
  BY DEF RetentionInit, AgeInv, Recorded

(* Steps that keep the clock: a row of after the step was young enough before
   it, or is new, or was left by a cleanup, and the bound does not sink.    *)
LEMMA AgeKept ==
  ASSUME CleanupInv, CleanupInv', AgeInv, UNCHANGED <<now, down>>,
         \A e \in Recorded' : \/ e \in Recorded /\ stamp'[e] = stamp[e]
                             \/ stamp'[e] = now
                             \/ Age(stamp'[e]) < Days * Day,
         \/ missed' = missed /\ (job \in {"idle", "alerts"} \/ job' \notin {"idle", "alerts"})
         \/ missed' = missed + 1
         \/ missed' = missed /\ \A e \in Recorded' : Age(stamp'[e]) < Days * Day
  PROVE  AgeInv'
<1> DEFINE z == (Days + missed) * Day
<1>1. /\ now \in Nat /\ missed \in Nat /\ down \in Nat /\ Day \in Nat \ {0}
      /\ z \in Nat /\ z >= Days * Day /\ Days * Day \in Nat /\ Days * Day >= Day
      /\ SinceHour \in 0..(Day - 1) /\ \A e \in Recorded : stamp[e] \in Nat
  BY AgeTypes
<1>2. \A e \in Recorded' : stamp'[e] \in Nat
  BY DEF CleanupInv, RetentionTypeOK, Recorded
<1>3. SinceHour' = SinceHour
  BY DEF SinceHour, Hour
<1>4. (Days + missed') * Day = IF missed' = missed THEN z ELSE z + Day
  <2>1. CASE missed' = missed
    BY <2>1
  <2>2. CASE missed' = missed + 1
    <3>1. Days + missed \in Int /\ Days + missed' = (Days + missed) + 1
      BY <1>1, <2>2, TimeAssumption DEF TimeAssumption
    <3>2. ((Days + missed) + 1) * Day = z + Day
      BY <1>1, <3>1, Products
    <3> QED
      BY <1>1, <2>2, <3>1, <3>2
  <2> QED
    BY <2>1, <2>2
<1> HIDE DEF z
<1>5. now' = now /\ down' = down
  OBVIOUS
<1> SUFFICES ASSUME NEW e \in Recorded'
             PROVE  now - stamp'[e] < (IF missed' = missed THEN z ELSE z + Day) + down
                        + (IF job' \in {"idle", "alerts"} THEN SinceHour ELSE Day)
  BY <1>3, <1>4, <1>5 DEF AgeInv, Age
<1>6. CASE now - stamp'[e] < Days * Day \/ stamp'[e] = now
  BY <1>1, <1>2, <1>6
<1>7. CASE e \in Recorded /\ stamp'[e] = stamp[e] /\ ~(now - stamp'[e] < Days * Day)
  <2>1. now - stamp'[e] < z + down + (IF job \in {"idle", "alerts"} THEN SinceHour ELSE Day)
    BY <1>7 DEF AgeInv, z, Age
  <2>2. \/ missed' = missed /\ (job \in {"idle", "alerts"} \/ job' \notin {"idle", "alerts"})
        \/ missed' = missed + 1
    BY <1>7 DEF Age
  <2>3. CASE missed' = missed + 1
    BY <1>1, <1>2, <2>1, <2>3
  <2>4. CASE missed' = missed /\ (job \in {"idle", "alerts"} \/ job' \notin {"idle", "alerts"})
    BY <1>1, <1>2, <2>1, <2>4
  <2> QED
    BY <2>2, <2>3, <2>4
<1> QED
  BY <1>6, <1>7 DEF Age

(* The clock: a tick adds one to the age, and one to the time since the last
   cleanup or to the time down; at CleanupHour a day is full.               *)
LEMMA AgeTicks ==
  ASSUME CleanupInv, CleanupInv', AgeInv, ClockTicks PROVE AgeInv'
<1> DEFINE z == (Days + missed) * Day
<1>1. /\ now \in Nat /\ missed \in Nat /\ down \in Nat /\ Day \in Nat \ {0}
      /\ z \in Nat /\ SinceHour \in 0..(Day - 1) /\ \A e \in Recorded : stamp[e] \in Nat
  BY AgeTypes
<1>2. UNCHANGED <<stamp, missed>> /\ now' = now + 1 /\ job \in {"idle", "down"}
  BY DEF ClockTicks
<1>3. Recorded' = Recorded /\ z' = z
  BY <1>2 DEF Recorded
<1>4. CASE job = "idle"
  <2>1. down' = down /\ job' = (IF Hour' = CleanupHour THEN "due" ELSE "idle")
    BY <1>4 DEF ClockTicks, Hour
  <2>2. Hour' # CleanupHour => SinceHour' = SinceHour + 1
    <3>1. /\ Hour \in 0..(Day - 1) /\ CleanupHour \in 0..(Day - 1)
          /\ Hour' = IF Hour + 1 = Day THEN 0 ELSE Hour + 1
      BY <1>1, <1>2, NextHour, TimeAssumption DEF Hour, TimeAssumption
    <3> QED
      BY <1>1, <3>1 DEF SinceHour
  <2>3. \A e \in Recorded : Age(stamp[e]) < z + down + SinceHour
    BY <1>4 DEF AgeInv
  <2> HIDE DEF z
  <2>4. ASSUME NEW e \in Recorded
        PROVE  Age(stamp[e])' < z + down' + (IF job' \in {"idle", "alerts"} THEN SinceHour' ELSE Day)
    BY <1>1, <1>2, <2>1, <2>2, <2>3 DEF Age
  <2> QED
    BY <1>2, <1>3, <2>4 DEF AgeInv, z
<1>5. CASE job = "down"
  <2>1. down' = down + 1 /\ job' = "down"
    BY <1>5 DEF ClockTicks
  <2>2. \A e \in Recorded : Age(stamp[e]) < z + down + Day
    BY <1>5 DEF AgeInv
  <2> HIDE DEF z
  <2>3. \A e \in Recorded : Age(stamp[e])' < z + down' + Day
    BY <1>1, <1>2, <2>1, <2>2 DEF Age
  <2> QED
    BY <1>2, <1>3, <2>1, <2>3 DEF AgeInv, z
<1> QED
  BY <1>2, <1>4, <1>5

LEMMA AgeStep == CleanupInv /\ CleanupInv' /\ AgeInv /\ [RetentionNext]_retentionVars => AgeInv'
<1> SUFFICES ASSUME CleanupInv, CleanupInv', AgeInv, [RetentionNext]_retentionVars
             PROVE  AgeInv'
  OBVIOUS
<1>1. CASE ClockTicks
  BY <1>1, AgeTicks
<1>2. CASE CleanupEvents
  <2>1. ASSUME NEW e \in Recorded' PROVE Age(stamp'[e]) < Days * Day
    <3>1. e \in Recorded /\ ~Older(stamp[e]) /\ stamp'[e] = stamp[e]
      BY <1>2 DEF CleanupEvents, Recorded
    <3>2. stamp[e] \in Nat /\ now \in Nat
      BY <3>1, AgeTypes
    <3> QED
      BY <3>1, <3>2, YoungerAge
  <2> QED
    BY <1>2, <2>1, AgeKept DEF CleanupEvents
<1>3. CASE CleanupEventsFails \/ Misfire
  BY <1>3, AgeKept DEF CleanupEventsFails, Misfire, Recorded
<1>4. CASE CleanupAlerts
  BY <1>4, AgeKept DEF CleanupAlerts, Recorded
<1>5. CASE SchedulerDies \/ SchedulerStarts
  BY <1>5, AgeKept DEF SchedulerDies, SchedulerStarts, Recorded
<1>6. ASSUME NEW e \in Event, RecordEvent(e) PROVE AgeInv'
  <2>1. \A x \in Recorded' : \/ x \in Recorded /\ stamp'[x] = stamp[x]
                            \/ stamp'[x] = now
    BY <1>6 DEF RecordEvent, Recorded, CleanupInv, RetentionTypeOK
  <2> QED
    BY <1>6, <2>1, AgeKept DEF RecordEvent
<1>7. ASSUME NEW e \in Event, DismissAlert(e) PROVE AgeInv'
  BY <1>7, AgeKept DEF DismissAlert, Recorded
<1>8. CASE UNCHANGED retentionVars
  BY <1>8, AgeKept DEF retentionVars, Recorded
<1> QED
  BY <1>1, <1>2, <1>3, <1>4, <1>5, <1>6, <1>7, <1>8 DEF RetentionNext

(* The table stays bounded in time: no row outlives the period by more than a
   day, but for what missed cleanups and down time cost.                    *)
THEOREM AgeBoundedAlways == RetentionSpec => []AgeBounded
<1>1. CleanupInv /\ AgeInv => AgeBounded
  <2> SUFFICES ASSUME CleanupInv, AgeInv, job \in {"idle", "alerts"}, NEW e \in Recorded
               PROVE  Age(stamp[e]) < (Days + 1 + missed) * Day + down
    BY DEF AgeBounded
  <2> DEFINE z == (Days + missed) * Day
  <2>1. Age(stamp[e]) < z + down + SinceHour
    BY DEF AgeInv
  <2>2. z \in Nat /\ SinceHour \in 0..(Day - 1) /\ Day \in Nat \ {0} /\ down \in Nat
        /\ stamp[e] \in Nat /\ now \in Nat /\ missed \in Nat
    BY AgeTypes
  <2>3. Days + missed \in Int /\ Days + 1 + missed = (Days + missed) + 1
    BY <2>2, TimeAssumption DEF TimeAssumption
  <2>4. (Days + 1 + missed) * Day = z + Day
    BY <2>2, <2>3, Products
  <2> HIDE DEF z
  <2> QED
    BY <2>1, <2>2, <2>4 DEF Age
<1>2. CleanupInv /\ CleanupInv' /\ AgeInv /\ [RetentionNext]_retentionVars => AgeInv'
  BY AgeStep
<1> QED
  BY <1>1, <1>2, AgeInitially, CleanupAlways, PTL DEF RetentionSpec

-----------------------------------------------------------------------------
(* As parts of the whole *)
LEMMA DatabaseParts ==
  [PartsNext]_partVars => [MigrationNext]_migrationVars /\ [RetentionNext]_retentionVars
BY DEF PartsNext, Migrating, Cleaning, Alarming, Granting, Naming, Monitoring, Boosting, Paging,
       partVars, databaseVars

(* The whole does to the schema and to the two tables what the migrations and
   the cleanups do by themselves, so that all of the above holds of it.     *)
THEOREM PartsKeepDatabase == PartsSpec => MigrationSpec /\ RetentionSpec
<1>1. PartsInit => MigrationInit /\ RetentionInit
  BY DEF PartsInit
<1> QED
  BY <1>1, DatabaseParts, PTL DEF PartsSpec, MigrationSpec, RetentionSpec

=============================================================================
