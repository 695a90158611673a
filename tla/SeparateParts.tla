---------------------------- MODULE SeparateParts ----------------------------
(***************************************************************************)
(* The parts of the server that share no variable with one another: the    *)
(* migrations at startup and the daily cleanups, the sessions with         *)
(* Alarm.com and the tokens of the skill, the names and links of devices,  *)
(* the local service monitor, the signal booster, the cached pages of the  *)
(* Deco.                                                                   *)
(*                                                                         *)
(* What the whole does is an interleaving of what they do, and each of     *)
(* their properties speaks of one.  So a behaviour here shows the steps of *)
(* one of them, `part`, while the others stutter.                          *)
(***************************************************************************)
EXTENDS AlarmSession, SkillTokens, DeviceNames, LocalMonitor, HiBoost, DecoPages,
        Migrations, Retention

VARIABLE part

databaseVars == <<migrationVars, retentionVars>>
accountVars  == <<alarmVars, skillVars>>
houseVars    == <<nameVars, monitorVars, boosterVars, pageVars>>
partVars     == <<databaseVars, accountVars, houseVars, part>>

PartsInit ==
    /\ part \in {"schema", "cleanup", "alarm", "skill", "names", "monitor", "booster",
                "pages"}
    /\ MigrationInit /\ RetentionInit
    /\ AlarmInit /\ SkillInit /\ NamesInit /\ MonitorInit /\ BoosterInit /\ PagesInit
    /\ part # "monitor" => actual = [s \in Configured |-> "down"]
    /\ part # "alarm" => env.account = None
    /\ part # "booster" => ~booster.on /\ login = "right"

Migrating(A)  == part = "schema"  /\ A /\ UNCHANGED <<retentionVars, accountVars, houseVars, part>>
Cleaning(A)   == part = "cleanup" /\ A /\ UNCHANGED <<migrationVars, accountVars, houseVars, part>>
Alarming(A)   == part = "alarm"   /\ A /\ UNCHANGED <<databaseVars, skillVars, houseVars, part>>
Granting(A)   == part = "skill"   /\ A /\ UNCHANGED <<databaseVars, alarmVars, houseVars, part>>

Naming(A) ==
    /\ part = "names" /\ A
    /\ UNCHANGED <<databaseVars, accountVars, monitorVars, boosterVars, pageVars, part>>
Monitoring(A) ==
    /\ part = "monitor" /\ A
    /\ UNCHANGED <<databaseVars, accountVars, nameVars, boosterVars, pageVars, part>>
Boosting(A) ==
    /\ part = "booster" /\ A
    /\ UNCHANGED <<databaseVars, accountVars, nameVars, monitorVars, pageVars, part>>
Paging(A) ==
    /\ part = "pages" /\ A
    /\ UNCHANGED <<databaseVars, accountVars, nameVars, monitorVars, boosterVars, part>>

PartsNext ==
    \/ Migrating(MigrationNext)
    \/ Cleaning(RetentionNext)
    \/ Alarming(AlarmNext \/ AlarmRestart)
    \/ Granting(SkillNext \/ SkillRestart)
    \/ Naming(NamesNext)
    \/ Monitoring(MonitorNext)
    \/ Boosting(BoosterNext)
    \/ Paging(PagesNext)

(* Each snapshot of the monitor's task ends, as lsof and the checks have
   timeouts, and the task sleeps and begins again; the booster's scheduler
   sleeps, polls and catches what a poll raises.                           *)
PartsSpec ==
    /\ PartsInit /\ [][PartsNext]_partVars
    /\ WF_partVars(Monitoring(Snapshot(Sampler)))
    /\ WF_partVars(Boosting(Poll))

(* When the machine comes to rest and lsof and SQLite work, what is kept of
   each expected service is what it is, however the page and the task have
   overtaken each other before: an observation recorded too late is replaced
   (main.py 178-190, local_service_monitor.py 136-157).                     *)
MonitorSettles == <>[](part = "monitor" => UpToDate)

(* However the cloud ends a token, with a right login there is a good one
   again: writes never log in anew after a 401, but a poll comes to a read
   that does (hiboost_client.py 184-214, hiboost_scheduler.py 56-75).       *)
BoosterRecovers == (part = "booster" /\ login = "right") ~> (Authorized \/ login = "wrong")

==============================================================================
