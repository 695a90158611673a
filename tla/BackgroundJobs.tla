--------------------------- MODULE BackgroundJobs ---------------------------
(***************************************************************************)
(* The background work of the server, from the end of startup_event to the *)
(* end of shutdown_event in src/backend/main.py: the poller with its home  *)
(* check and pause, the speed test and HiBoost schedulers, the local       *)
(* service sampler, the OAuth sweep and the retention scheduler, and the   *)
(* push stream of EventStream that the poller feeds.                       *)
(*                                                                         *)
(* A job is an asyncio task.  The blocking part of the sampler, the speed  *)
(* test and the poller runs in an executor thread that the task awaits;    *)
(* cancelling the task leaves the thread running.  The other jobs do their *)
(* work within one step of the loop, so that only their sleep is seen.     *)
(***************************************************************************)
EXTENDS EventStream, FiniteSets

VARIABLES
    phase,          \* "up", "draining" its connections, "stopping", "closed"
    task,           \* the task of each job
    thread,         \* what an executor thread does for each job
    paused,         \* auto_scan_paused
    pausedAt,       \* history: messages published when it was last set
    closing,        \* the statement of shutdown_event that is next
    open            \* clients and database not yet closed

jobVars == <<phase, task, thread, paused, pausedAt, closing, open>>
allVars == <<vars, jobVars>>

Jobs == {"sampler", "sweep", "retention", "speedtest", "poller", "hiboost"}
Resources == {"deco client", "chester client", "hiboost client", "db"}
Tasks == {"none", "asleep", "waiting", "cancelled", "ended"}
Work  == {"idle", "snapshot", "test", "insights", "home check", "scan"}

(* shutdown_event in order; the Alexa and Alarm.com clients serve no job *)
ShutdownOrder == <<"sampler", "sweep", "retention", "speedtest", "poller",
                   "deco client", "chester client", "hiboost",
                   "hiboost client", "db">>

(* Whose work goes through a client or the database *)
Users(r) ==
    CASE r = "deco client"    -> {"poller"}
      [] r = "chester client" -> {"poller", "speedtest"}
      [] r = "hiboost client" -> {"hiboost"}
      [] r = "db"             -> Jobs

(* startup_event never suspends, so nothing runs before it is through.  An
   integration that fails to initialise leaves its scheduler None.          *)
JobsInit ==
    /\ Init
    /\ \E failed \in SUBSET {"speedtest", "hiboost", "retention"} :
           task = [j \in Jobs |-> IF j \in failed THEN "none" ELSE "asleep"]
    /\ phase = "up" /\ closing = 1 /\ open = Resources
    /\ thread = [j \in Jobs |-> "idle"]
    /\ paused = FALSE /\ pausedAt = 0

-----------------------------------------------------------------------------
(* The loops of the jobs *)

Awaits(j, work) == task[j] = "waiting" /\ thread[j] = work

(* The task hands work to the executor and awaits it, or goes to sleep *)
GoesOn(j, work) ==
    /\ thread' = [thread EXCEPT ![j] = work]
    /\ task' = [task EXCEPT ![j] = IF work = "idle" THEN "asleep" ELSE "waiting"]
    /\ UNCHANGED <<phase, paused, pausedAt, closing, open>>

Wake(j) ==
    /\ task[j] = "asleep"
    /\ \/ j = "sampler"   /\ GoesOn(j, "snapshot")
       \/ j = "speedtest" /\ GoesOn(j, "test")
       \/ j = "poller"    /\ GoesOn(j, "home check")
    /\ UNCHANGED vars

SnapshotEnds == /\ Awaits("sampler", "snapshot") /\ GoesOn("sampler", "idle")
                /\ UNCHANGED vars

(* A test without an error is followed by generate_insights *)
TestEnds(succeeds) ==
    /\ Awaits("speedtest", "test")
    /\ GoesOn("speedtest", IF succeeds THEN "insights" ELSE "idle")
    /\ UNCHANGED vars

InsightsEnd == /\ Awaits("speedtest", "insights") /\ GoesOn("speedtest", "idle")
               /\ UNCHANGED vars

(* Mutant of HomeChecked: the pause is not looked at. *)
HomeCheckedUnpaused(home) ==
    /\ Awaits("poller", "home check")
    /\ home => published < MaxPublished
    /\ GoesOn("poller", IF home THEN "scan" ELSE "idle")
    /\ UNCHANGED vars

(* _polling_loop reads the pause after the home check has come back.  Bound:
   from home it scans only while messages are left.                         *)
HomeChecked(home) ==
    /\ Awaits("poller", "home check")
    /\ home => published < MaxPublished
    /\ GoesOn("poller", IF home /\ ~paused THEN "scan" ELSE "idle")
    /\ UNCHANGED vars

(* _perform_scan publishes what it counts *)
ScanEnds == Awaits("poller", "scan") /\ GoesOn("poller", "idle") /\ Publish

ScanRaises == /\ Awaits("poller", "scan") /\ GoesOn("poller", "idle")
              /\ UNCHANGED vars

(* A thread whose task was cancelled runs to its end; nobody hears of it *)
OrphanEnds(j) ==
    /\ task[j] = "ended" /\ thread[j] # "idle"
    /\ thread' = [thread EXCEPT ![j] = "idle"]
    /\ UNCHANGED <<vars, phase, task, paused, pausedAt, closing, open>>

(* POST /api/network/auto-scan *)
TogglePause ==
    /\ phase = "up"
    /\ paused' = ~paused /\ pausedAt' = published
    /\ UNCHANGED <<vars, phase, task, thread, closing, open>>

-----------------------------------------------------------------------------
(* Shutdown *)

(* The HTTP server takes no more requests, and runs shutdown_event when those
   it has are answered; a stream counts as one until its client leaves.     *)
StopServing ==
    /\ phase = "up" /\ phase' = "draining"
    /\ UNCHANGED <<vars, task, thread, paused, pausedAt, closing, open>>

BeginShutdown ==
    /\ phase = "draining" /\ phase' = "stopping"
    /\ \A c \in Client : stream[c] \in {"none", "closed"}
    /\ UNCHANGED <<vars, task, thread, paused, pausedAt, closing, open>>

At(what) == phase = "stopping" /\ ShutdownOrder[closing] = what

(* Mutants of Stop: the stop does not wait for the task it cancels; it waits
   for the thread of the job as well.                                       *)
StopUnawaited(j) ==
    /\ At(j) /\ closing' = closing + 1
    /\ task' = [task EXCEPT ![j] = IF @ = "none" THEN "none" ELSE "cancelled"]
    /\ UNCHANGED <<vars, phase, thread, paused, pausedAt, open>>
StopJoining(j) ==
    /\ At(j)
    /\ \/ /\ task[j] \in {"asleep", "waiting"}
          /\ task' = [task EXCEPT ![j] = "cancelled"] /\ UNCHANGED closing
       \/ /\ task[j] \in {"none", "ended"} /\ thread[j] = "idle"
          /\ closing' = closing + 1 /\ UNCHANGED task
    /\ UNCHANGED <<vars, phase, thread, paused, pausedAt, open>>

(* stop() of a scheduler, or the cancellation of a task in shutdown_event:
   cancel, then wait until the task has ended; no job, nothing to do.       *)
Stop(j) ==
    /\ At(j)
    /\ \/ /\ task[j] \in {"asleep", "waiting"}
          /\ task' = [task EXCEPT ![j] = "cancelled"] /\ UNCHANGED closing
       \/ /\ task[j] \in {"none", "ended"}
          /\ closing' = closing + 1 /\ UNCHANGED task
    /\ UNCHANGED <<vars, phase, thread, paused, pausedAt, open>>

(* The cancelled task is resumed with CancelledError, whatever it awaits *)
Unwind(j) ==
    /\ task[j] = "cancelled"
    /\ task' = [task EXCEPT ![j] = "ended"]
    /\ UNCHANGED <<vars, phase, thread, paused, pausedAt, closing, open>>

Close(r) ==
    /\ At(r) /\ open' = open \ {r}
    /\ IF r = "db" THEN phase' = "closed" /\ UNCHANGED closing
                   ELSE closing' = closing + 1 /\ UNCHANGED phase
    /\ UNCHANGED <<vars, task, thread, paused, pausedAt>>

-----------------------------------------------------------------------------

(* The steps of the stream other than Publish *)
StreamStep ==
    /\ \E c \in Client : \/ phase = "up" /\ Subscribe(c)
                         \/ Open(c) \/ Take(c) \/ Sent(c)
                         \/ Disconnect(c) \/ Collected(c)
    /\ UNCHANGED jobVars

ShutdownStep == \/ \E j \in Jobs : Stop(j) \/ Unwind(j)
                \/ \E r \in Resources : Close(r)

JobsNext ==
    \/ StreamStep \/ ShutdownStep
    \/ \E j \in Jobs : Wake(j) \/ OrphanEnds(j)
    \/ \E b \in BOOLEAN : TestEnds(b) \/ HomeChecked(b)
    \/ SnapshotEnds \/ InsightsEnd \/ ScanEnds \/ ScanRaises
    \/ TogglePause \/ StopServing \/ BeginShutdown

(* The loop runs what is ready, and clients that stay read; nothing is assumed
   of the threads, which a router that does not answer can hold for long.   *)
JobsSpec ==
    /\ JobsInit /\ [][JobsNext]_allVars
    /\ WF_allVars(ShutdownStep)
    /\ \A c \in Client : /\ WF_allVars(Open(c) /\ UNCHANGED jobVars)
                         /\ WF_allVars(Take(c) /\ UNCHANGED jobVars)
                         /\ WF_allVars(Sent(c) /\ UNCHANGED jobVars)

-----------------------------------------------------------------------------
(* Properties *)

JobsTypeOK ==
    /\ TypeOK
    /\ phase \in {"up", "draining", "stopping", "closed"}
    /\ task \in [Jobs -> Tasks] /\ thread \in [Jobs -> Work]
    /\ paused \in BOOLEAN /\ pausedAt \in Nat
    /\ closing \in DOMAIN ShutdownOrder /\ open \subseteq Resources

(* shutdown_event closes a client, and the database, only when no task that
   works through it is left, also when a task was waiting for its thread.   *)
UsersStopFirst ==
    \A r \in Resources \ open : \A j \in Users(r) : task[j] \in {"none", "ended"}

(* A user who pauses the scans is shown at most the one that was under way *)
PauseQuiets == paused => published - pausedAt <= 1

(* Once it has begun, shutdown_event ends, whatever a scan or a speed test in
   a thread still waits for.                                                *)
ShutdownEnds == (phase = "stopping") ~> (phase = "closed")

=============================================================================
