------------------------------ MODULE ClientMap ------------------------------
(***************************************************************************)
(* /client-node-map, the route the dashboard polls: one refresh task builds*)
(* the map in a worker thread, every request joins it for at most five     *)
(* seconds, and its result is kept for a minute.                           *)
(*                                                                         *)
(* A map is known by the refresh that built it.  The Deco may keep a       *)
(* thread for any time.  What runs on the event loop between two awaits is *)
(* one step; a loop that another handler blocks is one that takes no step. *)
(***************************************************************************)
EXTENDS Integers, FiniteSets

CONSTANTS
    Client,     \* those that ask for the client map
    Worker,     \* worker threads of asyncio.to_thread
    NoWorker,   \* no thread
    MaxBuilds   \* bound: refreshes of the map

ASSUME MapAssumption == NoWorker \notin Worker /\ MaxBuilds \in Nat

VARIABLES
    map,        \* the refresh whose result is in _client_node_map_cache
    mapFresh,   \* is that less than CLIENT_NODE_MAP_CACHE_TTL ago?
    worker,     \* the threads that build a map
    task,       \* the thread of _client_node_map_refresh_task
    storing,    \* done, its callback not yet run: the refresh of that task
    request,    \* the requests for the map
    builds      \* refreshes started

vars == <<map, mapFresh, worker, task, storing, request, builds>>

Init ==
    /\ map = 0 /\ mapFresh = FALSE
    /\ worker = [w \in Worker |-> [at |-> "idle", build |-> 0]]
    /\ task = NoWorker /\ storing = 0
    /\ request = [q \in Client |-> [at |-> "idle", build |-> 0]]
    /\ builds = 0

----------------------------------------------------------------------------
Building(w) == worker[w].at \in {"asking", "built", "failed"}
TaskDone    == task = NoWorker \/ ~Building(task)

(* A request that finds no fresh map joins the refresh under way or, if that
   is done, starts one.                                                     *)
Ask(q) ==
    /\ request[q].at = "idle" /\ ~mapFresh
    /\ request' = [request EXCEPT ![q].at = "waiting"]
    /\ IF ~TaskDone THEN UNCHANGED <<worker, task, builds>>
       ELSE /\ builds < MaxBuilds /\ builds' = builds + 1
            /\ \E w \in Worker :
                 /\ ~Building(w)
                 /\ worker' = [worker EXCEPT ![w] = [at |-> "asking", build |-> builds + 1]]
                 /\ task' = w
    /\ UNCHANGED <<map, mapFresh, storing>>

(* build_payload ends in its thread, after as long as the Deco takes. *)
Build(w) ==
    /\ worker[w].at = "asking"
    /\ \E end \in {"built", "failed"} : worker' = [worker EXCEPT ![w].at = end]
    /\ UNCHANGED <<map, mapFresh, task, storing, request, builds>>

(* A request that gives up answers what the cache holds, marked as degraded. *)
Answered == [at |-> "answered", build |-> 0]

(* The loop learns that the thread has ended: its callback and the requests
   that wait for it are scheduled, and run before the next such notice.  A
   thread whose task was abandoned has nobody to tell.                      *)
Notice(w) ==
    /\ worker[w].at \in {"built", "failed"}
    /\ storing = 0 /\ \A q \in Client : request[q].at # "resuming"
    /\ worker' = [worker EXCEPT ![w] = [at |-> "idle", build |-> 0]]
    /\ storing' = IF w = task /\ worker[w].at = "built" THEN worker[w].build ELSE 0
    /\ request' = [q \in Client |->
         IF w # task \/ request[q].at # "waiting" THEN request[q]
         ELSE IF worker[w].at = "built" THEN [at |-> "resuming", build |-> worker[w].build]
         ELSE Answered]
    /\ UNCHANGED <<map, mapFresh, task, builds>>

(* Mutant of StoreMap: there is no done callback. *)
StoreMapNot ==
    /\ storing # 0 /\ storing' = 0
    /\ UNCHANGED <<map, mapFresh, worker, task, request, builds>>

(* _store_client_node_map *)
StoreMap ==
    /\ storing # 0
    /\ map' = storing /\ mapFresh' = TRUE /\ storing' = 0
    /\ UNCHANGED <<worker, task, request, builds>>

(* A request resumes after the callback, stores the payload again and answers. *)
Resume(q) ==
    /\ storing = 0 /\ request[q].at = "resuming"
    /\ map' = request[q].build /\ mapFresh' = TRUE
    /\ request' = [request EXCEPT ![q] = Answered]
    /\ UNCHANGED <<worker, task, storing, builds>>

(* Mutant of Timeout: without shield, wait_for cancels the task; its thread
   cannot be cancelled.                                                     *)
TimeoutCancelling(q) ==
    /\ request[q].at = "waiting"
    /\ request' = [request EXCEPT ![q] = Answered] /\ task' = NoWorker
    /\ UNCHANGED <<map, mapFresh, worker, storing, builds>>

(* Mutant of Timeout: the wait ends only with the refresh. *)
TimeoutWhenDone(q) ==
    /\ request[q].at = "waiting" /\ TaskDone
    /\ request' = [request EXCEPT ![q] = Answered]
    /\ UNCHANGED <<map, mapFresh, worker, task, storing, builds>>

(* Five seconds have passed. *)
Timeout(q) ==
    /\ request[q].at = "waiting"
    /\ request' = [request EXCEPT ![q] = Answered]
    /\ UNCHANGED <<map, mapFresh, worker, task, storing, builds>>

Again(q) ==
    /\ request[q].at = "answered"
    /\ request' = [request EXCEPT ![q] = [at |-> "idle", build |-> 0]]
    /\ UNCHANGED <<map, mapFresh, worker, task, storing, builds>>

MapAges ==
    /\ mapFresh /\ mapFresh' = FALSE
    /\ UNCHANGED <<map, worker, task, storing, request, builds>>

Next ==
    \/ StoreMap \/ MapAges
    \/ \E w \in Worker : Build(w) \/ Notice(w)
    \/ \E q \in Client : Ask(q) \/ Resume(q) \/ Timeout(q) \/ Again(q)

Spec == Init /\ [][Next]_vars

(* The loop runs what is ready and timers fire.  Nothing is assumed of the
   worker threads: the Deco may keep one for ever.                          *)
FairSpec ==
    /\ Spec /\ WF_vars(StoreMap)
    /\ \A w \in Worker : WF_vars(Notice(w))
    /\ \A q \in Client : WF_vars(Resume(q)) /\ WF_vars(Timeout(q))

----------------------------------------------------------------------------
TypeOK ==
    /\ map \in 0..builds /\ mapFresh \in BOOLEAN
    /\ worker \in [Worker -> [at : {"idle", "asking", "built", "failed"}, build : 0..builds]]
    /\ task \in Worker \cup {NoWorker} /\ storing \in 0..builds
    /\ request \in [Client -> [at : {"idle", "waiting", "resuming", "answered"},
                               build : 0..builds]]
    /\ builds \in 0..MaxBuilds

(* "A slow or offline Deco must never create an unbounded queue of identical
   router requests": one thread builds the map, however many requests come
   and time out.                                                            *)
OneBuilder == Cardinality({w \in Worker : Building(w)}) <= 1

(* Every request for the map is answered, also when the Deco never answers. *)
RequestsAnswered ==
    \A q \in Client : request[q].at = "waiting" ~> request[q].at = "answered"

(* A refresh that ends after its requests have given up is not thrown away:
   the map comes to hold its result or a newer one.                         *)
RefreshKept ==
    \A w \in Worker : \A n \in 1..MaxBuilds :
        worker[w] = [at |-> "built", build |-> n] ~> map >= n

=============================================================================
