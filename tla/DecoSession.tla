----------------------------- MODULE DecoSession -----------------------------
(***************************************************************************)
(* deco_client.DecoClient in local mode.  The Deco admits one session: a   *)
(* login ends the session of whoever was logged in.  The topology, client  *)
(* list and optimize calls take _local_api_lock, make a client of their    *)
(* own, log in, send their requests and log out; rename_client and         *)
(* set_client_mesh do the same without the lock, and so does the           *)
(* long-lived client of the services, which stays logged in.               *)
(*                                                                         *)
(* A request of a session that has ended is answered with 403, with no     *)
(* data or with data that does not decrypt; the client logs in again and   *)
(* sends it once more.  Logging out is such a request, too.                *)
(***************************************************************************)
EXTENDS Integers, Sequences

CONSTANTS
    Caller,         \* the threads that use a client of their own
    Keeper,         \* the thread that uses the long-lived client
    Ops,            \* Ops[t]: the calls thread t makes
    NoOne,          \* no thread
    RouterIsNode,   \* is the router itself among node_endpoints?
    TTL,            \* TOPOLOGY_CACHE_TTL
    RetryInterval,  \* _CLIENT_LIST_RETRY_INTERVAL
    MaxClock, MaxCalls, MaxFaults  \* bounds: time, calls begun, network errors

ASSUME SessionAssumption ==
    /\ Keeper \notin Caller /\ NoOne \notin Caller \cup {Keeper}
    /\ Ops \in [Caller \cup {Keeper} ->
                  SUBSET {"topology", "clients", "optimize", "write", "read", "list"}]
    /\ \A t \in Caller : Ops[t] \cap {"read", "list"} = {}
    /\ Ops[Keeper] \subseteq {"read", "list"}
    /\ RouterIsNode \in BOOLEAN
    /\ TTL \in Nat /\ RetryInterval \in Nat
    /\ MaxClock \in Nat /\ MaxCalls \in Nat /\ MaxFaults \in Nat

Thread == Caller \cup {Keeper}
Never  == -1

(* Mutant of Requests: the writing calls do not close their client. *)
RequestsUnclosed(op) ==
    CASE op = "topology" -> <<"auth", "nodes", "probe", "node", "store", "logout">>
      [] op = "clients"  -> <<"auth", "clients", "logout">>
      [] op = "optimize" -> <<"auth", "report", "report", "logout">>
      [] op = "write"    -> <<"auth", "report">>
      [] op = "read"     -> <<"report">>
      [] op = "list"     -> <<"list">>

(* What each call sends once it has logged in: "clients" is the aggregate
   list; "probe" the same request, of which get_topology_local asks no more
   than whether it works, before it asks for the clients of a node ("node").
   "store" fills the cache and "direct" asks the nodes themselves.  "list" is
   the aggregate list again, asked for by the long-lived client.             *)
Requests(op) ==
    CASE op = "topology" -> <<"auth", "nodes", "probe", "node", "store", "logout">>
      [] op = "clients"  -> <<"auth", "clients", "logout">>
      [] op = "optimize" -> <<"auth", "report", "report", "logout">>
      [] op = "write"    -> <<"auth", "report", "logout">>
      [] op = "read"     -> <<"report">>
      [] op = "list"     -> <<"list">>

Locked == {"topology", "clients", "optimize"}
Kept   == {"read", "list"}

VARIABLES
    session,    \* the thread whose login the router accepts
    holder,     \* who holds _local_api_lock
    call,       \* what each thread is doing
    robbed,     \* how often its session was taken from it in this call
    cache,      \* _topology_cache and its time
    broken,     \* _client_list_broken_time while _client_list_broken
    clock,
    begun,      \* calls begun
    faults      \* network errors so far

vars == <<session, holder, call, robbed, cache, broken, clock, begun, faults>>

(* read is when the call read the nodes, hurt whether a network error hit it. *)
Idle == [op |-> "none", at |-> "idle", todo |-> <<>>, logged |-> FALSE,
         result |-> "none", read |-> Never, hurt |-> FALSE]

Init ==
    /\ session = NoOne /\ holder = NoOne
    /\ call = [t \in Thread |-> Idle] /\ robbed = [t \in Thread |-> 0]
    /\ cache = [read |-> Never, stored |-> Never]
    /\ broken = Never
    /\ clock = 0 /\ begun = 0 /\ faults = 0

Fresh       == cache.stored # Never /\ clock - cache.stored < TTL
KnownBroken == broken # Never /\ clock - broken < RetryInterval

(* The next request: a client that is not logged in logs in first. *)
First(todo, logged) ==
    IF todo[1] \in {"store", "direct"} THEN todo[1]
    ELSE IF todo[1] = "auth" \/ ~logged THEN "login" ELSE "send"

(* A client that is not logged in closes without a request. *)
Remaining(todo, logged) == IF todo = <<"logout">> /\ ~logged THEN <<>> ELSE todo

(* Thread t goes on with what is left of its call. *)
Onward(t, todo, logged, result) ==
    LET rest == Remaining(todo, logged)
    IN [call[t] EXCEPT !.todo = rest, !.logged = logged, !.result = result,
                       !.at = IF rest = <<>> THEN "leave" ELSE First(rest, logged)]

(* The request at the head of the list was answered. *)
Success(t, logged) ==
    LET c    == call[t]
        r    == Head(c.todo)
        rest == IF r = "auth" /\ c.op = "clients" /\ KnownBroken THEN <<"logout">>
                ELSE IF r = "nodes" /\ KnownBroken THEN <<"direct", "store", "logout">>
                ELSE Tail(c.todo)
    IN  /\ \E result \in IF r = "clients" THEN {"ok", "empty"}
                         ELSE IF c.result # "none" \/ Len(rest) > 1 THEN {c.result}
                         ELSE IF r = "auth" THEN {"empty"} ELSE {"ok"} :
              call' = [call EXCEPT ![t] = [Onward(t, rest, logged, result) EXCEPT
                                             !.read = IF r = "nodes" THEN clock ELSE @]]
        /\ broken' = IF r \in {"probe", "clients", "list"} THEN Never ELSE broken

(* It failed: for a conflict of sessions, at the network or with
   InvalidCredentialsError.  The probe and the aggregate list declare the
   endpoint broken, the list, which is empty then, not for invalid
   credentials; a node's list is given up; logout swallows the exception;
   others end the call, and the long-lived client stays logged in.          *)
Failure(t, logged, why) ==
    LET c == call[t]
        r == Head(c.todo)
        listless == r \in {"clients", "list"} /\ why # "invalid"
    IN  /\ call' = [call EXCEPT ![t] =
              [CASE r = "probe"  -> Onward(t, <<"direct", "store", "logout">>, logged, c.result)
                 [] r = "node"   -> Onward(t, Tail(c.todo), logged, c.result)
                 [] r = "logout" -> Onward(t, <<>>, FALSE, c.result)
                 [] listless     -> Onward(t, Tail(c.todo), logged, "empty")
                 [] c.op \in Kept /\ ~listless -> Onward(t, <<>>, logged, "error")
                 [] OTHER        -> Onward(t, <<"logout">>, logged, "error")
               EXCEPT !.hurt = c.hurt \/ why # "conflict"]]
        /\ broken' = IF r = "probe" \/ listless THEN clock ELSE broken

----------------------------------------------------------------------------
(* A call begins.  Only the topology looks at its cache first, and without
   the lock.  The list of the long-lived client is not asked for, and empty
   at once, while it is known to be broken, which is forgotten afterwards.  *)
Begin(t) ==
    /\ call[t].at = "idle" /\ begun < MaxCalls
    /\ begun' = begun + 1
    /\ \E op \in Ops[t] :
         /\ op = "list" => ~KnownBroken
         /\ broken' = IF op = "list" THEN Never ELSE broken
         /\ call' = [call EXCEPT ![t] =
              [Idle EXCEPT !.op = op, !.todo = Requests(op), !.logged = call[t].logged,
                           !.at = CASE op = "topology"              -> "check"
                                    [] op \in Locked \ {"topology"} -> "lock"
                                    [] OTHER -> First(Requests(op), call[t].logged)]]
    /\ UNCHANGED <<session, holder, robbed, cache, clock, faults>>

Check(t) ==
    /\ call[t].at = "check"
    /\ call' = [call EXCEPT ![t].at = IF Fresh THEN "leave" ELSE "lock"]
    /\ UNCHANGED <<session, holder, robbed, cache, broken, clock, begun, faults>>

(* Mutant of Acquire: the lock is not waited for. *)
AcquireAtOnce(t) ==
    /\ call[t].at = "lock"
    /\ holder' = t
    /\ call' = [call EXCEPT ![t].at = IF call[t].op = "topology" /\ Fresh
                                      THEN "leave" ELSE "login"]
    /\ UNCHANGED <<session, robbed, cache, broken, clock, begun, faults>>

(* Mutant of Acquire: the cache is not looked at again. *)
AcquireUnchecked(t) ==
    /\ call[t].at = "lock" /\ holder = NoOne
    /\ holder' = t
    /\ call' = [call EXCEPT ![t].at = "login"]
    /\ UNCHANGED <<session, robbed, cache, broken, clock, begun, faults>>

(* with _local_api_lock, and the cache once more *)
Acquire(t) ==
    /\ call[t].at = "lock" /\ holder = NoOne
    /\ holder' = t
    /\ call' = [call EXCEPT ![t].at = IF call[t].op = "topology" /\ Fresh
                                      THEN "leave" ELSE "login"]
    /\ UNCHANGED <<session, robbed, cache, broken, clock, begun, faults>>

(* The session becomes s: a client that believes it has it is robbed (counted
   up to two).                                                              *)
GiveSession(s) ==
    /\ session' = s
    /\ robbed' = IF /\ session \in Thread \ {s}
                    /\ call[session].logged /\ robbed[session] < 2
                 THEN [robbed EXCEPT ![session] = @ + 1] ELSE robbed

(* authenticate(): to begin with, before a request, or after a conflict *)
Login(t) ==
    /\ call[t].at \in {"login", "relogin"}
    /\ GiveSession(t)
    /\ IF Head(call[t].todo) = "auth" THEN Success(t, TRUE)
       ELSE /\ call' = [call EXCEPT ![t].logged = TRUE,
                                    ![t].at = IF @ = "login" THEN "send" ELSE "resend"]
            /\ UNCHANGED broken
    /\ UNCHANGED <<holder, cache, clock, begun, faults>>

(* authenticate() raises, InvalidCredentialsError or APIConnectionError; the
   router may have logged t in all the same.                                *)
LoginFails(t) ==
    /\ call[t].at \in {"login", "relogin"} /\ faults < MaxFaults
    /\ faults' = faults + 1
    /\ \E why \in {"invalid", "network"} : Failure(t, FALSE, why)
    /\ \/ GiveSession(t)
       \/ UNCHANGED <<session, robbed>>
    /\ UNCHANGED <<holder, cache, clock, begun>>

(* The request reaches the router in t's session. *)
Answer(t) ==
    /\ call[t].at \in {"send", "resend"} /\ session = t
    /\ IF Head(call[t].todo) = "logout" THEN session' = NoOne /\ Success(t, FALSE)
                                        ELSE UNCHANGED session /\ Success(t, TRUE)
    /\ UNCHANGED <<holder, robbed, cache, clock, begun, faults>>

(* Mutant of Conflict: an ended session is an error like any other. *)
ConflictRaises(t) ==
    /\ call[t].at \in {"send", "resend"} /\ session # t
    /\ Failure(t, TRUE, "conflict")
    /\ UNCHANGED <<session, holder, robbed, cache, clock, begun, faults>>

(* Its session has ended: log in again, once. *)
Conflict(t) ==
    /\ call[t].at \in {"send", "resend"} /\ session # t
    /\ IF call[t].at = "send"
       THEN /\ call' = [call EXCEPT ![t].at = "relogin", ![t].logged = FALSE]
            /\ UNCHANGED broken
       ELSE Failure(t, TRUE, "conflict")
    /\ UNCHANGED <<session, holder, robbed, cache, clock, begun, faults>>

(* The request or its answer is lost. *)
RequestLost(t) ==
    /\ call[t].at \in {"send", "resend"} /\ faults < MaxFaults
    /\ faults' = faults + 1
    /\ Failure(t, TRUE, "network")
    /\ session' \in {session, IF Head(call[t].todo) = "logout" /\ session = t
                              THEN NoOne ELSE session}
    /\ UNCHANGED <<holder, robbed, cache, clock, begun>>

(* _clients_per_node_local: a client for each node logs in there and out
   again; nodes that do not answer are left out.                            *)
AskNodes(t) ==
    /\ call[t].at = "direct"
    /\ call' = [call EXCEPT ![t] = Onward(t, Tail(@.todo), @.logged, @.result)]
    /\ \/ RouterIsNode /\ GiveSession(NoOne)
       \/ UNCHANGED <<session, robbed>>
    /\ UNCHANGED <<holder, cache, broken, clock, begun, faults>>

Store(t) ==
    /\ call[t].at = "store"
    /\ cache' = [read |-> call[t].read, stored |-> clock]
    /\ call' = [call EXCEPT ![t] = Onward(t, Tail(@.todo), @.logged, "ok")]
    /\ UNCHANGED <<session, holder, robbed, broken, clock, begun, faults>>

(* Mutant of Leave: the fallback runs inside the with block. *)
LeaveHolding(t) ==
    /\ call[t].at = "leave"
    /\ LET falls == call[t].op = "clients" /\ call[t].result = "empty"
       IN  /\ call' = [call EXCEPT ![t] =
                 IF falls THEN [Idle EXCEPT !.op = "topology", !.at = "check",
                                            !.todo = Requests("topology")]
                          ELSE [Idle EXCEPT !.logged = call[t].logged]]
           /\ holder' = IF holder = t /\ ~falls THEN NoOne ELSE holder
    /\ robbed' = [robbed EXCEPT ![t] = IF call[t].logged /\ session # t THEN 1 ELSE 0]
    /\ UNCHANGED <<session, cache, broken, clock, begun, faults>>

(* The lock is released.  get_client_list_local falls back to the topology,
   a call of its own, when the aggregate list is empty.                     *)
Leave(t) ==
    /\ call[t].at = "leave"
    /\ holder' = IF holder = t THEN NoOne ELSE holder
    /\ call' = [call EXCEPT ![t] =
         IF call[t].op = "clients" /\ call[t].result = "empty"
         THEN [Idle EXCEPT !.op = "topology", !.at = "check", !.todo = Requests("topology")]
         ELSE [Idle EXCEPT !.logged = call[t].logged]]
    /\ robbed' = [robbed EXCEPT ![t] = IF call[t].logged /\ session # t THEN 1 ELSE 0]
    /\ UNCHANGED <<session, cache, broken, clock, begun, faults>>

Tick ==
    /\ clock < MaxClock
    /\ clock' = clock + 1
    /\ UNCHANGED <<session, holder, call, robbed, cache, broken, begun, faults>>

Step(t) == \/ Check(t) \/ Acquire(t) \/ Login(t) \/ LoginFails(t) \/ Answer(t)
           \/ Conflict(t) \/ RequestLost(t) \/ AskNodes(t) \/ Store(t) \/ Leave(t)

Next == Tick \/ \E t \in Thread : Begin(t) \/ Step(t)

Spec == Init /\ [][Next]_vars

(* Threads are scheduled and every exchange has a timeout. *)
FairSpec == Spec /\ \A t \in Thread : WF_vars(Step(t))

----------------------------------------------------------------------------
Requested == {"auth", "nodes", "probe", "node", "clients", "report", "list",
              "direct", "store", "logout"}

TypeOK ==
    /\ session \in Thread \cup {NoOne} /\ holder \in Caller \cup {NoOne}
    /\ \A t \in Thread :
         /\ \/ call[t].op \in Ops[t] \cup {"none"}
            \/ call[t].op = "topology" /\ "clients" \in Ops[t]
         /\ call[t].todo \in Seq(Requested)
         /\ call[t].at \in {"idle", "check", "lock", "login", "relogin", "send", "resend",
                            "direct", "store", "leave"}
         /\ call[t].logged \in BOOLEAN /\ call[t].hurt \in BOOLEAN
         /\ call[t].result \in {"none", "ok", "empty", "error"}
         /\ call[t].read \in Never..MaxClock
    /\ robbed \in [Thread -> 0..2]
    /\ cache \in [read : Never..MaxClock, stored : Never..MaxClock]
    /\ broken \in Never..MaxClock
    /\ clock \in 0..MaxClock /\ begun \in 0..MaxCalls /\ faults \in 0..MaxFaults

(* The lock does what its comment says of the calls that take it: the session
   of a locked call is never taken by another locked call, only by a call
   without the lock or by the direct read of the router itself.             *)
OnlyUnlockedRob ==
    [][\A t \in Thread :
         robbed'[t] > robbed[t] /\ call[t].op \in Locked =>
            \/ session' \in Thread /\ call[session'].op \notin Locked
            \/ session' = NoOne /\ call[t].at = "direct"]_vars

(* One competing login never costs a call its answer: without a network error
   a call fails, or declares the client list broken, only if its session was
   taken from it twice.                                                     *)
FailuresExplained ==
    [][\A t \in Thread :
         \/ call'[t].result = "error" /\ call[t].result # "error"
         \/ broken' # broken /\ broken' # Never /\ call'[t] # call[t]
         => call'[t].hurt \/ robbed[t] = 2]_vars

(* When no call is under way the router has no session but the long-lived one,
   unless the network lost a login or a logout: a call that was robbed logs in
   again only to log out.                                                   *)
SessionsClosed ==
    (\A t \in Thread : call[t].at = "idle") /\ faults = 0 => session \in {NoOne, Keeper}

(* The fetch under way is the lock holder's, from its answer about the nodes
   until it has stored them or given up.                                    *)
Reading ==
    IF holder # NoOne /\ call[holder].op = "topology"
       /\ \E i \in DOMAIN call[holder].todo : call[holder].todo[i] = "store"
    THEN call[holder].read ELSE Never

(* Seen through the cache alone, the sessions, conflicts and fallbacks are one
   source of topologies: one fetch at a time, and none while the last topology
   is fresh, so callers that waited for the lock use what was stored meanwhile. *)
Source == INSTANCE TopologySource WITH reading <- Reading
ImplementsSource == Source!SourceSpec

(* Every call ends, whatever the others do to its session. *)
CallsEnd == \A t \in Thread : call[t].at # "idle" ~> call[t].at = "idle"

=============================================================================
