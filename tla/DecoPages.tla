------------------------------ MODULE DecoPages ------------------------------
(***************************************************************************)
(* The cached pages of the Deco: DecoService's nodes and settings, each    *)
(* kept for 60 seconds, and the topology and its graph in routes/deco.py,  *)
(* kept for another 60, all over the topology that TopologySource keeps    *)
(* for 30.  The handlers call the Deco on the event-loop thread, so one    *)
(* runs at a time; it stamps a page when it has built it, which is later   *)
(* than it read what the page is made of.                                  *)
(*                                                                         *)
(* A page is known by the age of its oldest part, counted from the moment  *)
(* the Deco was asked for it.  Slow is the longest that a fetch or a       *)
(* handler takes: no time passes for one that has taken as long.           *)
(***************************************************************************)
EXTENDS Integers

CONSTANTS
    TopologyTTL,   \* TOPOLOGY_CACHE_TTL
    ViewTTL,       \* CACHE_TTL, TOPOLOGY_ROUTE_CACHE_TTL
    Slow           \* the longest that a fetch or a handler takes

ASSUME PagesAssumption ==
    TopologyTTL \in Nat \ {0} /\ ViewTTL \in Nat \ {0} /\ Slow \in Nat

View == {"nodes", "topology", "graph", "settings"}

VARIABLES
    page,      \* each cache: the age of its oldest part, for how long it is kept
    handler    \* the page asked for, the step it is at, what it has, for how long it runs

pageVars == <<page, handler>>

NoPage    == [data |-> 0, kept |-> ViewTTL]
NoHandler == [for |-> "none", at |-> "idle", data |-> 0, ran |-> 0]

PagesInit ==
    /\ page = [v \in View |-> NoPage]
    /\ handler = NoHandler

Cached(v)    == page[v].kept < ViewTTL
Stamped(age) == [data |-> age, kept |-> 0]
Oldest(a, b) == IF a > b THEN a ELSE b

----------------------------------------------------------------------------
Busy == handler.at # "idle"

(* The first that the handler of a page asks for.  /wifi-config and /qos read
   with the long-lived client: all they get is asked for from then on.      *)
FirstStep(v) ==
    CASE v = "graph"    -> "topology"
      [] v = "settings" -> "page"
      [] OTHER          -> "nodes"

Handle(v) == handler' = [NoHandler EXCEPT !.for = v, !.at = FirstStep(v)]

(* A request finds no page to answer with; /nodes asks the service, which
   looks for one itself.                                                    *)
AskPage(v) ==
    /\ ~Busy /\ (Cached(v) => v = "nodes")
    /\ Handle(v) /\ UNCHANGED page

(* POST /nodes/refresh: clear_cache, then the nodes anew.  The topology's own
   cache and the pages of the routes are not cleared.                       *)
RefreshNodes ==
    /\ ~Busy
    /\ page' = [page EXCEPT !["nodes"] = NoPage, !["settings"] = NoPage]
    /\ Handle("nodes")

(* get_topology_local: the kept topology or one just fetched, stamped after
   its fetch in this thread or in another                                   *)
TopologyAge == 0..(TopologyTTL - 1 + Slow)

(* What follows when get_nodes_with_details has returned nodes of this age. *)
WithNodes(age) ==
    handler' = CASE handler.for = "nodes"    -> NoHandler
                 [] handler.for = "topology" -> [handler EXCEPT !.at = "topology", !.data = age]
                 [] OTHER                    -> [handler EXCEPT !.at = "page", !.data = age]

(* Mutant of ReadNodes: reading the cache renews it. *)
ReadNodesRenewing ==
    /\ handler.at = "nodes"
    /\ \/ /\ Cached("nodes") /\ WithNodes(page["nodes"].data)
          /\ page' = [page EXCEPT !["nodes"].kept = 0]
       \/ /\ ~Cached("nodes") /\ UNCHANGED page
          /\ \E t \in TopologyAge : handler' = [handler EXCEPT !.at = "enrich", !.data = t]

ReadNodes ==
    /\ handler.at = "nodes" /\ UNCHANGED page
    /\ \/ Cached("nodes") /\ WithNodes(page["nodes"].data)
       \/ /\ ~Cached("nodes")
          /\ \E t \in TopologyAge : handler' = [handler EXCEPT !.at = "enrich", !.data = t]

(* The nodes are enriched, marked online in the database, and kept; an empty
   list counts as none.                                                     *)
StampNodes ==
    /\ handler.at = "enrich"
    /\ \E n \in {Stamped(handler.data), NoPage} : page' = [page EXCEPT !["nodes"] = n]
    /\ WithNodes(handler.data)

(* /topology adds the topology to the nodes if it gets one; /topology-graph
   is made of the topology or, without one, of the nodes.                   *)
ReadTopology ==
    /\ handler.at = "topology" /\ UNCHANGED page
    /\ \/ \E t \in TopologyAge : handler' = [handler EXCEPT !.at = "page",
            !.data = IF handler.for = "graph" THEN t ELSE Oldest(@, t)]
       \/ handler' = [handler EXCEPT !.at = IF handler.for = "graph" THEN "nodes" ELSE "page"]

StampPage ==
    /\ handler.at = "page"
    /\ page' = [page EXCEPT ![handler.for] = Stamped(handler.data)]
    /\ handler' = NoHandler

(* What a handler calls may raise at any step, the merged clients of the
   long-lived client among it.                                              *)
GiveUp == Busy /\ handler' = NoHandler /\ UNCHANGED page

TimePasses ==
    /\ Busy => handler.ran < Slow
    /\ page' = [v \in View |->
         IF page[v].kept + 1 < ViewTTL
         THEN [data |-> page[v].data + 1, kept |-> page[v].kept + 1] ELSE NoPage]
    /\ handler' = IF Busy THEN [handler EXCEPT !.data = @ + 1, !.ran = @ + 1] ELSE handler

PagesNext ==
    \/ \E v \in View : AskPage(v)
    \/ RefreshNodes \/ ReadNodes \/ StampNodes \/ ReadTopology \/ StampPage
    \/ GiveUp \/ TimePasses

----------------------------------------------------------------------------
PagesTypeOK ==
    /\ page \in [View -> [data : Nat, kept : 0..ViewTTL]]
    /\ handler \in [for : View \cup {"none"},
                    at : {"idle", "nodes", "enrich", "topology", "page"},
                    data : Nat, ran : 0..Slow]

(* What a page shows while it is kept: the topology's 30 seconds, the nodes'
   60 and the page's own 60 add up, and so do the durations of the requests
   that filled the three, as each stamps its cache only when it has done.   *)
AgeLimit(v) ==
    CASE v = "settings" -> ViewTTL - 1 + Slow
      [] v = "nodes"    -> (TopologyTTL - 1 + Slow) + (ViewTTL - 1 + Slow)
      [] OTHER          -> (TopologyTTL - 1 + Slow) + 2 * (ViewTTL - 1 + Slow)

AgesStack == \A v \in View : Cached(v) => page[v].data <= AgeLimit(v)

=============================================================================
