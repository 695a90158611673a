---------------------------- MODULE TopologySource ----------------------------
(* What DecoClient.get_topology_local promises its callers, however its
   sessions are kept: one cached topology, read from the router by one fetch
   at a time, and not again while it is fresh.  DecoSession implements it;
   DecoPages takes the ages of its answers from it.                         *)
EXTENDS Integers

CONSTANTS
    TTL,        \* how long a topology is fresh
    MaxClock    \* bound on time

Never == -1

VARIABLES
    clock,
    cache,      \* when the cached topology was read and when it was stored
    reading     \* when the fetch under way read the nodes

sourceVars == <<clock, cache, reading>>

SourceInit ==
    /\ clock = 0
    /\ cache = [read |-> Never, stored |-> Never]
    /\ reading = Never

FreshSince(stored, ttl) == stored # Never /\ clock - stored < ttl
Fresh == FreshSince(cache.stored, TTL)

Tick == clock < MaxClock /\ clock' = clock + 1 /\ UNCHANGED <<cache, reading>>

Read  == reading = Never /\ ~Fresh /\ reading' = clock /\ UNCHANGED <<clock, cache>>

Store ==
    /\ reading # Never
    /\ cache' = [read |-> reading, stored |-> clock] /\ reading' = Never
    /\ UNCHANGED clock

Abandon == reading # Never /\ reading' = Never /\ UNCHANGED <<clock, cache>>

SourceNext == Tick \/ Read \/ Store \/ Abandon

SourceSpec == SourceInit /\ [][SourceNext]_sourceVars

=============================================================================
