--------------------------- MODULE ClientMapProofs ---------------------------
(* Proofs of ClientMap's safety properties, for any number of requests and of
   worker threads.                                                          *)
EXTENDS ClientMap, FiniteSetTheorems, TLAPS

-----------------------------------------------------------------------------
(* Types *)
LEMMA TypesInit == Init => TypeOK
<1> SUFFICES ASSUME Init PROVE TypeOK
  OBVIOUS
<1> USE MapAssumption DEF MapAssumption, Init
<1>1. builds \in 0..MaxBuilds /\ 0 \in 0..builds
  OBVIOUS
<1>2. /\ worker \in [Worker -> [at : {"idle", "asking", "built", "failed"}, build : 0..builds]]
      /\ request \in [Client -> [at : {"idle", "waiting", "resuming", "answered"},
                                 build : 0..builds]]
  BY <1>1
<1> QED
  BY <1>1, <1>2 DEF TypeOK

LEMMA TypesKept == TypeOK /\ [Next]_vars => TypeOK'
<1> SUFFICES ASSUME TypeOK, [Next]_vars PROVE TypeOK'
  OBVIOUS
<1> USE MapAssumption DEF MapAssumption
<1>1. CASE StoreMap \/ MapAges
  <2>1. builds \in Nat /\ 0 \in 0..builds
    BY DEF TypeOK
  <2>2. CASE StoreMap
    BY <2>1, <2>2 DEF StoreMap, TypeOK
  <2>3. CASE MapAges
    BY <2>3 DEF MapAges, TypeOK
  <2> QED
    BY <1>1, <2>2, <2>3
<1>2. ASSUME NEW w \in Worker, Build(w) PROVE TypeOK'
  BY <1>2 DEF Build, TypeOK
<1>3. ASSUME NEW w \in Worker, Notice(w) PROVE TypeOK'
  <2>1. worker[w].build \in 0..builds /\ 0 \in 0..builds
    BY DEF TypeOK
  <2>2. request' \in [Client -> [at : {"idle", "waiting", "resuming", "answered"},
                                 build : 0..builds]]
    BY <1>3, <2>1 DEF Notice, TypeOK, Answered
  <2> QED
    BY <1>3, <2>1, <2>2 DEF Notice, TypeOK
<1>4. ASSUME NEW q \in Client, Ask(q) PROVE TypeOK'
  <2>1. request' \in [Client -> [at : {"idle", "waiting", "resuming", "answered"},
                                 build : 0..builds]]
    BY <1>4 DEF Ask, TypeOK
  <2>2. CASE ~TaskDone
    BY <1>4, <2>1, <2>2 DEF Ask, TypeOK
  <2>3. CASE TaskDone
    <3>1. builds' = builds + 1 /\ builds' \in 0..MaxBuilds
      BY <1>4, <2>3 DEF Ask, TypeOK
    <3>2. \A n \in 0..builds : n \in 0..builds'
      BY <3>1 DEF TypeOK
    <3>3. builds' \in 0..builds'
      BY <3>1 DEF TypeOK
    <3>4. /\ task' \in Worker
          /\ worker' = [worker EXCEPT ![task'] = [at |-> "asking", build |-> builds']]
      BY <1>4, <2>3, <3>1 DEF Ask
    <3>5. worker \in [Worker -> [at : {"idle", "asking", "built", "failed"}, build : 0..builds']]
      BY <3>2 DEF TypeOK
    <3>6. worker' \in [Worker -> [at : {"idle", "asking", "built", "failed"}, build : 0..builds']]
      BY <3>3, <3>4, <3>5
    <3>7. request' \in [Client -> [at : {"idle", "waiting", "resuming", "answered"},
                                   build : 0..builds']]
      BY <2>1, <3>2
    <3>8. map' \in 0..builds' /\ storing' \in 0..builds' /\ UNCHANGED mapFresh
      BY <1>4, <3>2 DEF Ask, TypeOK
    <3> QED
      BY <3>1, <3>4, <3>6, <3>7, <3>8 DEF TypeOK
  <2> QED
    BY <2>2, <2>3
<1>5. ASSUME NEW q \in Client, Resume(q) \/ Timeout(q) \/ Again(q) PROVE TypeOK'
  <2>1. builds \in Nat /\ 0 \in 0..builds
    BY DEF TypeOK
  <2>2. CASE Resume(q)
    BY <2>1, <2>2 DEF Resume, TypeOK, Answered
  <2>3. CASE Timeout(q)
    BY <2>1, <2>3 DEF Timeout, TypeOK, Answered
  <2>4. CASE Again(q)
    BY <2>1, <2>4 DEF Again, TypeOK
  <2> QED
    BY <1>5, <2>2, <2>3, <2>4
<1>6. CASE UNCHANGED vars
  BY <1>6 DEF vars, TypeOK
<1> QED
  BY <1>1, <1>2, <1>3, <1>4, <1>5, <1>6 DEF Next

(* Every refresh and request has its type, in every reachable state. *)
THEOREM TypeCorrect == Spec => []TypeOK
  BY TypesInit, TypesKept, PTL DEF Spec

-----------------------------------------------------------------------------
(* The client map: the thread that builds is the task's. *)
BuilderInv == \A w \in Worker : Building(w) => task = w

LEMMA BuilderImplies == BuilderInv => OneBuilder
<1> SUFFICES ASSUME BuilderInv PROVE Cardinality({w \in Worker : Building(w)}) <= 1
  BY DEF OneBuilder
<1> DEFINE B == {w \in Worker : Building(w)}
<1>1. B \subseteq {task}
  BY DEF BuilderInv
<1>2. IsFiniteSet({task}) /\ Cardinality({task}) = 1
  BY FS_Singleton
<1>3. IsFiniteSet(B) /\ Cardinality(B) <= Cardinality({task})
  BY <1>1, <1>2, FS_Subset
<1> QED
  BY <1>2, <1>3

LEMMA BuilderStep == TypeOK /\ BuilderInv /\ [Next]_vars => BuilderInv'
<1> SUFFICES ASSUME TypeOK, BuilderInv, [Next]_vars PROVE BuilderInv'
  OBVIOUS
<1>1. worker \in [Worker -> [at : {"idle", "asking", "built", "failed"}, build : 0..builds]]
  BY DEF TypeOK
<1>2. ASSUME UNCHANGED <<worker, task>> PROVE BuilderInv'
  BY <1>2 DEF BuilderInv, Building
<1>3. ASSUME NEW q \in Client, Ask(q) PROVE BuilderInv'
  <2>1. CASE ~TaskDone
    BY <1>2, <1>3, <2>1 DEF Ask
  <2>2. CASE TaskDone
    <3>1. \A w \in Worker : ~Building(w)
      BY <2>2, MapAssumption DEF TaskDone, BuilderInv, MapAssumption
    <3> QED
      BY <1>1, <1>3, <2>2, <3>1 DEF Ask, BuilderInv, Building
  <2> QED
    BY <2>1, <2>2
<1>4. ASSUME NEW w \in Worker, Build(w) PROVE BuilderInv'
  BY <1>1, <1>4 DEF Build, BuilderInv, Building
<1>5. ASSUME NEW w \in Worker, Notice(w) PROVE BuilderInv'
  BY <1>1, <1>5 DEF Notice, BuilderInv, Building
<1>6. CASE StoreMap \/ MapAges
  BY <1>2, <1>6 DEF StoreMap, MapAges
<1>7. ASSUME NEW q \in Client, Resume(q) \/ Timeout(q) \/ Again(q) PROVE BuilderInv'
  BY <1>2, <1>7 DEF Resume, Timeout, Again
<1>8. CASE UNCHANGED vars
  BY <1>2, <1>8 DEF vars
<1> QED
  BY <1>3, <1>4, <1>5, <1>6, <1>7, <1>8 DEF Next

(* However many requests come and time out, at most one thread builds the
   client map: the task is replaced only when its thread has ended
   (routes/deco.py get_client_node_map).                                    *)
THEOREM OneBuilderAlways == Spec => []OneBuilder
<1>1. Init => BuilderInv
  BY DEF Init, BuilderInv, Building
<1> QED
  BY <1>1, BuilderStep, BuilderImplies, TypesInit, TypesKept, PTL DEF Spec

=============================================================================
