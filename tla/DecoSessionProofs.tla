-------------------------- MODULE DecoSessionProofs --------------------------
(***************************************************************************)
(* Proofs of what DecoSession promises of locks, sessions, conflicts and   *)
(* fallbacks, for any number of threads and any mix of their calls, and    *)
(* that it implements TopologySource.                                      *)
(***************************************************************************)
EXTENDS DecoSession, TLAPS

Operation == {"topology", "clients", "optimize", "write", "read", "list"}
OpOf(t)   == Ops[t] \cup {op \in {"topology"} : "clients" \in Ops[t]}

(* What may be left of each call: a fetch of the topology until its answer
   about the nodes, and from then until it has stored it.                   *)
Early == {<<"auth", "nodes", "probe", "node", "store", "logout">>,
          <<"nodes", "probe", "node", "store", "logout">>}
Late  == {<<"probe", "node", "store", "logout">>, <<"node", "store", "logout">>,
          <<"direct", "store", "logout">>, <<"store", "logout">>}
Todo(op) ==
    CASE op = "topology" -> Early \cup Late \cup {<<"logout">>}
      [] op = "clients"  -> {<<"auth", "clients", "logout">>, <<"clients", "logout">>, <<"logout">>}
      [] op = "optimize" -> {<<"auth", "report", "report", "logout">>,
                             <<"report", "report", "logout">>, <<"report", "logout">>,
                             <<"logout">>}
      [] op = "write"    -> {<<"auth", "report", "logout">>, <<"report", "logout">>, <<"logout">>}
      [] op = "read"     -> {<<"report">>}
      [] op = "list"     -> {<<"list">>}

Exchanging == {"login", "relogin", "send", "resend"}
Busy       == Exchanging \cup {"direct", "store"}

Record == [op : Operation \cup {"none"}, at : Busy \cup {"idle", "check", "lock", "leave"},
           todo : Seq(Requested), logged : BOOLEAN,
           result : {"none", "ok", "empty", "error"}, read : Never..MaxClock, hurt : BOOLEAN]

CallOK(t) ==
    LET c == call[t] IN
    /\ IF c.at = "idle" THEN c.op = "none" ELSE c.op \in OpOf(t)
    /\ c.at = "check" => c.op = "topology"
    /\ c.at \in {"check", "lock"} => c.op \in Locked /\ c.todo = Requests(c.op) /\ c.read = Never
    /\ c.at \in Busy => c.todo \in Todo(c.op)
    /\ c.at \in Exchanging => Head(c.todo) \notin {"direct", "store"}
    /\ c.at \in {"direct", "store"} => Head(c.todo) = c.at
    /\ c.at \in {"relogin", "send", "resend"} => Head(c.todo) # "auth"
    /\ c.at \in {"send", "resend"} => c.logged
    /\ c.at \in {"idle", "check", "lock", "leave"} /\ t # Keeper => ~c.logged
    /\ c.at \in Busy /\ c.op = "topology" /\ c.todo \in Early => c.read = Never
    /\ c.at \in Busy /\ c.op = "topology" /\ c.todo \in Late => c.read # Never

(* A locked call that is under way has the lock. *)
LockOK(t) == call[t].op \in Locked /\ call[t].at \in Busy => holder = t

(* Who believes to be logged in and is not was robbed, and who has logged in
   again since and is not was robbed again.                                 *)
RobOK(t) ==
    /\ call[t].logged /\ session # t => robbed[t] >= 1
    /\ call[t].at \in {"relogin", "resend"} => robbed[t] >= 1
    /\ call[t].at = "resend" /\ session # t => robbed[t] = 2

(* Without faults the router has no session its client knows nothing of. *)
ClosedOK(t) == faults = 0 /\ session = t => call[t].logged

(* A fetch that has not read the nodes yet is needed. *)
FreshOK(t) == call[t].at \in Busy /\ call[t].op = "topology" /\ call[t].todo \in Early => ~Fresh

Ranges ==
    /\ session \in Thread \cup {NoOne} /\ holder \in Caller \cup {NoOne}
    /\ robbed \in [Thread -> 0..2]
    /\ cache \in [read : Never..MaxClock, stored : Never..MaxClock]
    /\ broken \in Never..MaxClock
    /\ clock \in 0..MaxClock /\ begun \in 0..MaxCalls /\ faults \in 0..MaxFaults

ThreadOK(t) == CallOK(t) /\ LockOK(t) /\ RobOK(t) /\ ClosedOK(t) /\ FreshOK(t)

SessionInv ==
    /\ Ranges
    /\ call \in [Thread -> Record]
    /\ \A t \in Thread : ThreadOK(t)

-----------------------------------------------------------------------------
(* The lists of requests, read off once, so that no other proof opens one *)
LEMMA Heads ==
  /\ \A s \in Early : Head(s) = s[1] /\ Tail(s) # <<>> /\ s # <<>> /\ s # <<"logout">>
  /\ \A s \in Early : Head(s) \in {"auth", "nodes"} /\ s \notin Late
  /\ \A s \in Late : Head(s) = s[1] /\ Tail(s) # <<>> /\ s # <<>> /\ s # <<"logout">>
  /\ \A s \in Late : Head(s) \in {"probe", "node", "direct", "store"}
  BY DEF Early, Late

LEMMA TopologyTails ==
  /\ \A s \in Early : /\ Head(s) = "auth" => Tail(s) \in Early /\ Head(Tail(s)) # "auth"
                      /\ Head(s) = "nodes" => Tail(s) \in Late
  /\ \A s \in Late : IF Head(s) = "store" THEN Tail(s) = <<"logout">> ELSE Tail(s) \in Late
  BY DEF Early, Late

LEMMA OtherTails ==
  ASSUME NEW op \in {"clients", "optimize", "write"}, NEW s \in Todo(op)
  PROVE  /\ s # <<>> /\ Head(s) = s[1]
         /\ Head(s) \in {"auth", "clients", "report", "logout"}
         /\ Head(s) = "clients" => op = "clients" /\ Tail(s) = <<"logout">>
         /\ IF Head(s) = "logout" THEN s = <<"logout">> /\ Tail(s) = <<>>
            ELSE Tail(s) \in Todo(op) /\ Head(Tail(s)) # "auth"
<1>1. CASE op = "clients"
  <2>1. s \in {<<"auth", "clients", "logout">>, <<"clients", "logout">>, <<"logout">>}
    BY <1>1 DEF Todo
  <2>2. CASE s = <<"auth", "clients", "logout">>
    <3>1. Head(s) = "auth" /\ Tail(s) = <<"clients", "logout">> /\ Head(Tail(s)) = "clients"
      BY <2>2
    <3> QED
      BY <1>1, <2>2, <3>1 DEF Todo
  <2>3. CASE s = <<"clients", "logout">>
    <3>1. Head(s) = "clients" /\ Tail(s) = <<"logout">> /\ Head(Tail(s)) = "logout"
      BY <2>3
    <3> QED
      BY <1>1, <2>3, <3>1 DEF Todo
  <2>4. CASE s = <<"logout">>
    BY <2>4
  <2> QED
    BY <2>1, <2>2, <2>3, <2>4
<1>2. CASE op = "optimize"
  <2>1. s \in {<<"auth", "report", "report", "logout">>, <<"report", "report", "logout">>,
              <<"report", "logout">>, <<"logout">>}
    BY <1>2 DEF Todo
  <2>2. CASE s = <<"auth", "report", "report", "logout">>
    <3>1. Head(s) = "auth" /\ Tail(s) = <<"report", "report", "logout">> /\ Head(Tail(s)) = "report"
      BY <2>2
    <3> QED
      BY <1>2, <2>2, <3>1 DEF Todo
  <2>3. CASE s = <<"report", "report", "logout">>
    <3>1. Head(s) = "report" /\ Tail(s) = <<"report", "logout">> /\ Head(Tail(s)) = "report"
      BY <2>3
    <3> QED
      BY <1>2, <2>3, <3>1 DEF Todo
  <2>4. CASE s = <<"report", "logout">>
    <3>1. Head(s) = "report" /\ Tail(s) = <<"logout">> /\ Head(Tail(s)) = "logout"
      BY <2>4
    <3> QED
      BY <1>2, <2>4, <3>1 DEF Todo
  <2>5. CASE s = <<"logout">>
    BY <2>5
  <2> QED
    BY <2>1, <2>2, <2>3, <2>4, <2>5
<1>3. CASE op = "write"
  <2>1. s \in {<<"auth", "report", "logout">>, <<"report", "logout">>, <<"logout">>}
    BY <1>3 DEF Todo
  <2>2. CASE s = <<"auth", "report", "logout">>
    <3>1. Head(s) = "auth" /\ Tail(s) = <<"report", "logout">> /\ Head(Tail(s)) = "report"
      BY <2>2
    <3> QED
      BY <1>3, <2>2, <3>1 DEF Todo
  <2>3. CASE s = <<"report", "logout">>
    <3>1. Head(s) = "report" /\ Tail(s) = <<"logout">> /\ Head(Tail(s)) = "logout"
      BY <2>3
    <3> QED
      BY <1>3, <2>3, <3>1 DEF Todo
  <2>4. CASE s = <<"logout">>
    BY <2>4
  <2> QED
    BY <2>1, <2>2, <2>3, <2>4
<1> QED
  BY <1>1, <1>2, <1>3

LEMMA KeptTails ==
  /\ Todo("read") = {<<"report">>} /\ Todo("list") = {<<"list">>}
  /\ \A s \in {<<"report">>, <<"list">>} :
       s # <<>> /\ Head(s) = s[1] /\ Head(s) \in {"report", "list"} /\ Tail(s) = <<>>
  /\ Head(<<"report">>) = "report" /\ Head(<<"list">>) = "list"
  BY DEF Todo

LEMMA Beginnings ==
  /\ \A op \in Operation : Requests(op) \in Todo(op)
  /\ \A op \in Locked \cup {"write"} : Head(Requests(op)) = "auth" /\ Requests(op)[1] = "auth"
  /\ Requests("topology") \in Early
  /\ Requests("read") = <<"report">> /\ Requests("list") = <<"list">>
  /\ Requests("topology")[1] = "auth"
  BY DEF Requests, Todo, Operation, Locked, Early

(* What a list says of itself, whichever it is *)
Storing(todo) == \E i \in DOMAIN todo : todo[i] = "store"

LEMMA StoringOnes ==
  /\ \A s \in Early \cup Late : Storing(s)
  /\ ~Storing(<<>>) /\ ~Storing(<<"logout">>)
  BY DEF Early, Late, Storing

LEMMA TodoSeq ==
  /\ \A op \in Operation : Todo(op) \subseteq Seq(Requested)
  /\ <<>> \in Seq(Requested)
  BY DEF Todo, Operation, Early, Late, Requested

LEMMA Logouts ==
  /\ <<"logout">> # <<>> /\ Head(<<"logout">>) = "logout" /\ <<"logout">>[1] = "logout"
  /\ Tail(<<"logout">>) = <<>> /\ Tail(<<"list">>) = <<>> /\ Tail(<<"clients", "logout">>) = <<"logout">>
  /\ <<"logout">> \notin Early \cup Late
  /\ \A op \in Operation \ Kept : <<"logout">> \in Todo(op)
  /\ <<"direct", "store", "logout">> \in Late
  /\ Head(<<"direct", "store", "logout">>) = "direct" /\ <<"direct", "store", "logout">>[1] = "direct"
  BY DEF Todo, Operation, Kept, Early, Late

LEMMA TodoFacts ==
  ASSUME NEW op \in Operation, NEW s \in Todo(op)
  PROVE  /\ s \in Seq(Requested) /\ s # <<>> /\ Head(s) = s[1]
         /\ Head(s) = "logout" => s = <<"logout">> /\ Tail(s) = <<>>
         /\ op \in Kept => Head(s) \in {"report", "list"} /\ Tail(s) = <<>>
         /\ op \notin Kept /\ Head(s) # "logout" => Tail(s) \in Todo(op) /\ Head(Tail(s)) # "auth"
         /\ op # "topology" => Head(s) \in {"auth", "clients", "report", "list", "logout"}
         /\ Head(s) = "clients" => op = "clients" /\ Tail(s) = <<"logout">>
         /\ Head(s) = "list" => op = "list"
<1>1. s \in Seq(Requested)
  BY TodoSeq
<1>2. CASE op = "topology"
  <2>0. op \notin Kept
    BY <1>2 DEF Kept
  <2>1. s \in Early \/ s \in Late \/ s = <<"logout">>
    BY <1>2 DEF Todo
  <2>2. Todo(op) = Early \cup Late \cup {<<"logout">>}
    BY <1>2 DEF Todo
  <2>3. CASE s \in Early
    <3>1. Head(s) \in {"auth", "nodes"} /\ s # <<>> /\ Head(s) = s[1]
      BY <2>3, Heads
    <3>2. (Tail(s) \in Early /\ Head(Tail(s)) # "auth") \/ Tail(s) \in Late
      BY <2>3, <3>1, TopologyTails
    <3>3. Head(Tail(s)) # "auth"
      BY <3>2, Heads
    <3> QED
      BY <1>1, <1>2, <2>0, <2>2, <3>1, <3>2, <3>3
  <2>4. CASE s \in Late
    <3>1. Head(s) \in {"probe", "node", "direct", "store"} /\ s # <<>> /\ Head(s) = s[1]
      BY <2>4, Heads
    <3>2. Tail(s) \in Late \/ Tail(s) = <<"logout">>
      BY <2>4, TopologyTails
    <3>3. Head(Tail(s)) # "auth"
      BY <3>2, Heads, Logouts
    <3> QED
      BY <1>1, <1>2, <2>0, <2>2, <3>1, <3>2, <3>3
  <2>5. CASE s = <<"logout">>
    BY <1>1, <1>2, <2>0, <2>5, Logouts
  <2> QED
    BY <2>1, <2>3, <2>4, <2>5
<1>3. CASE op \in {"clients", "optimize", "write"}
  <2>1. /\ s # <<>> /\ Head(s) = s[1]
        /\ Head(s) \in {"auth", "clients", "report", "logout"}
        /\ Head(s) = "clients" => op = "clients" /\ Tail(s) = <<"logout">>
        /\ IF Head(s) = "logout" THEN s = <<"logout">> /\ Tail(s) = <<>>
           ELSE Tail(s) \in Todo(op) /\ Head(Tail(s)) # "auth"
    BY <1>3, OtherTails
  <2>2. op \notin Kept
    BY <1>3 DEF Kept
  <2> QED
    BY <1>1, <1>3, <2>1, <2>2
<1>4. CASE op \in Kept
  BY <1>1, <1>4, KeptTails DEF Kept
<1> QED
  BY <1>2, <1>3, <1>4 DEF Operation, Kept

-----------------------------------------------------------------------------
(* What a call comes to when a request of it has been answered or has failed *)
Proceeds(t, d) ==
    /\ d \in Record /\ d.op = call[t].op
    /\ \/ d.at = "leave" /\ d.todo = <<>> /\ (~d.logged \/ d.op \in Kept)
       \/ /\ d.todo \in Todo(d.op) /\ Head(d.todo) # "auth"
          /\ d.at = IF Head(d.todo) \in {"direct", "store"} THEN Head(d.todo)
                    ELSE IF d.logged THEN "send" ELSE "login"
    /\ d.op = "topology" =>
         /\ d.todo \in Early => call[t].todo \in Early /\ d.read = Never
         /\ d.todo \in Late => IF call[t].todo \in Late THEN d.read = call[t].read
                               ELSE call[t].todo \in Early /\ d.read = clock

LEMMA OnwardOK ==
  ASSUME call \in [Thread -> Record], NEW t \in Thread, call[t].op \in Operation,
         NEW todo \in Todo(call[t].op) \cup {<<>>}, todo # <<>> => Head(todo) # "auth",
         NEW logged \in BOOLEAN, todo = <<>> => ~logged \/ call[t].op \in Kept,
         NEW result \in {"none", "ok", "empty", "error"},
         NEW d, d = Onward(t, todo, logged, result)
  PROVE  /\ d \in Record /\ d.op = call[t].op /\ d.logged = logged /\ d.result = result
         /\ d.read = call[t].read /\ d.hurt = call[t].hurt
         /\ \/ d.at = "leave" /\ d.todo = <<>> /\ (~logged \/ d.op \in Kept)
            \/ /\ d.todo = todo /\ todo # <<>>
               /\ d.at = IF Head(todo) \in {"direct", "store"} THEN Head(todo)
                         ELSE IF logged THEN "send" ELSE "login"
<1> DEFINE rest == Remaining(todo, logged)
<1>1. call[t] \in Record
  OBVIOUS
<1>2. CASE rest = <<>>
  <2>1. d = [call[t] EXCEPT !.todo = <<>>, !.logged = logged, !.result = result, !.at = "leave"]
    BY <1>2 DEF Onward
  <2>2. <<>> \in Seq(Requested)
    BY TodoSeq
  <2>3. ~logged \/ call[t].op \in Kept
    BY <1>2 DEF Remaining
  <2> QED
    BY <1>1, <2>1, <2>2, <2>3 DEF Record
<1>3. CASE rest # <<>>
  <2>1. rest = todo /\ todo # <<>> /\ todo \in Todo(call[t].op)
    BY <1>3 DEF Remaining
  <2>2. todo[1] = Head(todo) /\ todo \in Seq(Requested)
    BY <2>1, TodoFacts
  <2> DEFINE at == IF Head(todo) \in {"direct", "store"} THEN Head(todo)
                   ELSE IF logged THEN "send" ELSE "login"
  <2>3. First(todo, logged) = at
    BY <2>1, <2>2 DEF First
  <2>4. d = [call[t] EXCEPT !.todo = todo, !.logged = logged, !.result = result, !.at = at]
    BY <1>3, <2>1, <2>3 DEF Onward
  <2>5. at \in Busy
    BY DEF Busy, Exchanging
  <2> HIDE DEF at
  <2>6. d = [op |-> call[t].op, at |-> at, todo |-> todo, logged |-> logged,
              result |-> result, read |-> call[t].read, hurt |-> call[t].hurt]
    BY <1>1, <2>4 DEF Record
  <2>7. d \in Record
    BY <1>1, <2>2, <2>5, <2>6 DEF Record
  <2> QED
    BY <2>1, <2>6, <2>7 DEF at
<1> QED
  BY <1>2, <1>3

LEMMA SuccessOK ==
  ASSUME SessionInv, NEW t \in Thread, call[t].at \in Exchanging, NEW logged \in BOOLEAN,
         Head(call[t].todo) = "logout" => ~logged, Success(t, logged)
  PROVE  /\ broken' \in {broken, Never}
         /\ \E d \in Record : /\ call' = [call EXCEPT ![t] = d]
                              /\ Proceeds(t, d) /\ d.logged = logged
                              /\ d.result = "error" => call[t].result = "error"
<1> DEFINE c == call[t]
           r == Head(c.todo)
           rest == IF r = "auth" /\ c.op = "clients" /\ KnownBroken THEN <<"logout">>
                   ELSE IF r = "nodes" /\ KnownBroken THEN <<"direct", "store", "logout">>
                   ELSE Tail(c.todo)
           results == IF r = "clients" THEN {"ok", "empty"}
                      ELSE IF c.result # "none" \/ Len(rest) > 1 THEN {c.result}
                      ELSE IF r = "auth" THEN {"empty"} ELSE {"ok"}
           read == IF r = "nodes" THEN clock ELSE c.read
<1>1. PICK result \in results :
         call' = [call EXCEPT ![t] = [Onward(t, rest, logged, result) EXCEPT
                                        !.read = IF r = "nodes" THEN clock ELSE @]]
  BY DEF Success
<1>2. broken' \in {broken, Never}
  BY DEF Success
<1>3. /\ call \in [Thread -> Record] /\ CallOK(t) /\ c \in Record
      /\ clock \in 0..MaxClock /\ MaxClock \in Nat
  BY SessionAssumption DEF SessionInv, Ranges, ThreadOK, SessionAssumption
<1>4. c.op \in Operation /\ c.op \in OpOf(t) /\ c.todo \in Todo(c.op) /\ r \notin {"direct", "store"}
  <2>1. c.op \in OpOf(t) /\ c.todo \in Todo(c.op) /\ r \notin {"direct", "store"}
    BY <1>3 DEF CallOK, Busy, Exchanging
  <2>2. OpOf(t) \subseteq Operation
    BY SessionAssumption DEF OpOf, SessionAssumption, Operation, Thread
  <2> QED
    BY <2>1, <2>2
<1>5. result \in {"none", "ok", "empty", "error"} /\ (result = "error" => c.result = "error")
  BY <1>3 DEF Record
<1>6. /\ rest \in Todo(c.op) \cup {<<>>}
      /\ rest # <<>> => Head(rest) # "auth"
      /\ rest = <<>> => ~logged \/ c.op \in Kept
  <2>1. CASE r = "auth" /\ c.op = "clients" /\ KnownBroken
    BY <2>1, Logouts DEF Operation, Kept
  <2>2. CASE r = "nodes" /\ KnownBroken
    <3>1. c.op = "topology"
      BY <1>4, <2>2, TodoFacts
    <3> QED
      BY <2>2, <3>1, Logouts DEF Todo
  <2>3. CASE rest = Tail(c.todo)
    <3>1. CASE c.op \in Kept \/ r = "logout"
      <4>1. Tail(c.todo) = <<>>
        BY <1>4, <3>1, TodoFacts
      <4> QED
        BY <2>3, <3>1, <4>1
    <3>2. CASE c.op \notin Kept /\ r # "logout"
      <4>1. Tail(c.todo) \in Todo(c.op) /\ Head(Tail(c.todo)) # "auth"
        BY <1>4, <3>2, TodoFacts
      <4>2. Tail(c.todo) # <<>>
        BY <1>4, <4>1, TodoFacts
      <4> QED
        BY <2>3, <4>1, <4>2
    <3> QED
      BY <3>1, <3>2
  <2> QED
    BY <2>1, <2>2, <2>3
<1>7. c.op = "topology" =>
         /\ rest \in Early => c.todo \in Early /\ read = Never
         /\ rest \in Late => IF c.todo \in Late THEN read = c.read
                             ELSE c.todo \in Early /\ read = clock
  <2> SUFFICES ASSUME c.op = "topology"
               PROVE  /\ rest \in Early => c.todo \in Early /\ read = Never
                      /\ rest \in Late => IF c.todo \in Late THEN read = c.read
                                          ELSE c.todo \in Early /\ read = clock
    OBVIOUS
  <2>0. c.todo \in Early => c.read = Never
    BY <1>3 DEF CallOK, Busy
  <2>1. CASE c.todo \in Early /\ r = "auth"
    <3>1. rest \in Early
      BY <2>1, TopologyTails
    <3> QED
      BY <2>0, <2>1, <3>1, Heads
  <2>2. CASE c.todo \in Early /\ r = "nodes"
    <3>1. rest \in Late
      BY <2>2, TopologyTails, Logouts
    <3> QED
      BY <2>2, <3>1, Heads
  <2>3. CASE c.todo \in Late
    <3>1. r \in {"probe", "node"} /\ rest = Tail(c.todo) /\ rest \in Late
      BY <1>4, <2>3, TopologyTails, Heads
    <3> QED
      BY <2>3, <3>1, Heads
  <2>4. CASE c.todo = <<"logout">>
    <3>1. r = "logout" /\ rest = <<>>
      BY <2>4, Logouts
    <3> QED
      BY <3>1, Heads
  <2> QED
    BY <1>4, <2>1, <2>2, <2>3, <2>4, Heads DEF Todo
<1> DEFINE o == Onward(t, rest, logged, result)
           d == [o EXCEPT !.read = IF r = "nodes" THEN clock ELSE @]
<1> HIDE DEF rest, results
<1>8. /\ o \in Record /\ o.op = c.op /\ o.logged = logged /\ o.result = result
      /\ o.read = c.read
      /\ \/ o.at = "leave" /\ o.todo = <<>> /\ (~logged \/ o.op \in Kept)
         \/ /\ o.todo = rest /\ rest # <<>>
            /\ o.at = IF Head(rest) \in {"direct", "store"} THEN Head(rest)
                      ELSE IF logged THEN "send" ELSE "login"
  BY <1>3, <1>4, <1>5, <1>6, OnwardOK
<1> HIDE DEF o
<1>9. /\ d \in Record /\ d.op = o.op /\ d.logged = logged /\ d.result = result
      /\ d.todo = o.todo /\ d.at = o.at /\ d.read = read
  <2>1. read \in Never..MaxClock /\ d = [o EXCEPT !.read = read]
    BY <1>3, <1>8 DEF Record, Never
  <2> HIDE DEF read, d
  <2> QED
    BY <1>8, <2>1 DEF Record
<1>10. call' = [call EXCEPT ![t] = d]
  BY <1>1 DEF o
<1> HIDE DEF d
<1>11. Proceeds(t, d)
  <2>1. <<>> \notin Early /\ <<>> \notin Late
    BY Heads
  <2> QED
    BY <1>6, <1>7, <1>8, <1>9, <2>1 DEF Proceeds
<1> QED
  BY <1>2, <1>5, <1>9, <1>10, <1>11

(* A fetch at one of its later requests *)
LEMMA AtLate ==
  ASSUME NEW s \in Todo("topology"), Head(s) \in {"probe", "node", "direct", "store"}
  PROVE  s \in Late
<1>1. s \in Early \cup Late \cup {<<"logout">>}
  BY DEF Todo
<1>2. s \notin Early
  BY Heads
<1>3. s # <<"logout">>
  BY Logouts
<1> QED
  BY <1>1, <1>2, <1>3

LEMMA FailureOK ==
  ASSUME SessionInv, NEW t \in Thread, call[t].at \in Exchanging, NEW logged \in BOOLEAN,
         NEW why \in {"conflict", "network", "invalid"}, Failure(t, logged, why)
  PROVE  /\ broken' \in {broken, clock}
         /\ \E d \in Record : /\ call' = [call EXCEPT ![t] = d]
                              /\ Proceeds(t, d) /\ d.logged \in {logged, FALSE}
                              /\ Head(call[t].todo) # "logout" => d.logged = logged
                              /\ Head(call[t].todo) = "logout" => ~d.logged
                              /\ why # "conflict" => d.hurt
<1> DEFINE c == call[t]
           r == Head(c.todo)
           listless == r \in {"clients", "list"} /\ why # "invalid"
           o == CASE r = "probe"  -> Onward(t, <<"direct", "store", "logout">>, logged, c.result)
                  [] r = "node"   -> Onward(t, Tail(c.todo), logged, c.result)
                  [] r = "logout" -> Onward(t, <<>>, FALSE, c.result)
                  [] listless     -> Onward(t, Tail(c.todo), logged, "empty")
                  [] c.op \in Kept /\ ~listless -> Onward(t, <<>>, logged, "error")
                  [] OTHER        -> Onward(t, <<"logout">>, logged, "error")
           d == [o EXCEPT !.hurt = c.hurt \/ why # "conflict"]
<1>1. call' = [call EXCEPT ![t] = d] /\ broken' \in {broken, clock}
  BY DEF Failure
<1>3. call \in [Thread -> Record] /\ CallOK(t) /\ c \in Record
  BY DEF SessionInv, Ranges, ThreadOK
<1>4. c.op \in Operation /\ c.op \in OpOf(t) /\ c.todo \in Todo(c.op) /\ r \notin {"direct", "store"}
  <2>1. c.op \in OpOf(t) /\ c.todo \in Todo(c.op) /\ r \notin {"direct", "store"}
    BY <1>3 DEF CallOK, Busy, Exchanging
  <2>2. OpOf(t) \subseteq Operation
    BY SessionAssumption DEF OpOf, SessionAssumption, Operation, Thread
  <2> QED
    BY <2>1, <2>2
<1>5. c.result \in {"none", "ok", "empty", "error"}
  BY <1>3 DEF Record
<1>6. \E todo \in Todo(c.op) \cup {<<>>}, l \in {logged, FALSE},
         result \in {"none", "ok", "empty", "error"} :
         /\ o = Onward(t, todo, l, result)
         /\ todo # <<>> => Head(todo) # "auth"
         /\ todo = <<>> => ~l \/ c.op \in Kept
         /\ IF r = "logout" THEN l = FALSE ELSE l = logged
         /\ c.op = "topology" => todo \notin Early /\ (todo \in Late => c.todo \in Late)
  <2>0. <<>> \notin Early /\ <<>> \notin Late
    BY Heads
  <2>1. CASE r = "probe"
    <3>0. c.op = "topology"
      BY <1>4, <2>1, TodoFacts
    <3>1. c.op = "topology" /\ c.todo \in Late
      BY <1>4, <2>1, <3>0, AtLate
    <3>2. <<"direct", "store", "logout">> \in Todo(c.op) /\ <<"direct", "store", "logout">> \notin Early
      BY <3>1, Heads, Logouts DEF Todo
    <3>3. o = Onward(t, <<"direct", "store", "logout">>, logged, c.result)
      BY <2>1, <3>1 DEF Kept
    <3> QED
      BY <1>5, <2>1, <3>1, <3>2, <3>3, Logouts
  <2>2. CASE r = "node"
    <3>0. c.op = "topology"
      BY <1>4, <2>2, TodoFacts
    <3>1. c.op = "topology" /\ c.todo \in Late
      BY <1>4, <2>2, <3>0, AtLate
    <3>2. Tail(c.todo) \in Todo(c.op) /\ Tail(c.todo) \in Late /\ Head(Tail(c.todo)) # "auth"
      BY <1>4, <2>2, <3>1, TodoFacts, TopologyTails
    <3>3. Tail(c.todo) \notin Early
      BY <3>2, Heads
    <3>4. o = Onward(t, Tail(c.todo), logged, c.result) /\ Tail(c.todo) # <<>>
      BY <1>4, <2>2, <3>2, TodoFacts, Zenon
    <3> QED
      BY <1>5, <2>2, <3>1, <3>2, <3>3, <3>4
  <2>3. CASE r = "logout"
    <3>1. c.op \notin Kept
      BY <1>4, <2>3, TodoFacts
    <3>2. o = Onward(t, <<>>, FALSE, c.result)
      BY <2>3, <3>1
    <3> QED
      BY <1>5, <2>0, <2>3, <3>2
  <2>4. CASE c.op \in Kept /\ r \notin {"probe", "node", "logout"}
    <3>1. r \in {"report", "list"} /\ Tail(c.todo) = <<>>
      BY <1>4, <2>4, TodoFacts
    <3>2. \/ o = Onward(t, Tail(c.todo), logged, "empty")
          \/ o = Onward(t, <<>>, logged, "error")
      BY <2>4
    <3>3. PICK result \in {"empty", "error"} : o = Onward(t, <<>>, logged, result)
      BY <3>1, <3>2
    <3> QED
      BY <2>0, <2>4, <3>3
  <2>5. CASE c.op \notin Kept /\ r \notin {"probe", "node", "logout"}
    <3>1. <<"logout">> \in Todo(c.op)
      BY <1>4, <2>5, Logouts
    <3>2. r # "list" /\ (r = "clients" => Tail(c.todo) = <<"logout">>)
      BY <1>4, <2>5, TodoFacts, ZenonT(30) DEF Kept
    <3>3. PICK result \in {"empty", "error"} : o = Onward(t, <<"logout">>, logged, result)
      BY <2>5, <3>2
    <3> QED
      BY <2>5, <3>1, <3>3, Logouts
  <2> QED
    BY <2>1, <2>2, <2>3, <2>4, <2>5
<1> HIDE DEF o
<1>7. PICK todo \in Todo(c.op) \cup {<<>>}, l \in {logged, FALSE},
           result \in {"none", "ok", "empty", "error"} :
         /\ o = Onward(t, todo, l, result)
         /\ todo # <<>> => Head(todo) # "auth"
         /\ todo = <<>> => ~l \/ c.op \in Kept
         /\ IF r = "logout" THEN l = FALSE ELSE l = logged
         /\ c.op = "topology" => todo \notin Early /\ (todo \in Late => c.todo \in Late)
  BY <1>6
<1>8. /\ o \in Record /\ o.op = c.op /\ o.logged = l /\ o.read = c.read
      /\ \/ o.at = "leave" /\ o.todo = <<>> /\ (~l \/ o.op \in Kept)
         \/ /\ o.todo = todo /\ todo # <<>>
            /\ o.at = IF Head(todo) \in {"direct", "store"} THEN Head(todo)
                      ELSE IF l THEN "send" ELSE "login"
  <2>1. l \in BOOLEAN
    OBVIOUS
  <2> QED
    BY <1>3, <1>4, <1>7, <2>1, OnwardOK
<1>9. /\ d \in Record /\ d.op = o.op /\ d.logged = l /\ d.todo = o.todo /\ d.at = o.at
      /\ d.read = c.read /\ (why # "conflict" => d.hurt)
  BY <1>3, <1>8 DEF Record
<1> HIDE DEF d
<1>10. Proceeds(t, d)
  <2>1. <<>> \notin Early /\ <<>> \notin Late
    BY Heads
  <2> QED
    BY <1>7, <1>8, <1>9, <2>1 DEF Proceeds
<1> QED
  BY <1>1, <1>7, <1>9, <1>10

(* A failure that is no conflict is remembered with the call. *)
LEMMA FailureHurts ==
  ASSUME SessionInv, NEW t \in Thread, call[t].at \in Exchanging, NEW logged \in BOOLEAN,
         NEW why \in {"invalid", "network"}, Failure(t, logged, why)
  PROVE  \E d \in Record : call' = [call EXCEPT ![t] = d] /\ d.hurt
<1>1. why \in {"conflict", "network", "invalid"} /\ why # "conflict"
  OBVIOUS
<1>2. \E d \in Record : /\ call' = [call EXCEPT ![t] = d]
                        /\ Proceeds(t, d) /\ d.logged \in {logged, FALSE}
                        /\ Head(call[t].todo) # "logout" => d.logged = logged
                        /\ Head(call[t].todo) = "logout" => ~d.logged
                        /\ why # "conflict" => d.hurt
  BY <1>1, FailureOK, Zenon
<1> QED
  BY <1>1, <1>2, Zenon

-----------------------------------------------------------------------------
(* What a step of one thread does to the others.  Robs(u): the session goes
   from u to somebody else, or has not been u's.                            *)
Robs(u) ==
    /\ session' # u
    /\ robbed'[u] = IF session = u /\ call[u].logged /\ robbed[u] < 2 THEN robbed[u] + 1
                    ELSE robbed[u]

LEMMA Gives ==
  ASSUME SessionInv, NEW s \in Thread \cup {NoOne}, GiveSession(s)
  PROVE  /\ session' = s /\ robbed' \in [Thread -> 0..2]
         /\ s \in Thread => robbed'[s] = robbed[s]
         /\ \A u \in Thread \ {s} : Robs(u)
<1>1. robbed \in [Thread -> 0..2] /\ session' = s
  BY DEF SessionInv, Ranges, GiveSession
<1>2. CASE session \in Thread \ {s} /\ call[session].logged /\ robbed[session] < 2
  <2>1. robbed' = [robbed EXCEPT ![session] = robbed[session] + 1]
    BY <1>2 DEF GiveSession
  <2>2. robbed[session] + 1 \in 0..2
    BY <1>1, <1>2
  <2> QED
    BY <1>1, <1>2, <2>1, <2>2 DEF Robs
<1>3. CASE ~(session \in Thread \ {s} /\ call[session].logged /\ robbed[session] < 2)
  <2>1. robbed' = robbed
    BY <1>3 DEF GiveSession
  <2> QED
    BY <1>1, <1>3, <2>1 DEF Robs
<1> QED
  BY <1>2, <1>3

LEMMA Untouched ==
  ASSUME SessionInv, NEW u \in Thread, call'[u] = call[u],
         (session' = session /\ robbed'[u] = robbed[u]) \/ Robs(u),
         holder' = holder \/ holder # u,
         faults' = 0 => faults = 0,
         Fresh' => Fresh \/ holder # u
  PROVE  ThreadOK(u)'
<1>1. ThreadOK(u) /\ robbed[u] \in 0..2
  BY DEF SessionInv, Ranges
<1>2. CallOK(u)'
  BY <1>1 DEF ThreadOK, CallOK
<1>3. LockOK(u)'
  BY <1>1 DEF ThreadOK, LockOK
<1>4. RobOK(u)'
  <2>1. RobOK(u) /\ (call[u].at = "resend" => call[u].logged)
    BY <1>1 DEF ThreadOK, CallOK
  <2>2. CASE session' = session /\ robbed'[u] = robbed[u]
    BY <2>1, <2>2 DEF RobOK
  <2>3. CASE Robs(u)
    BY <1>1, <2>1, <2>3 DEF RobOK, Robs
  <2> QED
    BY <2>2, <2>3
<1>5. ClosedOK(u)'
  BY <1>1 DEF ThreadOK, ClosedOK, Robs
<1>6. FreshOK(u)'
  BY <1>1 DEF ThreadOK, FreshOK, LockOK, Locked
<1> QED
  BY <1>2, <1>3, <1>4, <1>5, <1>6 DEF ThreadOK

LEMMA OneThread ==
  ASSUME SessionInv, NEW t \in Thread, NEW d \in Record, call' = [call EXCEPT ![t] = d],
         Ranges', ThreadOK(t)',
         \A u \in Thread \ {t} :
            /\ (session' = session /\ robbed'[u] = robbed[u]) \/ Robs(u)
            /\ holder' = holder \/ holder # u
            /\ faults' = 0 => faults = 0
            /\ Fresh' => Fresh \/ holder # u
  PROVE  SessionInv'
<1>1. call \in [Thread -> Record] /\ call' \in [Thread -> Record]
  BY DEF SessionInv
<1>2. \A u \in Thread \ {t} : call'[u] = call[u]
  BY <1>1
<1>3. \A u \in Thread \ {t} : ThreadOK(u)'
  BY <1>2, Untouched
<1>4. \A u \in Thread : ThreadOK(u)'
  BY <1>3
<1> QED
  BY <1>1, <1>4 DEF SessionInv

(* What it does to itself, when it goes on *)
LEMMA Proceeding ==
  ASSUME SessionInv, NEW t \in Thread, call[t].at \in Busy,
         NEW d \in Record, call' = [call EXCEPT ![t] = d], Proceeds(t, d),
         holder' = holder, Fresh' => Fresh \/ d.todo \notin Early,
         d.logged => session' = t \/ robbed'[t] >= 1,
         faults' = 0 /\ session' = t => d.logged
  PROVE  ThreadOK(t)'
<1>1. /\ call \in [Thread -> Record] /\ ThreadOK(t) /\ clock \in Nat
  BY SessionAssumption DEF SessionInv, Ranges, SessionAssumption
<1>2. call'[t] = d
  BY <1>1
<1>3. call[t].op \in OpOf(t) /\ call[t].op # "none" /\ (t # Keeper => call[t].op \notin Kept)
  <2>1. call[t].op \in OpOf(t)
    BY <1>1 DEF ThreadOK, CallOK, Busy, Exchanging
  <2> QED
    BY <2>1, SessionAssumption DEF OpOf, SessionAssumption, Thread, Kept
<1>4. CallOK(t)'
  <2>1. d.op \in OpOf(t) /\ d.at \in {"leave", "direct", "store", "send", "login"}
    BY <1>3 DEF Proceeds
  <2>2. d.op = "topology" => /\ d.todo \in Early => d.read = Never
                             /\ d.todo \in Late => d.read # Never
    BY <1>1 DEF Proceeds, ThreadOK, CallOK, Never
  <2>3. CASE d.at = "leave"
    BY <1>2, <1>3, <2>1, <2>3 DEF Proceeds, CallOK, Busy, Exchanging
  <2>4. CASE d.at # "leave"
    <3>1. /\ d.todo \in Todo(d.op) /\ Head(d.todo) # "auth"
          /\ d.at = IF Head(d.todo) \in {"direct", "store"} THEN Head(d.todo)
                    ELSE IF d.logged THEN "send" ELSE "login"
      BY <2>4 DEF Proceeds
    <3> QED
      BY <1>2, <2>1, <2>2, <3>1 DEF CallOK, Busy, Exchanging
  <2> QED
    BY <2>3, <2>4
<1>5. LockOK(t)'
  BY <1>1, <1>2 DEF Proceeds, ThreadOK, LockOK
<1>6. RobOK(t)'
  BY <1>2 DEF Proceeds, RobOK
<1>7. ClosedOK(t)'
  BY <1>2 DEF ClosedOK
<1>8. FreshOK(t)'
  BY <1>1, <1>2 DEF Proceeds, FreshOK, ThreadOK
<1> QED
  BY <1>4, <1>5, <1>6, <1>7, <1>8 DEF ThreadOK

-----------------------------------------------------------------------------
(* The steps *)
LEMMA SessionInit == Init => SessionInv
<1> SUFFICES ASSUME Init PROVE SessionInv
  OBVIOUS
<1> USE SessionAssumption DEF Init, SessionAssumption
<1>1. Idle \in Record
  BY TodoSeq DEF Idle, Record, Never
<1>2. call \in [Thread -> Record]
  BY <1>1
<1>3. Ranges
  BY DEF Ranges, Never
<1>4. ASSUME NEW t \in Thread PROVE ThreadOK(t)
  <2>1. call[t] = Idle /\ session # t /\ ~call[t].logged
    BY DEF Thread, Idle
  <2> QED
    BY <2>1 DEF ThreadOK, CallOK, LockOK, RobOK, ClosedOK, FreshOK, Idle, Busy, Exchanging
<1> QED
  BY <1>2, <1>3, <1>4 DEF SessionInv

(* What the steps below use of the invariant, and of the bounds *)
LEMMA Here ==
  ASSUME SessionInv, NEW t \in Thread
  PROVE  /\ Ranges /\ call \in [Thread -> Record] /\ call[t] \in Record
         /\ CallOK(t) /\ LockOK(t) /\ RobOK(t) /\ ClosedOK(t) /\ FreshOK(t)
         /\ OpOf(t) \subseteq Operation /\ "none" \notin OpOf(t)
         /\ t # Keeper => t \in Caller /\ OpOf(t) \cap Kept = {}
         /\ t = Keeper => OpOf(t) \subseteq Kept
         /\ t # NoOne
  BY SessionAssumption
  DEF SessionInv, ThreadOK, SessionAssumption, Thread, OpOf, Operation, Kept

LEMMA BeginKeeps == ASSUME SessionInv, NEW t \in Thread, Begin(t) PROVE SessionInv'
<1>1. /\ Ranges /\ call[t] \in Record /\ CallOK(t) /\ RobOK(t) /\ ClosedOK(t)
      /\ OpOf(t) \subseteq Operation /\ "none" \notin OpOf(t)
      /\ t # Keeper => t \in Caller /\ OpOf(t) \cap Kept = {}
      /\ t = Keeper => OpOf(t) \subseteq Kept
  BY Here
<1> DEFINE start(op) == [Idle EXCEPT !.op = op, !.todo = Requests(op), !.logged = call[t].logged,
                           !.at = CASE op = "topology"              -> "check"
                                    [] op \in Locked \ {"topology"} -> "lock"
                                    [] OTHER -> First(Requests(op), call[t].logged)]
<1>2. PICK op \in Ops[t] : /\ call' = [call EXCEPT ![t] = start(op)]
                           /\ broken' \in {broken, Never}
  BY DEF Begin
<1>3. /\ call[t].at = "idle" /\ begun' = begun + 1 /\ begun < MaxCalls
      /\ UNCHANGED <<session, holder, robbed, cache, clock, faults>>
  BY DEF Begin
<1>4. op \in Operation /\ op \in OpOf(t)
  BY <1>1 DEF OpOf
<1>5. Requests(op) \in Seq(Requested) /\ Requests(op) \in Todo(op)
  BY <1>4, Beginnings, TodoSeq
<1> DEFINE at == IF op = "topology" THEN "check" ELSE IF op \in Locked THEN "lock"
                 ELSE IF op = "write" \/ ~call[t].logged THEN "login" ELSE "send"
           d == [Idle EXCEPT !.op = op, !.todo = Requests(op), !.logged = call[t].logged,
                             !.at = at]
<1>6. start(op) = d
  <2>1. op \notin Locked => op \in Kept \cup {"write"}
    BY <1>4 DEF Operation, Locked, Kept
  <2>2. First(Requests("write"), call[t].logged) = "login"
    BY Beginnings DEF First
  <2>3. \A k \in Kept : First(Requests(k), call[t].logged) = IF call[t].logged THEN "send" ELSE "login"
    BY Beginnings, KeptTails DEF First, Kept
  <2> DEFINE at0 == CASE op = "topology"              -> "check"
                      [] op \in Locked \ {"topology"} -> "lock"
                      [] OTHER -> First(Requests(op), call[t].logged)
  <2>4. at0 = at
    <3>1. CASE op = "topology"
      BY <3>1
    <3>2. CASE op = "write"
      BY <2>2, <3>2 DEF Locked
    <3>3. CASE op \in Kept
      BY <2>3, <3>3 DEF Locked, Kept
    <3>4. CASE op = "clients" \/ op = "optimize"
      BY <3>4 DEF Locked
    <3> QED
      BY <1>4, <3>1, <3>2, <3>3, <3>4 DEF Operation, Kept
  <2> HIDE DEF at0, at
  <2> QED
    BY <2>4 DEF at0
<1>7. /\ d \in Record /\ d.op = op /\ d.at = at /\ d.todo = Requests(op) /\ d.read = Never
      /\ d.logged = call[t].logged
  <2>1. at \in Busy \cup {"idle", "check", "lock", "leave"} /\ Never \in Never..MaxClock
    BY SessionAssumption DEF Busy, Exchanging, Never, SessionAssumption
  <2>2. call[t].logged \in BOOLEAN
    BY <1>1 DEF Record
  <2> HIDE DEF at
  <2> QED
    BY <1>4, <1>5, <2>1, <2>2, TodoSeq DEF Record, Idle
<1>8. call' = [call EXCEPT ![t] = d] /\ call'[t] = d
  BY <1>2, <1>6 DEF SessionInv
<1> HIDE DEF start, d
<1>9. Ranges'
  BY <1>1, <1>2, <1>3, SessionAssumption DEF Ranges, SessionAssumption, Never
<1>10. at = "send" => call[t].logged /\ op \in Kept
  BY <1>4 DEF Operation, Locked, Kept
<1>11. at \in {"login", "send"} => op \in Kept \cup {"write"}
  BY <1>4 DEF Operation, Locked, Kept
<1>12. CallOK(t)'
  <2>1. /\ d.op \in OpOf(t) /\ d.op # "none" /\ d.at \in {"check", "lock", "login", "send"}
        /\ d.at = "check" => d.op = "topology"
        /\ d.at \in {"check", "lock"} => d.op \in Locked
        /\ d.todo = Requests(d.op) /\ d.read = Never /\ d.logged = call[t].logged
        /\ d.todo \in Todo(d.op)
    BY <1>1, <1>4, <1>5, <1>7, <1>11 DEF Locked
  <2>2. t # Keeper => ~call[t].logged
    BY <1>1, <1>3 DEF CallOK
  <2>3. d.at \in Exchanging => Head(d.todo) \in {"auth", "report", "list"}
    <3>1. CASE op \in Kept
      BY <1>7, <3>1, Beginnings, KeptTails DEF Kept
    <3>2. CASE op = "write"
      BY <1>7, <3>2, Beginnings
    <3> QED
      BY <1>7, <1>11, <3>1, <3>2 DEF Exchanging
  <2>4. d.at \in {"relogin", "send", "resend"} => Head(d.todo) # "auth" /\ d.logged
    <3>1. op \in Kept => Head(d.todo) # "auth"
      BY <1>7, Beginnings, KeptTails DEF Kept
    <3> QED
      BY <1>7, <1>10, <3>1
  <2>5. d.op = "topology" => d.at \notin Busy
    BY <1>7 DEF Busy, Exchanging
  <2> QED
    BY <1>8, <2>1, <2>2, <2>3, <2>4, <2>5 DEF CallOK, Busy, Exchanging
<1>13. LockOK(t)' /\ FreshOK(t)'
  BY <1>7, <1>8, <1>11 DEF LockOK, FreshOK, Busy, Exchanging, Locked
<1>14. RobOK(t)' /\ ClosedOK(t)'
  BY <1>1, <1>3, <1>7, <1>8, <1>11 DEF RobOK, ClosedOK
<1>15. Fresh' = Fresh
  BY <1>3 DEF Fresh
<1> QED
  BY <1>3, <1>7, <1>8, <1>9, <1>12, <1>13, <1>14, <1>15, OneThread DEF ThreadOK

(* A field or two of the call change. *)
LEMMA Sets ==
  ASSUME NEW c \in Record, NEW at \in Busy \cup {"idle", "check", "lock", "leave"},
         NEW l \in BOOLEAN
  PROVE  /\ [c EXCEPT !.at = at, !.logged = l] \in Record
         /\ [c EXCEPT !.logged = l, !.at = at] \in Record
         /\ [c EXCEPT !.at = at] \in Record
  BY DEF Record

LEMMA CheckKeeps == ASSUME SessionInv, NEW t \in Thread, Check(t) PROVE SessionInv'
<1>1. /\ Ranges /\ call \in [Thread -> Record] /\ call[t] \in Record /\ CallOK(t)
      /\ LockOK(t) /\ RobOK(t) /\ ClosedOK(t)
  BY Here
<1>2. /\ call[t].at = "check"
      /\ UNCHANGED <<session, holder, robbed, cache, broken, clock, begun, faults>>
  BY DEF Check
<1>3. PICK at \in {"leave", "lock"} : call' = [call EXCEPT ![t] = [call[t] EXCEPT !.at = at]]
  BY <1>1 DEF Check
<1> DEFINE d == [call[t] EXCEPT !.at = at]
<1>4. d \in Record /\ call'[t] = d
  BY <1>1, <1>3, Sets
<1>5. /\ d.op = call[t].op /\ d.at = at /\ d.todo = call[t].todo /\ d.logged = call[t].logged
      /\ d.read = call[t].read
  BY <1>1 DEF Record
<1> HIDE DEF d
<1>6. Ranges' /\ Fresh' = Fresh
  BY <1>1, <1>2 DEF Ranges, Fresh
<1>7. CallOK(t)'
  BY <1>1, <1>2, <1>4, <1>5 DEF CallOK, Busy, Exchanging, Locked
<1>8. LockOK(t)' /\ FreshOK(t)'
  BY <1>4, <1>5 DEF LockOK, FreshOK, Busy, Exchanging
<1>9. RobOK(t)' /\ ClosedOK(t)'
  BY <1>1, <1>2, <1>4, <1>5 DEF RobOK, ClosedOK
<1> QED
  BY <1>2, <1>3, <1>4, <1>6, <1>7, <1>8, <1>9, OneThread DEF ThreadOK, d

LEMMA AcquireKeeps == ASSUME SessionInv, NEW t \in Thread, Acquire(t) PROVE SessionInv'
<1>1. /\ Ranges /\ call \in [Thread -> Record] /\ call[t] \in Record /\ CallOK(t)
      /\ LockOK(t) /\ RobOK(t) /\ ClosedOK(t) /\ t # NoOne
      /\ t # Keeper => t \in Caller /\ OpOf(t) \cap Kept = {}
      /\ t = Keeper => OpOf(t) \subseteq Kept /\ OpOf(t) \subseteq Operation
  BY Here
<1>2. /\ call[t].at = "lock" /\ holder = NoOne /\ holder' = t
      /\ UNCHANGED <<session, robbed, cache, broken, clock, begun, faults>>
  BY DEF Acquire
<1>3. PICK at \in {"leave", "login"} :
         /\ call' = [call EXCEPT ![t] = [call[t] EXCEPT !.at = at]]
         /\ call[t].op = "topology" /\ Fresh => at = "leave"
  BY <1>1 DEF Acquire
<1> DEFINE d == [call[t] EXCEPT !.at = at]
<1>4. d \in Record /\ call'[t] = d
  BY <1>1, <1>3, Sets DEF Busy, Exchanging
<1>5. /\ d.op = call[t].op /\ d.at = at /\ d.todo = call[t].todo /\ d.logged = call[t].logged
      /\ d.read = call[t].read
  BY <1>1 DEF Record
<1> HIDE DEF d
<1>6. /\ d.op \in OpOf(t) /\ d.op \in Locked /\ d.todo = Requests(d.op) /\ d.read = Never
      /\ t # Keeper => ~d.logged
  BY <1>1, <1>2, <1>5 DEF CallOK
<1>7. Ranges' /\ Fresh' = Fresh
  <2>1. t \in Caller
    BY <1>1, <1>6 DEF Locked, Kept
  <2> QED
    BY <1>1, <1>2, <2>1 DEF Ranges, Fresh
<1>8. CallOK(t)'
  <2>1. d.todo \in Todo(d.op) /\ Head(d.todo) = "auth" /\ d.op # "none" /\ d.op \in Operation
    BY <1>6, Beginnings DEF Locked, Operation
  <2>2. d.op = "topology" => d.todo \notin Late
    BY <1>6, Beginnings, Heads
  <2> QED
    BY <1>3, <1>4, <1>5, <1>6, <2>1, <2>2 DEF CallOK, Busy, Exchanging
<1>9. LockOK(t)' /\ FreshOK(t)'
  BY <1>2, <1>3, <1>4, <1>5, <1>7 DEF LockOK, FreshOK, Busy, Exchanging
<1>10. RobOK(t)' /\ ClosedOK(t)'
  BY <1>1, <1>2, <1>3, <1>4, <1>5 DEF RobOK, ClosedOK
<1>11. \A u \in Thread : holder # u
  BY <1>2, SessionAssumption DEF SessionAssumption, Thread
<1> QED
  BY <1>2, <1>3, <1>4, <1>7, <1>8, <1>9, <1>10, <1>11, OneThread DEF ThreadOK, d

(* A request answered or failed: what goes for all of them *)
LEMMA Exchange ==
  ASSUME SessionInv, NEW t \in Thread, call[t].at \in Busy,
         NEW d \in Record, call' = [call EXCEPT ![t] = d], Proceeds(t, d),
         UNCHANGED <<holder, cache, clock, begun>>, broken' \in {broken, clock, Never},
         session' \in Thread \cup {NoOne}, robbed' \in [Thread -> 0..2],
         faults' \in 0..MaxFaults, faults' = 0 => faults = 0,
         \A u \in Thread \ {t} : (session' = session /\ robbed'[u] = robbed[u]) \/ Robs(u),
         d.logged => session' = t \/ robbed'[t] >= 1,
         faults' = 0 /\ session' = t => d.logged
  PROVE  SessionInv'
<1>1. Ranges
  BY Here
<1>2. Fresh' = Fresh
  BY DEF Fresh
<1>3. Ranges'
  <2>1. broken' \in Never..MaxClock
    BY <1>1, SessionAssumption DEF Ranges, Never, SessionAssumption
  <2> QED
    BY <1>1, <2>1 DEF Ranges
<1>4. ThreadOK(t)'
  BY <1>2, Proceeding
<1> QED
  BY <1>2, <1>3, <1>4, OneThread

LEMMA LoginKeeps == ASSUME SessionInv, NEW t \in Thread, Login(t) PROVE SessionInv'
<1>1. /\ Ranges /\ call \in [Thread -> Record] /\ call[t] \in Record /\ CallOK(t)
      /\ LockOK(t) /\ RobOK(t) /\ FreshOK(t)
  BY Here
<1>2. /\ call[t].at \in {"login", "relogin"} /\ GiveSession(t)
      /\ UNCHANGED <<holder, cache, clock, begun, faults>>
  BY DEF Login
<1>3. /\ session' = t /\ robbed' \in [Thread -> 0..2] /\ robbed'[t] = robbed[t]
      /\ \A u \in Thread \ {t} : Robs(u)
  BY <1>2, Gives
<1>4. call[t].at \in Exchanging /\ call[t].at \in Busy
  BY <1>2 DEF Exchanging, Busy
<1>5. CASE Head(call[t].todo) = "auth"
  <2>1. Success(t, TRUE)
    BY <1>5 DEF Login
  <2>2. /\ broken' \in {broken, Never}
        /\ \E d \in Record : call' = [call EXCEPT ![t] = d] /\ Proceeds(t, d) /\ d.logged = TRUE
    BY <1>4, <1>5, <2>1, SuccessOK
  <2>3. PICK d \in Record : call' = [call EXCEPT ![t] = d] /\ Proceeds(t, d) /\ d.logged = TRUE
    BY <2>2
  <2>4. faults' \in 0..MaxFaults
    BY <1>1, <1>2 DEF Ranges
  <2> QED
    BY <1>2, <1>3, <1>4, <2>2, <2>3, <2>4, Exchange
<1>6. CASE Head(call[t].todo) # "auth"
  <2>1. PICK at \in {"send", "resend"} :
           /\ call' = [call EXCEPT ![t] = [call[t] EXCEPT !.logged = TRUE, !.at = at]]
           /\ at = "resend" => call[t].at = "relogin"
           /\ UNCHANGED broken
    BY <1>1, <1>2, <1>6 DEF Login
  <2> DEFINE d == [call[t] EXCEPT !.logged = TRUE, !.at = at]
  <2>2. d \in Record /\ call'[t] = d
    BY <1>1, <2>1, Sets DEF Busy, Exchanging
  <2>3. /\ d.op = call[t].op /\ d.at = at /\ d.todo = call[t].todo /\ d.logged = TRUE
        /\ d.read = call[t].read
    BY <1>1 DEF Record
  <2> HIDE DEF d
  <2>4. Ranges' /\ Fresh' = Fresh
    BY <1>1, <1>2, <1>3, <2>1 DEF Ranges, Fresh
  <2>5. CallOK(t)'
    BY <1>1, <1>2, <1>4, <1>6, <2>2, <2>3 DEF CallOK, Busy, Exchanging
  <2>6. LockOK(t)' /\ FreshOK(t)'
    BY <1>1, <1>2, <1>4, <2>2, <2>3, <2>4 DEF LockOK, FreshOK
  <2>7. RobOK(t)' /\ ClosedOK(t)'
    BY <1>1, <1>3, <2>1, <2>2, <2>3 DEF RobOK, ClosedOK
  <2> QED
    BY <1>2, <1>3, <2>1, <2>2, <2>4, <2>5, <2>6, <2>7, OneThread DEF ThreadOK, d
<1> QED
  BY <1>5, <1>6

LEMMA LoginFailsKeeps == ASSUME SessionInv, NEW t \in Thread, LoginFails(t) PROVE SessionInv'
<1>1. /\ Ranges /\ call[t].at \in Exchanging /\ call[t].at \in Busy
  BY Here DEF LoginFails, Exchanging, Busy
<1>2. /\ faults' = faults + 1 /\ faults' \in 0..MaxFaults /\ ~(faults' = 0)
      /\ UNCHANGED <<holder, cache, clock, begun>>
  BY <1>1, SessionAssumption DEF LoginFails, Ranges, SessionAssumption
<1>3. PICK why \in {"invalid", "network"} : Failure(t, FALSE, why)
  BY DEF LoginFails
<1>4. PICK d \in Record : call' = [call EXCEPT ![t] = d] /\ Proceeds(t, d) /\ ~d.logged
  BY <1>1, <1>3, FailureOK
<1>5. broken' \in {broken, clock}
  BY <1>1, <1>3, FailureOK
<1>6. CASE GiveSession(t)
  <2>1. /\ session' = t /\ robbed' \in [Thread -> 0..2] /\ \A u \in Thread \ {t} : Robs(u)
    BY <1>6, Gives
  <2> QED
    BY <1>1, <1>2, <1>4, <1>5, <2>1, Exchange
<1>7. CASE UNCHANGED <<session, robbed>>
  <2>1. session' \in Thread \cup {NoOne} /\ robbed' \in [Thread -> 0..2]
    BY <1>1, <1>7 DEF Ranges
  <2> QED
    BY <1>1, <1>2, <1>4, <1>5, <1>7, <2>1, Exchange
<1> QED
  BY <1>6, <1>7 DEF LoginFails

LEMMA AnswerKeeps == ASSUME SessionInv, NEW t \in Thread, Answer(t) PROVE SessionInv'
<1>1. /\ Ranges /\ call[t].at \in Exchanging /\ call[t].at \in Busy /\ session = t
      /\ \A u \in Thread : u # NoOne
  BY Here DEF Answer, Exchanging, Busy
<1>2. UNCHANGED <<holder, robbed, cache, clock, begun, faults>>
  BY DEF Answer
<1>3. robbed' \in [Thread -> 0..2] /\ faults' \in 0..MaxFaults
  BY <1>1, <1>2 DEF Ranges
<1>4. CASE Head(call[t].todo) = "logout"
  <2>1. session' = NoOne /\ Success(t, FALSE)
    BY <1>4 DEF Answer
  <2>2. PICK d \in Record : call' = [call EXCEPT ![t] = d] /\ Proceeds(t, d) /\ ~d.logged
    BY <1>1, <2>1, SuccessOK
  <2>3. broken' \in {broken, Never}
    BY <1>1, <2>1, SuccessOK
  <2>4. \A u \in Thread \ {t} : Robs(u)
    BY <1>1, <1>2, <2>1 DEF Robs
  <2> QED
    BY <1>1, <1>2, <1>3, <2>1, <2>2, <2>3, <2>4, Exchange
<1>5. CASE Head(call[t].todo) # "logout"
  <2>1. session' = session /\ Success(t, TRUE)
    BY <1>5 DEF Answer
  <2>2. PICK d \in Record : call' = [call EXCEPT ![t] = d] /\ Proceeds(t, d) /\ d.logged
    BY <1>1, <1>5, <2>1, SuccessOK
  <2>3. broken' \in {broken, Never}
    BY <1>1, <1>5, <2>1, SuccessOK
  <2> QED
    BY <1>1, <1>2, <1>3, <2>1, <2>2, <2>3, Exchange
<1> QED
  BY <1>4, <1>5

LEMMA ConflictKeeps == ASSUME SessionInv, NEW t \in Thread, Conflict(t) PROVE SessionInv'
<1>1. /\ Ranges /\ call \in [Thread -> Record] /\ call[t] \in Record /\ CallOK(t)
      /\ LockOK(t) /\ RobOK(t) /\ FreshOK(t)
  BY Here
<1>2. /\ call[t].at \in {"send", "resend"} /\ session # t
      /\ UNCHANGED <<session, holder, robbed, cache, clock, begun, faults>>
  BY DEF Conflict
<1>3. call[t].at \in Exchanging /\ call[t].at \in Busy
  BY <1>2 DEF Exchanging, Busy
<1>4. robbed[t] >= 1
  BY <1>1, <1>2 DEF RobOK, CallOK
<1>5. CASE call[t].at = "resend"
  <2>1. Failure(t, TRUE, "conflict")
    BY <1>5 DEF Conflict
  <2>2. PICK d \in Record : call' = [call EXCEPT ![t] = d] /\ Proceeds(t, d)
    BY <1>3, <2>1, FailureOK
  <2>3. broken' \in {broken, clock}
    BY <1>3, <2>1, FailureOK
  <2>4. /\ session' \in Thread \cup {NoOne} /\ robbed' \in [Thread -> 0..2]
        /\ faults' \in 0..MaxFaults
    BY <1>1, <1>2 DEF Ranges
  <2> QED
    BY <1>2, <1>3, <1>4, <2>2, <2>3, <2>4, Exchange
<1>6. CASE call[t].at = "send"
  <2> DEFINE d == [call[t] EXCEPT !.at = "relogin", !.logged = FALSE]
  <2>1. call' = [call EXCEPT ![t] = d] /\ UNCHANGED broken
    BY <1>1, <1>6 DEF Conflict
  <2>2. d \in Record /\ call'[t] = d
    BY <1>1, <2>1, Sets DEF Busy, Exchanging
  <2>3. /\ d.op = call[t].op /\ d.at = "relogin" /\ d.todo = call[t].todo /\ d.logged = FALSE
        /\ d.read = call[t].read
    BY <1>1 DEF Record
  <2> HIDE DEF d
  <2>4. Ranges' /\ Fresh' = Fresh
    BY <1>1, <1>2, <2>1 DEF Ranges, Fresh
  <2>5. CallOK(t)'
    BY <1>1, <1>6, <2>2, <2>3 DEF CallOK, Busy, Exchanging
  <2>6. LockOK(t)' /\ FreshOK(t)'
    BY <1>1, <1>2, <1>3, <2>2, <2>3, <2>4 DEF LockOK, FreshOK
  <2>7. RobOK(t)' /\ ClosedOK(t)'
    BY <1>2, <1>4, <2>2, <2>3 DEF RobOK, ClosedOK
  <2> QED
    BY <1>2, <2>1, <2>2, <2>4, <2>5, <2>6, <2>7, OneThread DEF ThreadOK
<1> QED
  BY <1>2, <1>5, <1>6

LEMMA RequestLostKeeps == ASSUME SessionInv, NEW t \in Thread, RequestLost(t) PROVE SessionInv'
<1>1. /\ Ranges /\ call[t].at \in {"send", "resend"} /\ CallOK(t) /\ RobOK(t)
      /\ \A u \in Thread : u # NoOne
  BY Here DEF RequestLost
<1>2. call[t].at \in Exchanging /\ call[t].at \in Busy
  BY <1>1 DEF Exchanging, Busy
<1>3. /\ faults' \in 0..MaxFaults /\ ~(faults' = 0)
      /\ UNCHANGED <<holder, robbed, cache, clock, begun>>
  <2>1. /\ faults' = faults + 1 /\ faults < MaxFaults
        /\ UNCHANGED <<holder, robbed, cache, clock, begun>>
    BY DEF RequestLost
  <2>2. faults \in 0..MaxFaults /\ MaxFaults \in Nat
    BY <1>1, SessionAssumption DEF Ranges, SessionAssumption
  <2> QED
    BY <2>1, <2>2
<1>10. Failure(t, TRUE, "network")
  BY DEF RequestLost
<1>4. PICK d \in Record : /\ call' = [call EXCEPT ![t] = d] /\ Proceeds(t, d)
                          /\ Head(call[t].todo) = "logout" => ~d.logged
  BY <1>2, <1>10, FailureOK
<1>5. broken' \in {broken, clock}
  BY <1>2, <1>10, FailureOK
<1>6. \/ session' = session
      \/ session' = NoOne /\ session = t /\ Head(call[t].todo) = "logout"
  BY DEF RequestLost
<1>7. session' \in Thread \cup {NoOne} /\ robbed' \in [Thread -> 0..2]
  BY <1>1, <1>3, <1>6 DEF Ranges
<1>8. \A u \in Thread \ {t} : (session' = session /\ robbed'[u] = robbed[u]) \/ Robs(u)
  BY <1>1, <1>3, <1>6 DEF Robs
<1>9. d.logged => session' = t \/ robbed'[t] >= 1
  BY <1>1, <1>3, <1>4, <1>6 DEF CallOK, RobOK
<1> QED
  BY <1>2, <1>3, <1>4, <1>5, <1>7, <1>8, <1>9, Exchange

(* Where the call goes without asking the router *)
LEMMA Direct ==
  ASSUME SessionInv, NEW t \in Thread, call[t].at \in {"direct", "store"},
         NEW result \in {"none", "ok", "empty", "error"},
         NEW d, d = Onward(t, Tail(call[t].todo), call[t].logged, result)
  PROVE  /\ d \in Record /\ Proceeds(t, d) /\ d.logged = call[t].logged /\ d.result = result
         /\ call[t].op = "topology" /\ holder = t /\ call[t].todo \in Late /\ call[t].at \in Busy
         /\ call[t].at = "store" => d.todo \notin Early \cup Late
<1> DEFINE c == call[t]
<1>1. /\ call \in [Thread -> Record] /\ c \in Record /\ CallOK(t) /\ LockOK(t)
      /\ OpOf(t) \subseteq Operation
  BY Here
<1>2. c.op \in Operation /\ c.todo \in Todo(c.op) /\ Head(c.todo) = c.at /\ c.at \in Busy
  BY <1>1 DEF CallOK, Busy, Exchanging
<1>3. c.op = "topology"
  BY <1>2, TodoFacts
<1>4. c.todo \in Late
  BY <1>2, <1>3, Heads, Logouts DEF Todo
<1>5. holder = t
  BY <1>1, <1>2, <1>3 DEF LockOK, Locked
<1>6. /\ Tail(c.todo) \in Todo(c.op) /\ Head(Tail(c.todo)) # "auth"
      /\ IF c.at = "store" THEN Tail(c.todo) = <<"logout">> ELSE Tail(c.todo) \in Late
  <2>1. Head(c.todo) \in {"direct", "store"}
    BY <1>2
  <2>2. Tail(c.todo) \in Todo(c.op) /\ Head(Tail(c.todo)) # "auth"
    BY <1>2, <1>3, <2>1, TodoFacts, ZenonT(30)
  <2>3. IF Head(c.todo) = "store" THEN Tail(c.todo) = <<"logout">> ELSE Tail(c.todo) \in Late
    BY <1>4, TopologyTails
  <2> QED
    BY <1>2, <2>2, <2>3
<1>7. Tail(c.todo) # <<>> /\ c.logged \in BOOLEAN
  <2>1. Tail(c.todo) # <<>>
    BY <1>2, <1>6, TodoFacts
  <2>2. c.logged \in BOOLEAN
    BY <1>1 DEF Record
  <2> QED
    BY <2>1, <2>2
<1>8. /\ d \in Record /\ d.op = c.op /\ d.logged = c.logged /\ d.result = result
      /\ d.read = c.read
      /\ \/ d.at = "leave" /\ d.todo = <<>> /\ (~c.logged \/ d.op \in Kept)
         \/ /\ d.todo = Tail(c.todo) /\ Tail(c.todo) # <<>>
            /\ d.at = IF Head(Tail(c.todo)) \in {"direct", "store"} THEN Head(Tail(c.todo))
                      ELSE IF c.logged THEN "send" ELSE "login"
  <2> DEFINE rest == Tail(c.todo)
             l    == c.logged
  <2>1. d = Onward(t, rest, l, result)
    OBVIOUS
  <2>2. rest \in Todo(c.op) \cup {<<>>} /\ rest # <<>> /\ Head(rest) # "auth" /\ l \in BOOLEAN
    BY <1>6, <1>7
  <2> HIDE DEF rest, l
  <2>3. /\ d \in Record /\ d.op = c.op /\ d.logged = l /\ d.result = result
        /\ d.read = c.read
        /\ \/ d.at = "leave" /\ d.todo = <<>> /\ (~l \/ d.op \in Kept)
           \/ /\ d.todo = rest /\ rest # <<>>
              /\ d.at = IF Head(rest) \in {"direct", "store"} THEN Head(rest)
                        ELSE IF l THEN "send" ELSE "login"
    BY <1>1, <1>2, <2>1, <2>2, OnwardOK
  <2> QED
    BY <2>3 DEF rest, l
<1>9. <<>> \notin Early \cup Late /\ <<"logout">> \notin Early \cup Late
  BY Heads, Logouts
<1>10. d.todo \notin Early /\ (c.at = "store" => d.todo \notin Late)
  BY <1>6, <1>8, <1>9, Heads
<1>11. Proceeds(t, d)
  BY <1>3, <1>4, <1>6, <1>8, <1>10 DEF Proceeds
<1> QED
  BY <1>2, <1>3, <1>4, <1>5, <1>8, <1>10, <1>11

LEMMA AskNodesKeeps == ASSUME SessionInv, NEW t \in Thread, AskNodes(t) PROVE SessionInv'
<1>1. /\ Ranges /\ call \in [Thread -> Record] /\ call[t] \in Record /\ CallOK(t) /\ RobOK(t)
      /\ ClosedOK(t) /\ \A u \in Thread : u # NoOne
  BY Here
<1>2. call[t].at = "direct" /\ UNCHANGED <<holder, cache, broken, clock, begun, faults>>
  BY DEF AskNodes
<1> DEFINE d == Onward(t, Tail(call[t].todo), call[t].logged, call[t].result)
<1>3. call' = [call EXCEPT ![t] = d]
  BY <1>1 DEF AskNodes
<1>4. call[t].result \in {"none", "ok", "empty", "error"}
  BY <1>1 DEF Record
<1>5. d \in Record /\ Proceeds(t, d) /\ d.logged = call[t].logged /\ call[t].at \in Busy
  BY <1>2, <1>4, Direct
<1> HIDE DEF d
<1>6. faults' \in 0..MaxFaults
  BY <1>1, <1>2 DEF Ranges
<1>7. CASE GiveSession(NoOne)
  <2>1. /\ session' = NoOne /\ robbed' \in [Thread -> 0..2] /\ \A u \in Thread : Robs(u)
    BY <1>1, <1>7, Gives
  <2>2. d.logged => robbed'[t] >= 1
    <3>1. robbed[t] \in 0..2 /\ Robs(t)
      BY <1>1, <2>1 DEF Ranges
    <3> QED
      BY <1>1, <1>5, <3>1 DEF Robs, RobOK
  <2> QED
    BY <1>1, <1>2, <1>3, <1>5, <1>6, <2>1, <2>2, Exchange
<1>8. CASE UNCHANGED <<session, robbed>>
  <2>1. session' \in Thread \cup {NoOne} /\ robbed' \in [Thread -> 0..2]
    BY <1>1, <1>8 DEF Ranges
  <2>2. d.logged => session' = t \/ robbed'[t] >= 1
    BY <1>1, <1>5, <1>8 DEF RobOK
  <2>3. faults' = 0 /\ session' = t => d.logged
    BY <1>1, <1>2, <1>5, <1>8 DEF ClosedOK
  <2> QED
    BY <1>1, <1>2, <1>3, <1>5, <1>6, <1>8, <2>1, <2>2, <2>3, Exchange
<1> QED
  BY <1>7, <1>8 DEF AskNodes

LEMMA StoreKeeps == ASSUME SessionInv, NEW t \in Thread, Store(t) PROVE SessionInv'
<1>1. /\ Ranges /\ call \in [Thread -> Record] /\ call[t] \in Record /\ RobOK(t) /\ ClosedOK(t)
  BY Here
<1>2. /\ call[t].at = "store" /\ cache' = [read |-> call[t].read, stored |-> clock]
      /\ UNCHANGED <<session, holder, robbed, broken, clock, begun, faults>>
  BY DEF Store
<1> DEFINE d == Onward(t, Tail(call[t].todo), call[t].logged, "ok")
<1>3. call' = [call EXCEPT ![t] = d]
  BY <1>1 DEF Store
<1>4. /\ d \in Record /\ Proceeds(t, d) /\ d.logged = call[t].logged /\ call[t].at \in Busy
      /\ holder = t /\ d.todo \notin Early
  BY <1>2, Direct
<1> HIDE DEF d
<1>5. Ranges'
  <2>1. call[t].read \in Never..MaxClock /\ clock \in Never..MaxClock
    BY <1>1, SessionAssumption DEF Record, Ranges, Never, SessionAssumption
  <2> QED
    BY <1>1, <1>2, <2>1 DEF Ranges
<1>6. ThreadOK(t)'
  <2>1. d.logged => session' = t \/ robbed'[t] >= 1
    BY <1>1, <1>2, <1>4 DEF RobOK
  <2>2. faults' = 0 /\ session' = t => d.logged
    BY <1>1, <1>2, <1>4 DEF ClosedOK
  <2> QED
    BY <1>2, <1>3, <1>4, <2>1, <2>2, Proceeding
<1> QED
  BY <1>2, <1>3, <1>4, <1>5, <1>6, OneThread

LEMMA LeaveKeeps == ASSUME SessionInv, NEW t \in Thread, Leave(t) PROVE SessionInv'
<1>1. /\ Ranges /\ call \in [Thread -> Record] /\ call[t] \in Record /\ CallOK(t) /\ RobOK(t)
      /\ ClosedOK(t) /\ t # NoOne
      /\ t # Keeper => t \in Caller /\ OpOf(t) \cap Kept = {}
      /\ t = Keeper => OpOf(t) \subseteq Kept
  BY Here
<1>2. /\ call[t].at = "leave" /\ holder' = (IF holder = t THEN NoOne ELSE holder)
      /\ robbed' = [robbed EXCEPT ![t] = IF call[t].logged /\ session # t THEN 1 ELSE 0]
      /\ UNCHANGED <<session, cache, broken, clock, begun, faults>>
  BY DEF Leave
<1>3. Ranges' /\ Fresh' = Fresh
  BY <1>1, <1>2 DEF Ranges, Fresh
<1>4. /\ robbed'[t] = IF call[t].logged /\ session # t THEN 1 ELSE 0
      /\ \A u \in Thread \ {t} : robbed'[u] = robbed[u]
  BY <1>1, <1>2 DEF Ranges
<1>5. call[t].op \in OpOf(t) /\ (t # Keeper => ~call[t].logged)
  BY <1>1, <1>2 DEF CallOK
<1>6. CASE call[t].op = "clients" /\ call[t].result = "empty"
  <2> DEFINE d == [Idle EXCEPT !.op = "topology", !.at = "check", !.todo = Requests("topology")]
  <2>1. call' = [call EXCEPT ![t] = d]
    BY <1>6 DEF Leave
  <2>2. Requests("topology") \in Seq(Requested)
    BY Beginnings, TodoSeq DEF Operation
  <2>3. /\ d \in Record /\ d.op = "topology" /\ d.at = "check" /\ d.todo = Requests("topology")
        /\ d.read = Never /\ d.logged = FALSE
    <3>1. Never \in Never..MaxClock
      BY SessionAssumption DEF Never, SessionAssumption
    <3> QED
      BY <2>2, <3>1 DEF Record, Idle, Operation
  <2> HIDE DEF d
  <2>4. call'[t] = d
    BY <1>1, <2>1
  <2>5. "topology" \in OpOf(t) /\ t # Keeper
    BY <1>1, <1>5, <1>6 DEF OpOf, Kept
  <2>6. CallOK(t)' /\ LockOK(t)' /\ FreshOK(t)'
    BY <2>3, <2>4, <2>5 DEF CallOK, LockOK, FreshOK, Busy, Exchanging, Locked
  <2>7. RobOK(t)' /\ ClosedOK(t)'
    BY <1>1, <1>2, <1>5, <2>3, <2>4, <2>5 DEF RobOK, ClosedOK
  <2> QED
    BY <1>2, <1>3, <1>4, <2>1, <2>3, <2>6, <2>7, OneThread DEF ThreadOK
<1>7. CASE ~(call[t].op = "clients" /\ call[t].result = "empty")
  <2> DEFINE d == [Idle EXCEPT !.logged = call[t].logged]
  <2>1. call' = [call EXCEPT ![t] = d]
    BY <1>7 DEF Leave
  <2>2. d \in Record /\ d.op = "none" /\ d.at = "idle" /\ d.logged = call[t].logged
    <3>1. Never \in Never..MaxClock /\ <<>> \in Seq(Requested) /\ call[t].logged \in BOOLEAN
      BY <1>1, TodoSeq, SessionAssumption DEF Never, SessionAssumption, Record
    <3> QED
      BY <3>1 DEF Record, Idle
  <2> HIDE DEF d
  <2>3. call'[t] = d
    BY <1>1, <2>1
  <2>4. CallOK(t)' /\ LockOK(t)' /\ FreshOK(t)'
    BY <1>5, <2>2, <2>3 DEF CallOK, LockOK, FreshOK, Busy, Exchanging, Locked
  <2>5. RobOK(t)' /\ ClosedOK(t)'
    BY <1>1, <1>2, <1>4, <2>2, <2>3 DEF RobOK, ClosedOK
  <2> QED
    BY <1>2, <1>3, <1>4, <2>1, <2>2, <2>4, <2>5, OneThread DEF ThreadOK
<1> QED
  BY <1>6, <1>7

LEMMA TickKeeps == ASSUME SessionInv, Tick PROVE SessionInv'
<1>1. Ranges /\ clock' = clock + 1 /\ clock < MaxClock /\ MaxClock \in Nat /\ TTL \in Nat
  BY SessionAssumption DEF SessionInv, Tick, SessionAssumption
<1>2. UNCHANGED <<session, holder, call, robbed, cache, broken, begun, faults>>
  BY DEF Tick
<1>3. Ranges'
  BY <1>1, <1>2 DEF Ranges
<1>4. Fresh' => Fresh
  BY <1>1, <1>2 DEF Fresh, Ranges, Never
<1>5. \A u \in Thread : ThreadOK(u)'
  BY <1>2, <1>4, Untouched
<1> QED
  BY <1>2, <1>3, <1>5 DEF SessionInv

LEMMA SessionStep == SessionInv /\ [Next]_vars => SessionInv'
<1> SUFFICES ASSUME SessionInv, [Next]_vars PROVE SessionInv'
  OBVIOUS
<1>1. CASE UNCHANGED vars
  <2>1. UNCHANGED <<session, holder, call, robbed, cache, broken, clock, begun, faults>>
    BY <1>1 DEF vars
  <2>2. Ranges' /\ Fresh' = Fresh
    BY <2>1 DEF SessionInv, Ranges, Fresh
  <2>3. \A u \in Thread : ThreadOK(u)'
    BY <2>1, <2>2, Untouched
  <2> QED
    BY <2>1, <2>2, <2>3 DEF SessionInv
<1> QED
  BY <1>1, TickKeeps, BeginKeeps, CheckKeeps, AcquireKeeps, LoginKeeps, LoginFailsKeeps,
     AnswerKeeps, ConflictKeeps, RequestLostKeeps, AskNodesKeeps, StoreKeeps, LeaveKeeps
     DEF Next, Step

LEMMA SessionAlways == Spec => []SessionInv
  BY SessionInit, SessionStep, PTL DEF Spec

-----------------------------------------------------------------------------
(* The results *)

(* Sessions, calls and caches have their types, and every call of a thread is
   one it makes or the topology it falls back to (deco_client.DecoClient).   *)
THEOREM TypeCorrect == Spec => []TypeOK
<1>1. SessionInv => TypeOK
  <2> SUFFICES ASSUME SessionInv PROVE TypeOK
    OBVIOUS
  <2>1. Ranges
    BY DEF SessionInv
  <2>2. ASSUME NEW t \in Thread
        PROVE  /\ \/ call[t].op \in Ops[t] \cup {"none"}
                  \/ call[t].op = "topology" /\ "clients" \in Ops[t]
               /\ call[t] \in Record
    BY Here DEF CallOK, OpOf
  <2> QED
    BY <2>1, <2>2 DEF TypeOK, Ranges, Record, Busy, Exchanging
<1> QED
  BY <1>1, SessionAlways, PTL

(* When nobody is at the Deco, it has at most the session of the long-lived
   client: every call closes its own, also one that was robbed of it
   (deco_client.close, logout).                                              *)
THEOREM SessionsClosedAlways == Spec => []SessionsClosed
<1>1. SessionInv => SessionsClosed
  <2> SUFFICES ASSUME SessionInv, \A t \in Thread : call[t].at = "idle", faults = 0,
                      session \notin {NoOne, Keeper}
               PROVE  FALSE
    BY DEF SessionsClosed
  <2>1. session \in Thread
    BY DEF SessionInv, Ranges
  <2>2. CallOK(session) /\ ClosedOK(session)
    BY <2>1, Here
  <2> QED
    BY <2>1, <2>2 DEF CallOK, ClosedOK
<1> QED
  BY <1>1, SessionAlways, PTL

(* Who is robbed had the session; a locked call that has one has the lock. *)
LEMMA Robbed ==
  ASSUME SessionInv, NEW s \in Thread \cup {NoOne}, GiveSession(s),
         NEW t \in Thread, robbed'[t] > robbed[t], call[t].op \in Locked
  PROVE  t # s /\ session' = s /\ holder = t
<1>1. Ranges /\ CallOK(t) /\ LockOK(t) /\ OpOf(t) \subseteq Operation
      /\ (t = Keeper => OpOf(t) \subseteq Kept) /\ call[t] \in Record
  BY Here
<1>2. robbed[t] \in 0..2
  BY <1>1 DEF Ranges
<1>3. session' = s /\ t # s /\ Robs(t)
  BY <1>2, Gives
<1>4. call[t].logged
  BY <1>2, <1>3 DEF Robs
<1>5. call[t].at # "idle"
  BY <1>1 DEF CallOK, Locked
<1>6. call[t].at \in Busy
  BY <1>1, <1>4, <1>5 DEF CallOK, Record, Locked, Kept
<1> QED
  BY <1>1, <1>3, <1>6 DEF LockOK

LEMMA RobStep ==
  ASSUME SessionInv, Next, NEW t \in Thread, robbed'[t] > robbed[t], call[t].op \in Locked
  PROVE  \/ session' \in Thread /\ call[session'].op \notin Locked
         \/ session' = NoOne /\ call[t].at = "direct"
<1>0. robbed[t] \in 0..2 /\ robbed \in [Thread -> 0..2]
  BY DEF SessionInv, Ranges
<1>1. robbed' # robbed
  BY <1>0
<1>2. PICK u \in Thread : Login(u) \/ LoginFails(u) \/ AskNodes(u) \/ Leave(u)
  BY <1>1 DEF Next, Step, Tick, Begin, Check, Acquire, Answer, Conflict, RequestLost, Store
<1>3. CallOK(u) /\ LockOK(u) /\ OpOf(u) \subseteq Operation /\ (u = Keeper => OpOf(u) \subseteq Kept)
  BY Here
<1>4. CASE Login(u) \/ LoginFails(u)
  <2>1. GiveSession(u) /\ call[u].at \in Busy
    BY <1>1, <1>4 DEF Login, LoginFails, Busy, Exchanging
  <2>2. t # u /\ session' = u /\ holder = t
    BY <2>1, Robbed
  <2> QED
    BY <1>3, <2>1, <2>2 DEF LockOK
<1>5. CASE AskNodes(u)
  <2>1. GiveSession(NoOne) /\ call[u].at = "direct"
    BY <1>1, <1>5 DEF AskNodes
  <2>2. session' = NoOne /\ holder = t
    BY <2>1, Robbed
  <2>3. holder = u
    <3>1. call[u].result \in {"none", "ok", "empty", "error"}
      BY Here DEF Record
    <3> QED
      BY <2>1, <3>1, Direct
  <2> QED
    BY <2>1, <2>2, <2>3
<1>6. CASE Leave(u)
  <2>1. /\ call[u].at = "leave"
        /\ robbed' = [robbed EXCEPT ![u] = IF call[u].logged /\ session # u THEN 1 ELSE 0]
    BY <1>6 DEF Leave
  <2>2. t = u /\ call[u].logged
    BY <1>0, <2>1
  <2>3. call[u].op \in OpOf(u) /\ u = Keeper
    BY <1>3, <2>1, <2>2 DEF CallOK
  <2> QED
    BY <1>3, <2>2, <2>3 DEF Locked, Kept
<1> QED
  BY <1>2, <1>4, <1>5, <1>6

(* The lock keeps the calls that take it from ending each other's sessions:
   only calls without it do, or the call's own visit to the router as a node
   (deco_client._local_api_lock).                                            *)
THEOREM OnlyUnlockedRobAlways == Spec => OnlyUnlockedRob
<1>1. SessionInv /\ [Next]_vars =>
        [\A t \in Thread :
           robbed'[t] > robbed[t] /\ call[t].op \in Locked =>
              \/ session' \in Thread /\ call[session'].op \notin Locked
              \/ session' = NoOne /\ call[t].at = "direct"]_vars
  BY RobStep
<1> QED
  BY <1>1, SessionAlways, PTL DEF Spec, OnlyUnlockedRob

(* An error is new to a call, or the client list is declared broken by it. *)
LEMMA FailStep ==
  ASSUME SessionInv, Next, NEW t \in Thread,
         \/ call'[t].result = "error" /\ call[t].result # "error"
         \/ broken' # broken /\ broken' # Never /\ call'[t] # call[t]
  PROVE  call'[t].hurt \/ robbed[t] = 2
<1>1. call \in [Thread -> Record]
  BY DEF SessionInv
<1>2. ASSUME NEW u \in Thread, NEW d, call' = [call EXCEPT ![u] = d]
      PROVE  t = u /\ call'[t] = d
  BY <1>1, <1>2
<1>3. ~Tick
  BY DEF Tick
<1>4. ASSUME NEW u \in Thread, Begin(u) PROVE FALSE
  <2>1. PICK op \in Ops[u] : call' = [call EXCEPT ![u] =
            [Idle EXCEPT !.op = op, !.todo = Requests(op), !.logged = call[u].logged,
                         !.at = CASE op = "topology"              -> "check"
                                  [] op \in Locked \ {"topology"} -> "lock"
                                  [] OTHER -> First(Requests(op), call[u].logged)]]
    BY <1>4 DEF Begin
  <2>2. t = u /\ broken' \in {broken, Never}
    BY <1>2, <1>4, <2>1 DEF Begin
  <2>3. call'[t].result = "none"
    BY <1>1, <2>1, <2>2 DEF Idle
  <2> QED
    BY <2>2, <2>3
<1>5. ASSUME NEW u \in Thread, Check(u) \/ Acquire(u) PROVE FALSE
  <2>1. broken' = broken /\ \E at : call' = [call EXCEPT ![u] = [call[u] EXCEPT !.at = at]]
    BY <1>1, <1>5 DEF Check, Acquire
  <2> QED
    BY <1>1, <2>1 DEF Record
<1>6. ASSUME NEW u \in Thread, Login(u) PROVE FALSE
  <2>1. call[u].at \in Exchanging /\ call[u] \in Record
    BY <1>1, <1>6 DEF Login, Exchanging
  <2>2. CASE Head(call[u].todo) = "auth"
    <3>1. Success(u, TRUE)
      BY <1>6, <2>2 DEF Login
    <3>2. PICK d \in Record : /\ call' = [call EXCEPT ![u] = d]
                              /\ d.result = "error" => call[u].result = "error"
      BY <2>1, <2>2, <3>1, SuccessOK
    <3>3. broken' \in {broken, Never}
      BY <2>1, <2>2, <3>1, SuccessOK
    <3> QED
      BY <1>2, <3>2, <3>3
  <2>3. CASE Head(call[u].todo) # "auth"
    <3>1. broken' = broken
          /\ \E at : call' = [call EXCEPT ![u] = [call[u] EXCEPT !.logged = TRUE, !.at = at]]
      BY <1>1, <1>6, <2>3 DEF Login
    <3> QED
      BY <1>1, <3>1 DEF Record
  <2> QED
    BY <2>2, <2>3
<1>7. ASSUME NEW u \in Thread, Answer(u) PROVE FALSE
  <2>1. call[u].at \in Exchanging
    BY <1>7 DEF Answer, Exchanging
  <2>2. PICK logged \in BOOLEAN : /\ Success(u, logged)
                                  /\ Head(call[u].todo) = "logout" => ~logged
    BY <1>7 DEF Answer
  <2>3. PICK d \in Record : /\ call' = [call EXCEPT ![u] = d]
                            /\ d.result = "error" => call[u].result = "error"
    BY <2>1, <2>2, SuccessOK
  <2>4. broken' \in {broken, Never}
    BY <2>1, <2>2, SuccessOK
  <2> QED
    BY <1>2, <2>3, <2>4
<1>8. ASSUME NEW u \in Thread, LoginFails(u) \/ RequestLost(u) PROVE call'[t].hurt
  <2>1. call[u].at \in Exchanging
    BY <1>8 DEF LoginFails, RequestLost, Exchanging
  <2>2. PICK logged \in BOOLEAN, why \in {"invalid", "network"} : Failure(u, logged, why)
    BY <1>8 DEF LoginFails, RequestLost
  <2>3. why \in {"conflict", "network", "invalid"} /\ why # "conflict"
    OBVIOUS
  <2>4. \E d \in Record : call' = [call EXCEPT ![u] = d] /\ d.hurt
    BY <2>1, <2>2, <2>3, FailureHurts
  <2>5. PICK d \in Record : call' = [call EXCEPT ![u] = d] /\ d.hurt
    BY <2>4
  <2> QED
    BY <1>2, <2>5
<1>9. ASSUME NEW u \in Thread, Conflict(u) PROVE robbed[t] = 2
  <2>1. CASE call[u].at = "send"
    <3>1. /\ broken' = broken
          /\ call' = [call EXCEPT ![u] = [call[u] EXCEPT !.at = "relogin", !.logged = FALSE]]
      BY <1>1, <1>9, <2>1 DEF Conflict
    <3> QED
      BY <1>1, <3>1 DEF Record
  <2>2. CASE call[u].at = "resend"
    <3>1. robbed[u] = 2 /\ call[u].at \in Exchanging /\ Failure(u, TRUE, "conflict")
      BY <1>9, <2>2, Here DEF Conflict, RobOK, Exchanging
    <3>2. PICK d \in Record : call' = [call EXCEPT ![u] = d]
      BY <3>1, FailureOK
    <3> QED
      BY <1>2, <3>1, <3>2
  <2> QED
    BY <1>9, <2>1, <2>2 DEF Conflict
<1>10. ASSUME NEW u \in Thread, AskNodes(u) \/ Store(u) PROVE FALSE
  <2>1. PICK result \in {call[u].result, "ok"} :
           call' = [call EXCEPT ![u] = Onward(u, Tail(call[u].todo), call[u].logged, result)]
    BY <1>1, <1>10 DEF AskNodes, Store
  <2>2. call[u].at \in {"direct", "store"} /\ broken' = broken
    BY <1>10 DEF AskNodes, Store
  <2>3. result \in {"none", "ok", "empty", "error"}
    BY <1>1 DEF Record
  <2> DEFINE d == Onward(u, Tail(call[u].todo), call[u].logged, result)
  <2>4. d.result = result
    BY <2>2, <2>3, Direct
  <2>5. t = u /\ call'[t] = d
    BY <1>2, <2>1
  <2> HIDE DEF d
  <2> QED
    BY <2>2, <2>4, <2>5
<1>11. ASSUME NEW u \in Thread, Leave(u) PROVE FALSE
  <2>1. broken' = broken
    BY <1>11 DEF Leave
  <2>2. PICK d : call' = [call EXCEPT ![u] = d] /\ d.result = "none"
    BY <1>11 DEF Leave, Idle
  <2> QED
    BY <1>2, <2>1, <2>2
<1> QED
  BY <1>3, <1>4, <1>5, <1>6, <1>7, <1>8, <1>9, <1>10, <1>11 DEF Next, Step

(* One competing login never costs a call its answer: a call fails, or gives
   up the aggregate list, because of the network or because it was robbed of
   its session twice (deco_client._local_encrypted_request).                 *)
THEOREM FailuresExplainedAlways == Spec => FailuresExplained
<1>1. SessionInv /\ [Next]_vars =>
        [\A t \in Thread :
           (\/ call'[t].result = "error" /\ call[t].result # "error"
            \/ broken' # broken /\ broken' # Never /\ call'[t] # call[t])
           => call'[t].hurt \/ robbed[t] = 2]_vars
  BY FailStep
<1> QED
  BY <1>1, SessionAlways, PTL DEF Spec, FailuresExplained

-----------------------------------------------------------------------------
(* The refinement: the fetch that the abstract source sees is that of the
   lock holder.                                                             *)
LEMMA ReadingOf ==
  Reading = IF holder # NoOne /\ call[holder].op = "topology" /\ Storing(call[holder].todo)
            THEN call[holder].read ELSE Never
  BY DEF Reading, Storing

(* A call that does not hold the lock has no part in it. *)
LEMMA SameReading ==
  ASSUME SessionInv, NEW t \in Thread, NEW d, call' = [call EXCEPT ![t] = d],
         holder' = holder, holder # t
  PROVE  Reading' = Reading
<1>1. call \in [Thread -> Record] /\ holder \in Thread \cup {NoOne}
  BY DEF SessionInv, Ranges, Thread
<1>2. holder # NoOne => call'[holder] = call[holder]
  BY <1>1
<1> QED
  BY <1>2 DEF Reading

(* Nor has a step that leaves the call's list and its reading alone. *)
LEMMA StillReading ==
  ASSUME SessionInv, NEW t \in Thread, NEW d, call' = [call EXCEPT ![t] = d],
         holder' = holder, d.op = call[t].op, d.todo = call[t].todo, d.read = call[t].read
  PROVE  Reading' = Reading
<1>1. call \in [Thread -> Record]
  BY DEF SessionInv
<1>2. CASE holder = t
  <2>1. call'[t] = d
    BY <1>1
  <2> QED
    BY <1>2, <2>1 DEF Reading
<1>3. CASE holder # t
  BY <1>3, SameReading
<1> QED
  BY <1>2, <1>3

(* The lock holder in a fetch, by what is left of it *)
LEMMA HolderReads ==
  ASSUME SessionInv, NEW t \in Thread, holder = t, call[t].at \in Busy
  PROVE  IF call[t].op = "topology" /\ call[t].todo \in Late
         THEN Reading = call[t].read /\ Reading # Never ELSE Reading = Never
<1>1. CallOK(t) /\ t # NoOne
  BY Here
<1>2. call[t].op = "topology" => call[t].todo \in Early \cup Late \cup {<<"logout">>}
  BY <1>1 DEF CallOK, Todo
<1>3. call[t].op = "topology" /\ call[t].todo \in Early => call[t].read = Never
  BY <1>1 DEF CallOK
<1>4. call[t].op = "topology" /\ call[t].todo \in Late => call[t].read # Never
  BY <1>1 DEF CallOK
<1> QED
  BY <1>1, <1>2, <1>3, <1>4, ReadingOf, StoringOnes

LEMMA ProceedingReads ==
  ASSUME SessionInv, NEW t \in Thread, call[t].at \in Busy,
         NEW d \in Record, call' = [call EXCEPT ![t] = d], Proceeds(t, d),
         UNCHANGED <<holder, cache, clock>>
  PROVE  [Source!SourceNext]_(Source!sourceVars)
<1> USE DEF Source!SourceNext, Source!sourceVars, Source!Read, Source!Abandon,
            Source!Fresh, Source!FreshSince
<1>1. /\ Ranges /\ call \in [Thread -> Record] /\ CallOK(t) /\ FreshOK(t) /\ t # NoOne
      /\ call'[t] = d
  BY Here
<1>2. CASE holder # t \/ call[t].op # "topology"
  <2>1. CASE holder # t
    BY <2>1, SameReading
  <2>2. CASE holder = t /\ call[t].op # "topology"
    BY <1>1, <2>2 DEF Reading, Proceeds
  <2> QED
    BY <1>2, <2>1, <2>2
<1>3. CASE holder = t /\ call[t].op = "topology"
  <2>1. d.op = "topology" /\ d.todo \in Early \cup Late \cup {<<"logout">>, <<>>}
    BY <1>3 DEF Proceeds, Todo
  <2>2. Reading' = IF Storing(d.todo) THEN d.read ELSE Never
    BY <1>1, <1>3, <2>1 DEF Reading, Storing
  <2>3. CASE d.todo \in Early
    <3>1. d.read = Never /\ call[t].todo \in Early
      BY <2>1, <2>3 DEF Proceeds
    <3> QED
      BY <1>3, <2>2, <3>1, HolderReads, Heads
  <2>4. CASE d.todo \in Late
    <3>1. Reading' = d.read
      BY <2>2, <2>4, StoringOnes
    <3>2. CASE call[t].todo \in Late
      BY <1>3, <2>1, <2>4, <3>1, <3>2, HolderReads DEF Proceeds
    <3>3. CASE call[t].todo \notin Late
      <4>1. d.read = clock /\ call[t].todo \in Early
        BY <2>1, <2>4, <3>3 DEF Proceeds
      <4>2. Reading = Never /\ ~Fresh
        BY <1>1, <1>3, <3>3, <4>1, HolderReads DEF FreshOK
      <4> QED
        BY <3>1, <4>1, <4>2 DEF Fresh, Source!Never, Never
    <3> QED
      BY <3>2, <3>3
  <2>5. CASE d.todo \in {<<"logout">>, <<>>}
    <3>1. Reading' = Never
      BY <2>2, <2>5, StoringOnes
    <3> QED
      BY <3>1 DEF Source!Never, Never
  <2> QED
    BY <2>1, <2>3, <2>4, <2>5
<1> QED
  BY <1>2, <1>3

LEMMA SourceInitially == Init => Source!SourceInit
  BY DEF Init, Source!SourceInit, Reading, Source!Never, Never

LEMMA SourceStep ==
  ASSUME SessionInv, [Next]_vars PROVE [Source!SourceNext]_(Source!sourceVars)
<1> DEFINE Stutter == UNCHANGED <<clock, cache>> /\ Reading' = Reading
           Result  == [Source!SourceNext]_(Source!sourceVars)
<1>1. Stutter => Result
  BY DEF Source!sourceVars
<1>2. call \in [Thread -> Record]
  BY DEF SessionInv
<1> HIDE DEF Result
<1>3. CASE UNCHANGED vars
  BY <1>1, <1>3 DEF vars, Reading, Result
<1>4. CASE Tick
  <2>1. UNCHANGED <<cache, holder, call>>
    BY <1>4 DEF Tick
  <2>2. Reading' = Reading
    BY <2>1 DEF Reading
  <2> QED
    BY <1>4, <2>1, <2>2 DEF Tick, Result, Source!Tick, Source!SourceNext
<1>5. ASSUME NEW t \in Thread, Begin(t) PROVE Result
  <2>1. PICK op \in Ops[t] : call' = [call EXCEPT ![t] =
            [Idle EXCEPT !.op = op, !.todo = Requests(op), !.logged = call[t].logged,
                         !.at = CASE op = "topology"              -> "check"
                                  [] op \in Locked \ {"topology"} -> "lock"
                                  [] OTHER -> First(Requests(op), call[t].logged)]]
    BY <1>5 DEF Begin
  <2>2. UNCHANGED <<holder, cache, clock>> /\ call[t].at = "idle"
    BY <1>5 DEF Begin
  <2>3. CASE holder = t
    <3>1. call[t].op = "none"
      BY <2>2, Here DEF CallOK
    <3>2. call'[t].read = Never
      BY <1>2, <2>1 DEF Idle
    <3>3. Reading = Never /\ Reading' = Never
      BY <2>2, <2>3, <3>1, <3>2 DEF Reading
    <3> QED
      BY <1>1, <2>2, <3>3
  <2>4. CASE holder # t
    <3>1. Reading' = Reading
      BY <2>1, <2>2, <2>4, SameReading
    <3> QED
      BY <1>1, <2>2, <3>1
  <2> QED
    BY <2>3, <2>4
<1>6. ASSUME NEW t \in Thread, Check(t) PROVE Result
  <2>1. UNCHANGED <<holder, cache, clock>>
    BY <1>6 DEF Check
  <2>2. PICK at : call' = [call EXCEPT ![t] = [call[t] EXCEPT !.at = at]]
    BY <1>2, <1>6 DEF Check
  <2> DEFINE d == [call[t] EXCEPT !.at = at]
  <2>3. d.op = call[t].op /\ d.todo = call[t].todo /\ d.read = call[t].read
    BY <1>2 DEF Record
  <2> HIDE DEF d
  <2>4. Reading' = Reading
    BY <2>1, <2>2, <2>3, StillReading DEF d
  <2> QED
    BY <1>1, <2>1, <2>4
<1>7. ASSUME NEW t \in Thread, Acquire(t) PROVE Result
  <2>1. PICK at : call' = [call EXCEPT ![t] = [call[t] EXCEPT !.at = at]]
    BY <1>2, <1>7 DEF Acquire
  <2>2. holder = NoOne /\ holder' = t /\ call[t].at = "lock" /\ UNCHANGED <<cache, clock>>
    BY <1>7 DEF Acquire
  <2>3. call[t].read = Never
    BY <2>2, Here DEF CallOK
  <2>4. call'[t].read = Never
    BY <1>2, <2>1, <2>3 DEF Record
  <2>5. Reading = Never /\ Reading' = Never
    BY <2>2, <2>4 DEF Reading
  <2> QED
    BY <1>1, <2>2, <2>5
<1>8. ASSUME NEW t \in Thread, Login(t) PROVE Result
  <2>1. UNCHANGED <<holder, cache, clock>> /\ call[t].at \in Exchanging /\ call[t].at \in Busy
    BY <1>8 DEF Login, Exchanging, Busy
  <2>2. CASE Head(call[t].todo) = "auth"
    <3>1. Success(t, TRUE)
      BY <1>8, <2>2 DEF Login
    <3>2. PICK d \in Record : call' = [call EXCEPT ![t] = d] /\ Proceeds(t, d)
      BY <2>1, <2>2, <3>1, SuccessOK
    <3> QED
      BY <2>1, <3>2, ProceedingReads DEF Result
  <2>3. CASE Head(call[t].todo) # "auth"
    <3>1. PICK at : call' = [call EXCEPT ![t] = [call[t] EXCEPT !.logged = TRUE, !.at = at]]
      BY <1>2, <1>8, <2>3 DEF Login
    <3> DEFINE d == [call[t] EXCEPT !.logged = TRUE, !.at = at]
    <3>3. d.op = call[t].op /\ d.todo = call[t].todo /\ d.read = call[t].read
      BY <1>2 DEF Record
    <3> HIDE DEF d
    <3>2. Reading' = Reading
      BY <2>1, <3>1, <3>3, StillReading DEF d
    <3> QED
      BY <1>1, <2>1, <3>2
  <2> QED
    BY <2>2, <2>3
<1>9. ASSUME NEW t \in Thread, Answer(t) PROVE Result
  <2>1. UNCHANGED <<holder, cache, clock>> /\ call[t].at \in Exchanging /\ call[t].at \in Busy
    BY <1>9 DEF Answer, Exchanging, Busy
  <2>2. PICK logged \in BOOLEAN : /\ Success(t, logged)
                                  /\ Head(call[t].todo) = "logout" => ~logged
    BY <1>9 DEF Answer
  <2>3. PICK d \in Record : call' = [call EXCEPT ![t] = d] /\ Proceeds(t, d)
    BY <2>1, <2>2, SuccessOK
  <2> QED
    BY <2>1, <2>3, ProceedingReads DEF Result
<1>10. ASSUME NEW t \in Thread, LoginFails(t) \/ RequestLost(t) PROVE Result
  <2>1. UNCHANGED <<holder, cache, clock>> /\ call[t].at \in Exchanging /\ call[t].at \in Busy
    BY <1>10 DEF LoginFails, RequestLost, Exchanging, Busy
  <2>2. PICK logged \in BOOLEAN, why \in {"invalid", "network"} : Failure(t, logged, why)
    BY <1>10 DEF LoginFails, RequestLost
  <2>3. PICK d \in Record : call' = [call EXCEPT ![t] = d] /\ Proceeds(t, d)
    BY <2>1, <2>2, FailureOK
  <2> QED
    BY <2>1, <2>3, ProceedingReads DEF Result
<1>11. ASSUME NEW t \in Thread, Conflict(t) PROVE Result
  <2>1. UNCHANGED <<holder, cache, clock>> /\ call[t].at \in Exchanging /\ call[t].at \in Busy
    BY <1>11 DEF Conflict, Exchanging, Busy
  <2>2. CASE call[t].at = "send"
    <3>1. call' = [call EXCEPT ![t] = [call[t] EXCEPT !.at = "relogin", !.logged = FALSE]]
      BY <1>2, <1>11, <2>2 DEF Conflict
    <3>2. Reading' = Reading
      BY <1>2, <2>1, <3>1, StillReading DEF Record
    <3> QED
      BY <1>1, <2>1, <3>2
  <2>3. CASE call[t].at # "send"
    <3>1. Failure(t, TRUE, "conflict")
      BY <1>11, <2>3 DEF Conflict
    <3>2. PICK d \in Record : call' = [call EXCEPT ![t] = d] /\ Proceeds(t, d)
      BY <2>1, <3>1, FailureOK
    <3> QED
      BY <2>1, <3>2, ProceedingReads DEF Result
  <2> QED
    BY <2>2, <2>3
<1>12. ASSUME NEW t \in Thread, AskNodes(t) PROVE Result
  <2>1. UNCHANGED <<holder, cache, clock>> /\ call[t].at = "direct"
    BY <1>12 DEF AskNodes
  <2> DEFINE d == Onward(t, Tail(call[t].todo), call[t].logged, call[t].result)
  <2>2. call' = [call EXCEPT ![t] = d] /\ call[t].result \in {"none", "ok", "empty", "error"}
    BY <1>2, <1>12 DEF AskNodes, Record
  <2>3. d \in Record /\ Proceeds(t, d) /\ call[t].at \in Busy
    BY <2>1, <2>2, Direct
  <2> HIDE DEF d
  <2> QED
    BY <2>1, <2>2, <2>3, ProceedingReads DEF Result
<1>13. ASSUME NEW t \in Thread, Store(t) PROVE Result
  <2>1. /\ UNCHANGED <<holder, clock>> /\ call[t].at = "store"
        /\ cache' = [read |-> call[t].read, stored |-> clock]
    BY <1>13 DEF Store
  <2> DEFINE d == Onward(t, Tail(call[t].todo), call[t].logged, "ok")
  <2>2. call' = [call EXCEPT ![t] = d]
    BY <1>2, <1>13 DEF Store
  <2>3. /\ d \in Record /\ Proceeds(t, d) /\ call[t].at \in Busy /\ call[t].op = "topology"
        /\ holder = t /\ call[t].todo \in Late /\ d.todo \notin Early \cup Late
    BY <2>1, Direct
  <2> HIDE DEF d
  <2>4. Reading = call[t].read /\ Reading # Never
    BY <2>3, HolderReads
  <2>5. d.todo \in {<<"logout">>, <<>>}
    BY <2>3 DEF Proceeds, Todo
  <2>6. ~Storing(d.todo) /\ call'[t] = d
    BY <1>2, <2>2, <2>5, StoringOnes
  <2>7. Reading' = Never
    BY <2>1, <2>3, <2>6 DEF Reading, Storing
  <2> QED
    BY <2>1, <2>4, <2>7 DEF Result, Source!Store, Source!SourceNext, Source!Never, Never
<1>14. ASSUME NEW t \in Thread, Leave(t) PROVE Result
  <2>1. UNCHANGED <<cache, clock>> /\ holder' = (IF holder = t THEN NoOne ELSE holder)
    BY <1>14 DEF Leave
  <2>2. CASE holder = t
    <3>1. Reading' = Never
      BY <2>1, <2>2 DEF Reading
    <3> QED
      BY <1>1, <2>1, <3>1 DEF Result, Source!Abandon, Source!SourceNext, Source!Never, Never
  <2>3. CASE holder # t
    <3>1. PICK d : call' = [call EXCEPT ![t] = d]
      BY <1>14 DEF Leave
    <3>2. Reading' = Reading
      BY <2>1, <2>3, <3>1, SameReading
    <3> QED
      BY <1>1, <2>1, <2>3, <3>2
  <2> QED
    BY <2>2, <2>3
<1> QED
  BY <1>3, <1>4, <1>5, <1>6, <1>7, <1>8, <1>9, <1>10, <1>11, <1>12, <1>13, <1>14
     DEF Next, Step, Result

(* Whatever happens to the sessions, callers of get_topology_local see one
   cached topology that one fetch at a time renews, and only when it is no
   longer fresh: DecoSession implements TopologySource.                      *)
THEOREM Refinement == Spec => ImplementsSource
<1>1. SessionInv /\ [Next]_vars => [Source!SourceNext]_(Source!sourceVars)
  BY SourceStep
<1> QED
  BY <1>1, SessionAlways, SourceInitially, PTL DEF Spec, ImplementsSource, Source!SourceSpec

=============================================================================
