------------------------- MODULE BackgroundJobsProofs -------------------------
(* What the push stream promises for any clients and queues of any length, by
   itself and fed by the poller; and what the jobs and the shutdown keep.   *)
EXTENDS TLAPS, SequenceTheorems, BackgroundJobs

-----------------------------------------------------------------------------
(* The stream by itself *)

(* The two halves of what a client gets, numbered: what it was sent, and what
   waits for it.                                                            *)
Numbered(c) ==
  /\ \A i \in 1..Len(sent[c])  : sent[c][i] = joined[c] + i
  /\ \A i \in 1..Len(queue[c]) : queue[c][i] = joined[c] + Len(sent[c]) + i
  /\ c \in subscribers =>
        joined[c] + Len(sent[c]) + Len(queue[c]) = published

(* A client that has not joined has nothing; one that has gone and is still
   listed has in its queue everything published since it went.              *)
StreamInv ==
  /\ TypeOK
  /\ \A c \in Client :
       /\ Numbered(c)
       /\ stream[c] = "none" =>
             c \notin subscribers /\ queue[c] = <<>> /\ sent[c] = <<>>
       /\ c \in subscribers /\ Gone(c) => published - left[c] <= Len(queue[c])

(* Sequences of numbers, one fact each for the queues and what was sent *)
LEMMA Lengths ==
  ASSUME NEW s \in Seq(Nat) PROVE Len(s) \in Nat
  BY LenProperties

LEMMA Appended ==
  ASSUME NEW s \in Seq(Nat), NEW n \in Nat
  PROVE  /\ Append(s, n) \in Seq(Nat)
         /\ Len(Append(s, n)) = Len(s) + 1
         /\ \A i \in 1..Len(s) : Append(s, n)[i] = s[i]
         /\ Append(s, n)[Len(s) + 1] = n
  BY AppendProperties

LEMMA Tailed ==
  ASSUME NEW s \in Seq(Nat), s # <<>>
  PROVE  /\ Len(s) \in Nat \ {0}
         /\ Head(s) = s[1] /\ Head(s) \in Nat
         /\ Tail(s) \in Seq(Nat)
         /\ Len(Tail(s)) = Len(s) - 1
         /\ \A i \in 1..(Len(s) - 1) : Tail(s)[i] = s[i + 1]
<1>1. Len(s) \in Nat \ {0} /\ Head(s) = s[1]
  BY EmptySeq
<1>2. Head(s) \in Nat /\ Tail(s) \in Seq(Nat) /\ Len(Tail(s)) = Len(s) - 1
  BY HeadTailProperties
<1>3. \A i \in 1..Len(Tail(s)) : Tail(s)[i] = s[i + 1]
  BY HeadTailProperties
<1> QED
  BY <1>1, <1>2, <1>3

LEMMA Joined ==
  ASSUME NEW s \in Seq(Nat), NEW t \in Seq(Nat)
  PROVE  /\ Len(s \o t) = Len(s) + Len(t)
         /\ \A i \in 1..Len(s \o t) :
              (s \o t)[i] = IF i <= Len(s) THEN s[i] ELSE t[i - Len(s)]
  BY ConcatProperties

LEMMA StreamInit == Init => StreamInv
<1> SUFFICES ASSUME Init PROVE StreamInv
  OBVIOUS
<1>1. <<>> \in Seq(Nat) /\ Len(<<>>) = 0
  BY EmptySeq
<1>2. \A c \in Client : /\ queue[c] = <<>> /\ sent[c] = <<>>
                        /\ c \notin subscribers /\ joined[c] = 0
  BY DEF Init
<1>3. TypeOK
  <2>1. \A c \in Client : Len(queue[c]) <= Capacity
    BY <1>1, <1>2, CapacityAssumption DEF CapacityAssumption
  <2>2. queue \in [Client -> Seq(Nat)] /\ sent \in [Client -> Seq(Nat)]
    BY <1>1 DEF Init
  <2> QED
    BY <2>1, <2>2 DEF Init, TypeOK, Streams
<1>4. \A c \in Client : Len(sent[c]) = 0 /\ Len(queue[c]) = 0
  BY <1>1, <1>2, Zenon
<1>5. \A c \in Client : Numbered(c)
  BY <1>2, <1>4 DEF Numbered
<1> QED
  BY <1>2, <1>3, <1>5 DEF StreamInv

(* A client whose data a step leaves alone while nothing is published *)
LEMMA Frame ==
  ASSUME StreamInv, TypeOK', published' = published,
         \A c \in Client :
            \/ /\ queue'[c] = queue[c] /\ sent'[c] = sent[c]
               /\ joined'[c] = joined[c] /\ left'[c] = left[c]
               /\ c \in subscribers' => c \in subscribers
               /\ stream'[c] = stream[c]
            \/ /\ Numbered(c)'
               /\ stream'[c] # "none"
               /\ c \in subscribers' /\ Gone(c)'
                     => published - left'[c] <= Len(queue'[c])
  PROVE  StreamInv'
  BY DEF StreamInv, Numbered, Gone

LEMMA SubscribeKeeps ==
  ASSUME StreamInv, NEW c \in Client, Subscribe(c) PROVE StreamInv'
<1>1. TypeOK'
  BY DEF StreamInv, TypeOK, Subscribe, Streams
<1>2. Numbered(c)' /\ stream'[c] = "opening"
  BY DEF StreamInv, TypeOK, Subscribe, Numbered
<1>3. \A x \in Client \ {c} :
         /\ joined'[x] = joined[x] /\ stream'[x] = stream[x]
         /\ x \in subscribers' => x \in subscribers
  BY DEF StreamInv, TypeOK, Subscribe
<1> QED
  BY <1>1, <1>2, <1>3, Frame DEF Subscribe, Gone

LEMMA TakeKeeps ==
  ASSUME StreamInv, NEW c \in Client, Take(c) PROVE StreamInv'
<1> DEFINE q == queue[c]
           s == sent[c]
<1>1. q \in Seq(Nat) /\ s \in Seq(Nat) /\ q # <<>> /\ stream[c] = "waiting"
  BY DEF StreamInv, TypeOK, Take
<1>2. joined[c] \in Nat /\ Len(q) <= Capacity
  BY DEF StreamInv, TypeOK
<1>3. queue'[c] = Tail(q) /\ sent'[c] = Append(s, Head(q)) /\ stream'[c] = "sending"
  BY DEF StreamInv, TypeOK, Take
<1>4. UNCHANGED <<subscribers, published, joined, left>>
  BY DEF Take
<1>5. \A x \in Client \ {c} : /\ queue'[x] = queue[x] /\ sent'[x] = sent[x]
                              /\ stream'[x] = stream[x]
  BY DEF StreamInv, TypeOK, Take
<1>6. Numbered(c)
  BY DEF StreamInv
<1>a. PICK m \in Nat, n \in Nat \ {0} : m = Len(s) /\ n = Len(q)
  BY <1>1, Lengths, Tailed
<1>7. Head(q) = joined[c] + m + 1 /\ Head(q) \in Nat
  <2>1. Head(q) = q[1] /\ Head(q) \in Nat
    BY <1>1, Tailed
  <2>2. 1 \in 1..Len(q)
    BY <1>a
  <2>3. q[1] = joined[c] + Len(s) + 1
    BY <1>6, <2>2, Zenon DEF Numbered
  <2> QED
    BY <2>1, <2>3, <1>a
<1>8. Tail(q) \in Seq(Nat) /\ Len(Tail(q)) = n - 1
  BY <1>1, <1>a, Tailed
<1>9. Append(s, Head(q)) \in Seq(Nat) /\ Len(Append(s, Head(q))) = m + 1
  BY <1>1, <1>7, <1>a, Appended
<1>10. TypeOK'
  <2>1. queue' \in [Client -> Seq(Nat)] /\ sent' \in [Client -> Seq(Nat)]
    BY <1>8, <1>9 DEF StreamInv, TypeOK, Take
  <2>2. ASSUME NEW x \in Client PROVE Len(queue'[x]) <= Capacity
    <3>1. CASE x = c
      <4>1. n <= Capacity => n - 1 <= Capacity
        BY CapacityAssumption DEF CapacityAssumption
      <4>2. Len(queue'[c]) = n - 1
        BY <1>3, <1>8
      <4>3. n <= Capacity
        BY <1>2, <1>a
      <4> QED
        BY <3>1, <4>1, <4>2, <4>3
    <3>2. CASE x # c
      BY <1>5, <3>2 DEF StreamInv, TypeOK
    <3> QED
      BY <3>1, <3>2
  <2>3. stream' \in [Client -> Streams]
    BY DEF StreamInv, TypeOK, Take, Streams
  <2> QED
    BY <1>4, <2>1, <2>2, <2>3 DEF StreamInv, TypeOK
<1>11. Numbered(c)'
  <2>1. ASSUME NEW i \in 1..(m + 1) PROVE sent'[c][i] = joined[c] + i
    <3>1. CASE i = m + 1
      <4>1. Append(s, Head(q))[Len(s) + 1] = Head(q)
        BY <1>1, <1>7, Appended
      <4>2. sent'[c][i] = Head(q)
        BY <1>3, <1>a, <3>1, <4>1
      <4> QED
        BY <1>2, <1>7, <3>1, <4>2
    <3>2. CASE i # m + 1
      <4>1. i \in 1..m
        BY <3>2
      <4>2. i \in 1..Len(s)
        BY <4>1, <1>a, Zenon
      <4>3. s[i] = joined[c] + i
        BY <1>6, <4>2, Zenon DEF Numbered
      <4>4. Append(s, Head(q))[i] = s[i]
        BY <1>1, <1>7, <4>2, Appended
      <4> QED
        BY <1>3, <4>3, <4>4
    <3> QED
      BY <3>1, <3>2
  <2>2. ASSUME NEW i \in 1..(n - 1)
        PROVE  queue'[c][i] = joined[c] + (m + 1) + i
    <3>1. i + 1 \in 1..n /\ i \in Int
      OBVIOUS
    <3>2. i + 1 \in 1..Len(q) /\ i \in 1..(Len(q) - 1)
      BY <3>1, <1>a, Zenon
    <3>3. q[i + 1] = joined[c] + Len(s) + (i + 1)
      BY <1>6, <3>2, Zenon DEF Numbered
    <3>4. Tail(q)[i] = q[i + 1]
      BY <1>1, <3>2, Tailed
    <3>5. queue'[c][i] = joined[c] + m + (i + 1)
      BY <1>3, <1>a, <3>3, <3>4, Zenon
    <3> QED
      BY <1>2, <3>1, <3>5
  <2>3. c \in subscribers' => joined[c] + (m + 1) + (n - 1) = published
    <3>1. c \in subscribers => joined[c] + m + n = published
      BY <1>6, <1>a, Zenon DEF Numbered
    <3> QED
      BY <1>2, <1>4, <3>1
  <2>4. Len(sent'[c]) = m + 1 /\ Len(queue'[c]) = n - 1
    BY <1>3, <1>8, <1>9
  <2> QED
    BY <1>4, <2>1, <2>2, <2>3, <2>4, Zenon DEF Numbered
<1>12. stream'[c] # "none" /\ ~Gone(c)'
  BY <1>3 DEF Gone
<1>13. \A x \in Client \ {c} :
          /\ queue'[x] = queue[x] /\ sent'[x] = sent[x]
          /\ joined'[x] = joined[x] /\ left'[x] = left[x]
          /\ x \in subscribers' => x \in subscribers
          /\ stream'[x] = stream[x]
  BY <1>4, <1>5
<1> HIDE DEF q, s
<1> QED
  BY <1>4, <1>10, <1>11, <1>12, <1>13, Frame

LEMMA PublishKeeps == StreamInv /\ Publish => StreamInv'
<1> SUFFICES ASSUME StreamInv, Publish PROVE StreamInv'
  OBVIOUS
<1> USE CapacityAssumption DEF CapacityAssumption
<1>0. /\ published' = published + 1 /\ published \in Nat
      /\ subscribers' = {c \in subscribers : Len(queue[c]) < Capacity}
      /\ subscribers' \subseteq Client
      /\ UNCHANGED <<stream, sent, joined, left>>
  BY DEF Publish, StreamInv, TypeOK
<1>1. \A c \in Client : /\ queue[c] \in Seq(Nat) /\ Len(queue[c]) \in Nat
                        /\ sent[c] \in Seq(Nat) /\ Len(sent[c]) \in Nat
                        /\ joined[c] \in Nat /\ left[c] \in Nat
  BY Lengths DEF StreamInv, TypeOK
<1>2. \A c \in Client : queue'[c] = IF c \in subscribers'
                                    THEN Append(queue[c], published')
                                    ELSE queue[c]
  BY DEF Publish
<1>3. \A c \in Client :
         /\ Append(queue[c], published') \in Seq(Nat)
         /\ Len(Append(queue[c], published')) = Len(queue[c]) + 1
         /\ \A i \in 1..Len(queue[c]) : Append(queue[c], published')[i] = queue[c][i]
         /\ Append(queue[c], published')[Len(queue[c]) + 1] = published'
  BY <1>0, <1>1, Appended
<1>4. TypeOK'
  <2>1. queue' \in [Client -> Seq(Nat)]
    BY <1>1, <1>3 DEF Publish
  <2>2. ASSUME NEW c \in Client PROVE Len(queue'[c]) <= Capacity
    <3>1. CASE c \in subscribers'
      <4>1. PICK n \in Nat : n = Len(queue[c])
        BY <1>1
      <4>2. n < Capacity
        BY <1>0, <3>1, <4>1, Zenon
      <4>3. Len(queue'[c]) = n + 1
        BY <1>2, <1>3, <3>1, <4>1, Zenon
      <4>4. n + 1 <= Capacity
        BY <4>1, <4>2
      <4> QED
        BY <4>3, <4>4, Zenon
    <3>2. CASE c \notin subscribers'
      BY <1>2, <3>2 DEF StreamInv, TypeOK
    <3> QED
      BY <3>1, <3>2
  <2> QED
    BY <1>0, <2>1, <2>2 DEF StreamInv, TypeOK
<1>5. ASSUME NEW c \in Client PROVE Numbered(c)'
  <2>1. Numbered(c)
    BY DEF StreamInv
  <2>2. CASE c \notin subscribers'
    BY <1>0, <1>2, <2>1, <2>2 DEF Numbered
  <2>3. CASE c \in subscribers'
    <3>0. joined[c] \in Nat
      BY <1>1
    <3>1. PICK m \in Nat, n \in Nat : m = Len(sent[c]) /\ n = Len(queue[c])
      BY <1>1
    <3>2. joined[c] + m + n = published
      BY <1>0, <2>1, <2>3, <3>1, Zenon DEF Numbered
    <3>3. queue'[c] = Append(queue[c], published') /\ Len(queue'[c]) = n + 1
      BY <1>2, <1>3, <2>3, <3>1, Zenon
    <3>4. ASSUME NEW i \in 1..(n + 1) PROVE queue'[c][i] = joined[c] + m + i
      <4>1. CASE i = n + 1
        <5>1. queue'[c][i] = published'
          BY <1>3, <3>1, <3>3, <4>1, Zenon
        <5> QED
          BY <1>0, <3>0, <3>2, <4>1, <5>1
      <4>2. CASE i # n + 1
        <5>1. i \in 1..n
          BY <3>1, <4>2
        <5>2. i \in 1..Len(queue[c])
          BY <3>1, <5>1, Zenon
        <5> QED
          BY <1>3, <2>1, <3>1, <3>3, <5>2, Zenon DEF Numbered
      <4> QED
        BY <4>1, <4>2
    <3>5. joined[c] + m + (n + 1) = published'
      BY <1>0, <3>0, <3>2
    <3>6. \A i \in 1..m : sent[c][i] = joined[c] + i
      BY <2>1, <3>1, Zenon DEF Numbered
    <3> QED
      BY <1>0, <3>1, <3>3, <3>4, <3>5, <3>6, Zenon DEF Numbered
  <2> QED
    BY <2>2, <2>3
<1>6. ASSUME NEW c \in Client, c \in subscribers', Gone(c)'
      PROVE  published' - left'[c] <= Len(queue'[c])
  <2>1. published - left[c] <= Len(queue[c])
    BY <1>0, <1>6 DEF StreamInv, Gone
  <2>2. PICK n \in Nat : n = Len(queue[c])
    BY <1>1
  <2>3. Len(queue'[c]) = n + 1
    BY <1>2, <1>3, <1>6, <2>2, Zenon
  <2>4. published - left[c] <= n
    BY <2>1, <2>2, Zenon
  <2>5. published' - left'[c] <= n + 1
    BY <1>0, <1>1, <2>2, <2>4
  <2> QED
    BY <2>3, <2>5, Zenon
<1>7. ASSUME NEW c \in Client, stream'[c] = "none"
      PROVE  c \notin subscribers' /\ queue'[c] = <<>> /\ sent'[c] = <<>>
  BY <1>0, <1>2, <1>7 DEF StreamInv
<1> QED
  BY <1>4, <1>5, <1>6, <1>7 DEF StreamInv

(* The steps of a response that neither send nor publish *)
LEMMA ResponseKeeps ==
  ASSUME StreamInv, NEW c \in Client,
         Open(c) \/ Sent(c) \/ Disconnect(c) \/ Collected(c)
  PROVE  StreamInv'
<1>0. /\ UNCHANGED <<queue, sent, published, joined>>
      /\ subscribers' \subseteq subscribers
      /\ \A x \in Client \ {c} : stream'[x] = stream[x] /\ left'[x] = left[x]
  BY DEF StreamInv, TypeOK, Open, Sent, Disconnect, Collected
<1>1. TypeOK'
  BY DEF StreamInv, TypeOK, Streams, Open, Sent, Disconnect, Collected
<1>2. Numbered(c)'
  BY <1>0 DEF StreamInv, Numbered
<1>3. stream[c] # "none" /\ stream'[c] # "none"
  BY DEF StreamInv, TypeOK, Open, Sent, Disconnect, Collected
<1>4. c \in subscribers' /\ Gone(c)' => published - left'[c] <= Len(queue'[c])
  <2>1. CASE Disconnect(c)
    <3>1. left'[c] = published /\ published \in Nat /\ Len(queue[c]) \in Nat
      BY <2>1, Lengths DEF StreamInv, TypeOK, Disconnect
    <3> QED
      BY <1>0, <3>1
  <2>2. CASE Open(c) \/ Sent(c)
    BY <2>2 DEF StreamInv, TypeOK, Open, Sent, Gone
  <2>3. CASE Collected(c)
    BY <2>3 DEF Collected
  <2> QED
    BY <2>1, <2>2, <2>3
<1> QED
  BY <1>0, <1>1, <1>2, <1>3, <1>4, Frame

LEMMA StreamInvAlways == Spec => []StreamInv
<1>1. StreamInv /\ UNCHANGED vars => StreamInv'
  BY DEF StreamInv, vars, TypeOK, Numbered, Gone
<1>2. StreamInv /\ [Next]_vars => StreamInv'
  BY <1>1, SubscribeKeeps, TakeKeeps, PublishKeeps, ResponseKeeps DEF Next
<1> QED
  BY <1>2, StreamInit, PTL DEF Spec

(* Types, and with them that no queue of publish_event outgrows its maxsize. *)
THEOREM StreamTypeCorrect == Spec => []TypeOK
<1>1. StreamInv => TypeOK
  BY DEF StreamInv
<1> QED
  BY <1>1, StreamInvAlways, PTL

(* No client sees a gap, a repetition or a change of order. *)
THEOREM GaplessAlways == Spec => []Gapless
<1>1. StreamInv => Gapless
  <2> SUFFICES ASSUME StreamInv, NEW c \in Client
               PROVE  LET all == sent[c] \o queue[c] IN
                      /\ \A i \in 1..Len(all) : all[i] = joined[c] + i
                      /\ c \in subscribers => joined[c] + Len(all) = published
    BY DEF Gapless
  <2> DEFINE all == sent[c] \o queue[c]
  <2>1. /\ sent[c] \in Seq(Nat) /\ queue[c] \in Seq(Nat)
        /\ Len(sent[c]) \in Nat /\ Len(queue[c]) \in Nat
        /\ joined[c] \in Nat /\ Numbered(c)
    BY Lengths DEF StreamInv, TypeOK
  <2>0. joined[c] \in Nat /\ published \in Nat
    BY DEF StreamInv, TypeOK
  <2>2. PICK m \in Nat, n \in Nat : m = Len(sent[c]) /\ n = Len(queue[c])
    BY <2>1
  <2>3. /\ Len(all) = m + n
        /\ \A i \in 1..Len(all) : all[i] = IF i <= Len(sent[c]) THEN sent[c][i]
                                           ELSE queue[c][i - Len(sent[c])]
    BY <2>1, <2>2, Joined
  <2> HIDE DEF all
  <2>4. ASSUME NEW i \in 1..(m + n) PROVE all[i] = joined[c] + i
    <3>1. all[i] = IF i <= m THEN sent[c][i] ELSE queue[c][i - m]
      BY <2>2, <2>3, Zenon
    <3>2. CASE i \in 1..m
      <4>1. sent[c][i] = joined[c] + i
        BY <2>1, <2>2, <3>2, Zenon DEF Numbered
      <4>2. i <= m
        BY <3>2
      <4> QED
        BY <3>1, <4>1, <4>2
    <3>3. CASE i \notin 1..m
      <4>1. i - m \in 1..n /\ ~(i <= m)
        BY <3>3
      <4>2. queue[c][i - m] = joined[c] + m + (i - m)
        BY <2>1, <2>2, <4>1, Zenon DEF Numbered
      <4>3. all[i] = joined[c] + m + (i - m)
        BY <3>1, <4>1, <4>2, Zenon
      <4> QED
        BY <2>0, <4>3
    <3> QED
      BY <3>2, <3>3
  <2>5. c \in subscribers => joined[c] + (m + n) = published
    <3>1. c \in subscribers => joined[c] + m + n = published
      BY <2>1, <2>2, Zenon DEF Numbered
    <3> QED
      BY <2>0, <3>1
  <2>6. \A i \in 1..Len(all) : all[i] = joined[c] + i
    BY <2>3, <2>4, Zenon
  <2>7. c \in subscribers => joined[c] + Len(all) = published
    BY <2>3, <2>5, Zenon
  <2> QED
    BY <2>6, <2>7 DEF all
<1> QED
  BY <1>1, StreamInvAlways, PTL

(* A queue nobody reads any more is listed for Capacity messages at most. *)
THEOREM AbandonedAlways == Spec => []AbandonedBounded
<1>1. StreamInv => AbandonedBounded
  <2> SUFFICES ASSUME StreamInv, NEW c \in subscribers, Gone(c)
               PROVE  published - left[c] <= Capacity
    BY DEF AbandonedBounded
  <2>1. /\ c \in Client /\ published \in Nat /\ left[c] \in Nat
        /\ Len(queue[c]) \in Nat /\ Len(queue[c]) <= Capacity
    BY Lengths DEF StreamInv, TypeOK
  <2> QED
    BY <2>1, CapacityAssumption DEF CapacityAssumption, StreamInv
<1> QED
  BY <1>1, StreamInvAlways, PTL

-----------------------------------------------------------------------------
(* The stream fed by the poller: the jobs do nothing to it but publish. *)
LEMMA JobsUseStream == [JobsNext]_allVars => [Next]_vars
<1> SUFFICES ASSUME [JobsNext]_allVars PROVE [Next]_vars
  OBVIOUS
<1>1. CASE StreamStep
  BY <1>1 DEF StreamStep, Next
<1>2. CASE ShutdownStep
  BY <1>2 DEF ShutdownStep, Stop, Unwind, Close
<1>3. ASSUME NEW j \in Jobs, Wake(j) \/ OrphanEnds(j) PROVE [Next]_vars
  BY <1>3 DEF Wake, OrphanEnds
<1>4. ASSUME NEW b \in BOOLEAN, TestEnds(b) \/ HomeChecked(b) PROVE [Next]_vars
  BY <1>4 DEF TestEnds, HomeChecked
<1>5. CASE ScanEnds
  BY <1>5 DEF ScanEnds, Next
<1>6. CASE SnapshotEnds \/ InsightsEnd \/ ScanRaises
  BY <1>6 DEF SnapshotEnds, InsightsEnd, ScanRaises
<1>7. CASE TogglePause \/ StopServing \/ BeginShutdown
  BY <1>7 DEF TogglePause, StopServing, BeginShutdown
<1>8. CASE UNCHANGED allVars
  BY <1>8 DEF allVars
<1> QED
  BY <1>1, <1>2, <1>3, <1>4, <1>5, <1>6, <1>7, <1>8 DEF JobsNext

(* A server with all its jobs is, seen through the stream, the stream. *)
THEOREM JobsImplementStream == JobsSpec => Spec
<1>1. JobsInit => Init
  BY DEF JobsInit
<1> QED
  BY <1>1, JobsUseStream, PTL DEF JobsSpec, Spec

(* No client sees a gap, and who left is forgotten, also while the poller
   publishes, is paused, and is cancelled by the shutdown.                  *)
THEOREM JobsGapless == JobsSpec => [](Gapless /\ AbandonedBounded)
  BY JobsImplementStream, GaplessAlways, AbandonedAlways, PTL

-----------------------------------------------------------------------------
(* The jobs: what the shutdown has passed has stopped, and what is closed it
   has passed.                                                              *)
Stopped(j) == task[j] \in {"none", "ended"}

StopInv ==
  /\ phase \in {"up", "draining"} => closing = 1
  /\ phase = "closed" => closing = 10
  /\ \A i \in 1..(closing - 1) : ShutdownOrder[i] \in Jobs => Stopped(ShutdownOrder[i])
  /\ \A r \in Resources \ open :
       \/ \E i \in 1..(closing - 1) : ShutdownOrder[i] = r
       \/ phase = "closed" /\ r = "db"

(* While the scans are paused, the one under way is the last to publish. *)
Scanning == Awaits("poller", "scan")

PauseInv ==
  /\ pausedAt <= published
  /\ paused => published - pausedAt <= (IF Scanning THEN 0 ELSE 1)

JobsInv == JobsTypeOK /\ StopInv /\ PauseInv

(* shutdown_event has ten statements: where the clients and the database are
   closed, and that all the others stop a job.                              *)
LEMMA Order ==
  /\ DOMAIN ShutdownOrder = 1..10
  /\ ShutdownOrder[1] = "sampler"      /\ ShutdownOrder[2] = "sweep"
  /\ ShutdownOrder[3] = "retention"    /\ ShutdownOrder[4] = "speedtest"
  /\ ShutdownOrder[5] = "poller"       /\ ShutdownOrder[6] = "deco client"
  /\ ShutdownOrder[7] = "chester client" /\ ShutdownOrder[8] = "hiboost"
  /\ ShutdownOrder[9] = "hiboost client" /\ ShutdownOrder[10] = "db"
BY DEF ShutdownOrder

LEMMA Places ==
  ASSUME NEW i \in 1..10
  PROVE  /\ ShutdownOrder[i] = "deco client" <=> i = 6
         /\ ShutdownOrder[i] = "chester client" <=> i = 7
         /\ ShutdownOrder[i] = "hiboost client" <=> i = 9
         /\ ShutdownOrder[i] = "db" <=> i = 10
         /\ ShutdownOrder[i] \in Jobs <=> i \notin {6, 7, 9, 10}
<1>1. \/ i = 1 \/ i = 2 \/ i = 3 \/ i = 4 \/ i = 5
      \/ i = 6 \/ i = 7 \/ i = 8 \/ i = 9 \/ i = 10
  OBVIOUS
<1> QED
  BY <1>1, Order DEF Jobs

LEMMA JobsInitially == JobsInit => JobsInv
<1> SUFFICES ASSUME JobsInit PROVE JobsInv
  OBVIOUS
<1>1. TypeOK /\ published = 0
  BY StreamInit DEF JobsInit, StreamInv, Init
<1>2. task \in [Jobs -> Tasks] /\ thread \in [Jobs -> Work]
  BY DEF JobsInit, Tasks, Work
<1>3. JobsTypeOK
  <2>0. 1 \in 1..10
    OBVIOUS
  <2>1. 1 \in DOMAIN ShutdownOrder
    BY <2>0, Order
  <2> QED
    BY <1>1, <1>2, <2>1 DEF JobsInit, JobsTypeOK
<1>4. StopInv /\ PauseInv
  BY <1>1 DEF JobsInit, StopInv, PauseInv
<1> QED
  BY <1>3, <1>4 DEF JobsInv

(* What a step of the stream alone leaves as it is *)
LEMMA StreamStepKeeps ==
  ASSUME JobsInv, TypeOK', UNCHANGED jobVars, published' = published
  PROVE  JobsInv'
BY DEF JobsInv, JobsTypeOK, StopInv, PauseInv, Stopped, Scanning, Awaits, jobVars

(* A job goes on, and publishes at the end of a scan. *)
LEMMA LoopKeeps ==
  ASSUME JobsInv, TypeOK', NEW j \in Jobs, NEW work \in Work, GoesOn(j, work),
         task[j] \in {"asleep", "waiting"},
         j = "poller" /\ work = "scan" => ~paused,
         \/ published' = published
         \/ j = "poller" /\ Scanning /\ work = "idle" /\ published' = published + 1
  PROVE  JobsInv'
<1>1. JobsTypeOK'
  BY DEF JobsInv, JobsTypeOK, GoesOn, Tasks
<1>2. \A k \in Jobs : Stopped(k) => k # j /\ Stopped(k)'
  BY DEF JobsInv, JobsTypeOK, GoesOn, Stopped
<1>3. StopInv'
  BY <1>2 DEF JobsInv, StopInv, GoesOn
<1>4. published \in Nat /\ pausedAt \in Nat /\ UNCHANGED <<paused, pausedAt>>
  BY DEF JobsInv, JobsTypeOK, TypeOK, GoesOn
<1>5. Scanning' => \/ j # "poller" /\ Scanning
                   \/ j = "poller" /\ work = "scan"
  <2>1. "poller" \in Jobs
    BY DEF Jobs
  <2> QED
    BY <2>1 DEF JobsInv, JobsTypeOK, GoesOn, Scanning, Awaits
<1>6. PauseInv'
  BY <1>4, <1>5 DEF JobsInv, PauseInv
<1> QED
  BY <1>1, <1>3, <1>6 DEF JobsInv

LEMMA StopKeeps ==
  ASSUME JobsInv, NEW j \in Jobs, Stop(j), TypeOK' PROVE JobsInv'
<1>0. /\ phase = "stopping" /\ closing \in 1..10 /\ ShutdownOrder[closing] = j
      /\ closing # 10
  BY Order, Places DEF JobsInv, JobsTypeOK, Stop, At
<1>1. JobsTypeOK'
  <2>0. closing' \in 1..10
    BY <1>0 DEF Stop
  <2>1. closing' \in DOMAIN ShutdownOrder
    BY <2>0, Order
  <2> QED
    BY <2>1 DEF JobsInv, JobsTypeOK, Stop, Tasks, ShutdownOrder
<1>2. \A k \in Jobs : Stopped(k) => Stopped(k)'
  BY DEF JobsInv, JobsTypeOK, Stop, Stopped
<1>3. StopInv'
  <2>1. CASE Stopped(j) /\ closing' = closing + 1 /\ UNCHANGED <<task, phase, open>>
    <3>1. \A i \in 1..(closing' - 1) : i = closing \/ i \in 1..(closing - 1)
      BY <1>0, <2>1
    <3>2. \A i \in 1..(closing - 1) : i \in 1..(closing' - 1)
      BY <1>0, <2>1
    <3> QED
      BY <1>0, <2>1, <3>1, <3>2 DEF JobsInv, StopInv, Stopped
  <2>2. CASE UNCHANGED <<closing, phase, open>>
    BY <1>0, <1>2, <2>2 DEF JobsInv, StopInv
  <2> QED
    BY <2>1, <2>2 DEF Stop, Stopped
<1>4. PauseInv'
  <2>0. "poller" \in Jobs
    BY DEF Jobs
  <2>1. UNCHANGED <<published, paused, pausedAt>> /\ (Scanning' => Scanning)
    BY <2>0 DEF JobsInv, JobsTypeOK, Stop, Scanning, Awaits, vars
  <2>2. published \in Nat /\ pausedAt \in Nat
    BY DEF JobsInv, JobsTypeOK, TypeOK
  <2> QED
    BY <2>1, <2>2 DEF JobsInv, PauseInv
<1> QED
  BY <1>1, <1>3, <1>4 DEF JobsInv

LEMMA CloseKeeps ==
  ASSUME JobsInv, NEW r \in Resources, Close(r), TypeOK' PROVE JobsInv'
<1>0. /\ phase = "stopping" /\ closing \in 1..10 /\ ShutdownOrder[closing] = r
      /\ closing = 10 <=> r = "db"
  BY Order, Places DEF JobsInv, JobsTypeOK, Close, At, Resources
<1>1. JobsTypeOK'
  <2>0. closing' \in 1..10
    BY <1>0 DEF Close
  <2>1. closing' \in DOMAIN ShutdownOrder
    BY <2>0, Order
  <2> QED
    BY <2>1 DEF JobsInv, JobsTypeOK, Close, ShutdownOrder
<1>2. r \notin Jobs
  BY DEF Resources, Jobs
<1>3. StopInv'
  <2>1. CASE r = "db"
    BY <1>0, <2>1 DEF JobsInv, StopInv, Close, Stopped
  <2>2. CASE r # "db"
    <3>1. \A i \in 1..(closing' - 1) : i = closing \/ i \in 1..(closing - 1)
      BY <1>0, <2>2 DEF Close
    <3>2. \A i \in 1..(closing - 1) : i \in 1..(closing' - 1)
      BY <1>0, <2>2 DEF Close
    <3>3. closing \in 1..(closing' - 1)
      BY <1>0, <2>2 DEF Close
    <3> QED
      BY <1>0, <1>2, <2>2, <3>1, <3>2, <3>3 DEF JobsInv, StopInv, Close, Stopped
  <2> QED
    BY <2>1, <2>2
<1>4. PauseInv'
  <2>1. UNCHANGED <<published, paused, pausedAt>> /\ (Scanning' <=> Scanning)
    BY DEF Close, Scanning, Awaits, vars
  <2> QED
    BY <2>1 DEF JobsInv, PauseInv
<1> QED
  BY <1>1, <1>3, <1>4 DEF JobsInv

(* The steps that stop no job and close nothing *)
LEMMA OtherJobStepsKeep ==
  ASSUME JobsInv, TypeOK',
         \/ \E j \in Jobs : Unwind(j) \/ OrphanEnds(j)
         \/ TogglePause \/ StopServing \/ BeginShutdown \/ UNCHANGED allVars
  PROVE  JobsInv'
<1>0. UNCHANGED <<closing, open, published>>
  BY DEF Unwind, OrphanEnds, TogglePause, StopServing, BeginShutdown, vars, allVars, jobVars
<1>1. JobsTypeOK'
  <2>1. phase' \in {"up", "draining", "stopping", "closed"} /\ paused' \in BOOLEAN
    BY DEF JobsInv, JobsTypeOK, Unwind, OrphanEnds, TogglePause, StopServing,
           BeginShutdown, allVars, jobVars
  <2>2. task' \in [Jobs -> Tasks] /\ thread' \in [Jobs -> Work]
    BY DEF JobsInv, JobsTypeOK, Unwind, OrphanEnds, TogglePause, StopServing,
           BeginShutdown, allVars, jobVars, Tasks, Work
  <2>3. pausedAt' \in Nat
    BY DEF JobsInv, JobsTypeOK, TypeOK, Unwind, OrphanEnds, TogglePause, StopServing,
           BeginShutdown, allVars, jobVars
  <2> QED
    BY <1>0, <2>1, <2>2, <2>3 DEF JobsInv, JobsTypeOK, ShutdownOrder
<1>2. \A k \in Jobs : Stopped(k) => Stopped(k)'
  BY DEF JobsInv, JobsTypeOK, Stopped, Unwind, OrphanEnds, TogglePause, StopServing,
         BeginShutdown, vars, allVars, jobVars
<1>3. /\ phase' \in {"up", "draining"} => phase \in {"up", "draining"}
      /\ phase' = "closed" <=> phase = "closed"
  BY DEF JobsInv, JobsTypeOK, Unwind, OrphanEnds, TogglePause, StopServing,
         BeginShutdown, vars, allVars, jobVars
<1>4. StopInv'
  BY <1>0, <1>2, <1>3 DEF JobsInv, StopInv
<1>5. Scanning' => Scanning
  BY DEF JobsInv, JobsTypeOK, Scanning, Awaits, Unwind, OrphanEnds, TogglePause,
         StopServing, BeginShutdown, vars, allVars, jobVars, Jobs
<1>6. \/ UNCHANGED <<paused, pausedAt>>
      \/ pausedAt' = published /\ TogglePause
  BY DEF Unwind, OrphanEnds, TogglePause, StopServing, BeginShutdown, vars, allVars, jobVars
<1>7. PauseInv'
  BY <1>0, <1>5, <1>6 DEF JobsInv, JobsTypeOK, TypeOK, PauseInv
<1> QED
  BY <1>1, <1>4, <1>7 DEF JobsInv

LEMMA JobsInductive == JobsInv /\ TypeOK' /\ [JobsNext]_allVars => JobsInv'
<1> SUFFICES ASSUME JobsInv, TypeOK', [JobsNext]_allVars PROVE JobsInv'
  OBVIOUS
<1> USE DEF Jobs, Work
<1>1. CASE StreamStep
  <2>1. UNCHANGED jobVars /\ published' = published
    BY <1>1 DEF StreamStep, Subscribe, Open, Take, Sent, Disconnect, Collected
  <2> QED
    BY <2>1, StreamStepKeeps
<1>2. CASE ShutdownStep
  BY <1>2, StopKeeps, CloseKeeps, OtherJobStepsKeep DEF ShutdownStep
<1>3. ASSUME NEW j \in Jobs, Wake(j) PROVE JobsInv'
  BY <1>3, LoopKeeps DEF Wake, vars
<1>4. ASSUME NEW b \in BOOLEAN, TestEnds(b) PROVE JobsInv'
  BY <1>4, LoopKeeps DEF TestEnds, Awaits, vars
<1>5. ASSUME NEW b \in BOOLEAN, HomeChecked(b) PROVE JobsInv'
  BY <1>5, LoopKeeps DEF HomeChecked, Awaits, vars
<1>6. CASE ScanEnds
  BY <1>6, LoopKeeps DEF ScanEnds, Scanning, Awaits, Publish
<1>7. CASE SnapshotEnds \/ InsightsEnd \/ ScanRaises
  BY <1>7, LoopKeeps DEF SnapshotEnds, InsightsEnd, ScanRaises, Awaits, vars
<1>8. CASE \/ \E j \in Jobs : OrphanEnds(j)
           \/ TogglePause \/ StopServing \/ BeginShutdown \/ UNCHANGED allVars
  BY <1>8, OtherJobStepsKeep
<1> QED
  BY <1>1, <1>2, <1>3, <1>4, <1>5, <1>6, <1>7, <1>8 DEF JobsNext

LEMMA JobsInvAlways == JobsSpec => []JobsInv
<1>1. JobsInv /\ TypeOK' /\ [JobsNext]_allVars => JobsInv'
  BY JobsInductive
<1> QED
  BY <1>1, JobsInitially, JobsImplementStream, StreamTypeCorrect, PTL DEF JobsSpec

(* A client is closed after the jobs that work through it are stopped. *)
LEMMA UsersBefore ==
  ASSUME NEW r \in Resources, NEW j \in Users(r), NEW i \in 1..10, ShutdownOrder[i] = r
  PROVE  \E k \in 1..(i - 1) : ShutdownOrder[k] = j
<1>1. CASE r = "deco client"
  <2>1. i = 6 /\ j = "poller"
    BY <1>1, Places DEF Users
  <2>2. 5 \in 1..(i - 1)
    BY <2>1
  <2> QED
    BY <2>1, <2>2, Order
<1>2. CASE r = "chester client"
  <2>1. i = 7 /\ j \in {"poller", "speedtest"}
    BY <1>2, Places DEF Users
  <2>2. 4 \in 1..(i - 1) /\ 5 \in 1..(i - 1)
    BY <2>1
  <2> QED
    BY <2>1, <2>2, Order
<1>3. CASE r = "hiboost client"
  <2>1. i = 9 /\ j = "hiboost"
    BY <1>3, Places DEF Users
  <2>2. 8 \in 1..(i - 1)
    BY <2>1
  <2> QED
    BY <2>1, <2>2, Order
<1>4. CASE r = "db"
  <2>1. i = 10 /\ j \in Jobs
    BY <1>4, Places DEF Users
  <2>2. /\ 1 \in 1..(i - 1) /\ 2 \in 1..(i - 1) /\ 3 \in 1..(i - 1)
        /\ 4 \in 1..(i - 1) /\ 5 \in 1..(i - 1) /\ 8 \in 1..(i - 1)
    BY <2>1
  <2> QED
    BY <2>1, <2>2, Order DEF Jobs
<1> QED
  BY <1>1, <1>2, <1>3, <1>4 DEF Resources

(* The shutdown closes a client, and the database, only when every task that
   works through it has ended, in whatever order tasks unwind.              *)
THEOREM UsersStopFirstAlways == JobsSpec => []UsersStopFirst
<1>1. JobsInv => UsersStopFirst
  <2> SUFFICES ASSUME JobsInv, NEW r \in Resources \ open, NEW j \in Users(r)
               PROVE  Stopped(j)
    BY DEF UsersStopFirst, Stopped
  <2> DEFINE after(i) == \A k \in 1..i : ShutdownOrder[k] \in Jobs => Stopped(ShutdownOrder[k])
  <2>1. closing \in 1..10 /\ after(closing - 1)
    BY Order DEF JobsInv, JobsTypeOK, StopInv
  <2>2. PICK i \in 1..10 : ShutdownOrder[i] = r /\ after(i - 1)
    <3>1. CASE phase = "closed" /\ r = "db"
      BY <2>1, <3>1, Order DEF JobsInv, StopInv
    <3>2. CASE \E i \in 1..(closing - 1) : ShutdownOrder[i] = r
      BY <2>1, <3>2
    <3> QED
      BY <3>1, <3>2 DEF JobsInv, StopInv
  <2>3. \E k \in 1..(i - 1) : ShutdownOrder[k] = j
    BY <2>2, UsersBefore
  <2>4. j \in Jobs
    BY DEF Users, Resources, Jobs
  <2> QED
    BY <2>2, <2>3, <2>4
<1> QED
  BY <1>1, JobsInvAlways, PTL

(* Whoever pauses the scans sees at most the one that was under way, however
   long its thread takes and whatever the home check says meanwhile.        *)
THEOREM PauseQuietsAlways == JobsSpec => []PauseQuiets
<1>1. JobsInv => PauseQuiets
  BY DEF JobsInv, JobsTypeOK, TypeOK, PauseInv, PauseQuiets
<1> QED
  BY <1>1, JobsInvAlways, PTL

=============================================================================
