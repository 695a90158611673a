----------------------------- MODULE EventStream -----------------------------
(***************************************************************************)
(* The push stream of src/backend/routes/sse.py: publish_event fans each   *)
(* device_update out to bounded queues, and each GET /api/sse/events drains*)
(* one queue through an async generator.  Every action runs on the event   *)
(* loop between two awaits.  The keepalives carry nothing and are left out.*)
(***************************************************************************)
EXTENDS Integers, Sequences

CONSTANTS
    Client,         \* requests for the stream
    Capacity,       \* maxsize of a queue, 100 in the code
    MaxPublished    \* bound: messages published

ASSUME CapacityAssumption == Capacity \in Nat \ {0} /\ MaxPublished \in Nat

VARIABLES
    subscribers,    \* _subscribers: the clients whose queue is listed
    queue,          \* the queue of each client; message n is the n-th published
    stream,         \* where the response of each client is
    sent,           \* messages sent to each client
    published,      \* messages published so far
    joined,         \* history: how many were published when the client joined
    left            \* history: how many when its response ended

vars == <<subscribers, queue, stream, sent, published, joined, left>>

Streams == {"none", "opening", "waiting", "sending", "cut", "closed"}

Init ==
    /\ subscribers = {}
    /\ queue  = [c \in Client |-> <<>>]
    /\ stream = [c \in Client |-> "none"]
    /\ sent   = [c \in Client |-> <<>>]
    /\ published = 0
    /\ joined = [c \in Client |-> 0]
    /\ left   = [c \in Client |-> 0]

(* sse_events: the queue is listed before the generator runs at all *)
Subscribe(c) ==
    /\ stream[c] = "none"
    /\ stream' = [stream EXCEPT ![c] = "opening"]
    /\ subscribers' = subscribers \cup {c}
    /\ joined' = [joined EXCEPT ![c] = published]
    /\ UNCHANGED <<queue, sent, published, left>>

(* _event_generator starts with the connected frame *)
Open(c) ==
    /\ stream[c] = "opening"
    /\ stream' = [stream EXCEPT ![c] = "sending"]
    /\ UNCHANGED <<subscribers, queue, sent, published, joined, left>>

(* Mutants of Publish: a full queue drops its oldest message instead; queues
   have no limit.                                                           *)
PublishDropOldest ==
    /\ published < MaxPublished /\ published' = published + 1
    /\ queue' = [c \in Client |->
                   IF c \notin subscribers THEN queue[c]
                   ELSE Append(IF Len(queue[c]) < Capacity THEN queue[c]
                               ELSE Tail(queue[c]), published')]
    /\ UNCHANGED <<subscribers, stream, sent, joined, left>>
PublishUnlimited ==
    /\ published < MaxPublished /\ published' = published + 1
    /\ queue' = [c \in Client |->
                   IF c \in subscribers THEN Append(queue[c], published')
                   ELSE queue[c]]
    /\ UNCHANGED <<subscribers, stream, sent, joined, left>>

(* publish_event: put_nowait to every listed queue, then the full ones are
   taken off the list.  The poller calls it after a scan.                   *)
Publish ==
    /\ published < MaxPublished /\ published' = published + 1
    /\ subscribers' = {c \in subscribers : Len(queue[c]) < Capacity}
    /\ queue' = [c \in Client |->
                   IF c \in subscribers' THEN Append(queue[c], published')
                   ELSE queue[c]]
    /\ UNCHANGED <<stream, sent, joined, left>>

(* Mutant of Take: the generator goes on only while its queue is listed. *)
TakeListed(c) ==
    /\ stream[c] = "waiting" /\ queue[c] # <<>> /\ c \in subscribers
    /\ stream' = [stream EXCEPT ![c] = "sending"]
    /\ sent'   = [sent EXCEPT ![c] = Append(@, Head(queue[c]))]
    /\ queue'  = [queue EXCEPT ![c] = Tail(@)]
    /\ UNCHANGED <<subscribers, published, joined, left>>

(* queue.get() returns; the generator yields the frame and is suspended until
   the client has it.                                                       *)
Take(c) ==
    /\ stream[c] = "waiting" /\ queue[c] # <<>>
    /\ stream' = [stream EXCEPT ![c] = "sending"]
    /\ sent'   = [sent EXCEPT ![c] = Append(@, Head(queue[c]))]
    /\ queue'  = [queue EXCEPT ![c] = Tail(@)]
    /\ UNCHANGED <<subscribers, published, joined, left>>

(* The frame is with the client: the loop goes round *)
Sent(c) ==
    /\ stream[c] = "sending"
    /\ stream' = [stream EXCEPT ![c] = "waiting"]
    /\ UNCHANGED <<subscribers, queue, sent, published, joined, left>>

(* The client goes away.  A generator that waits for its queue is cancelled
   there and runs its finally clause; one suspended in a yield runs it when
   it is collected; one that never started has none to run.                 *)
Disconnect(c) ==
    /\ stream[c] \in {"opening", "waiting", "sending"}
    /\ left' = [left EXCEPT ![c] = published]
    /\ stream' = [stream EXCEPT ![c] = IF @ = "sending" THEN "cut" ELSE "closed"]
    /\ subscribers' = IF stream[c] = "waiting" THEN subscribers \ {c}
                                               ELSE subscribers
    /\ UNCHANGED <<queue, sent, published, joined>>

(* The finally clause of a generator that was suspended in a yield *)
Collected(c) ==
    /\ stream[c] = "cut"
    /\ stream' = [stream EXCEPT ![c] = "closed"]
    /\ subscribers' = subscribers \ {c}
    /\ UNCHANGED <<queue, sent, published, joined, left>>

Next ==
    \/ Publish
    \/ \E c \in Client : \/ Subscribe(c) \/ Open(c) \/ Take(c) \/ Sent(c)
                         \/ Disconnect(c) \/ Collected(c)

Spec == Init /\ [][Next]_vars

(* The loop runs every generator that can go on, and a client that stays
   reads what it is sent.                                                   *)
FairSpec ==
    Spec /\ \A c \in Client : WF_vars(Open(c)) /\ WF_vars(Take(c)) /\ WF_vars(Sent(c))

-----------------------------------------------------------------------------
(* Properties *)

Gone(c) == stream[c] \in {"cut", "closed"}

TypeOK ==
    /\ subscribers \subseteq Client
    /\ queue \in [Client -> Seq(Nat)] /\ sent \in [Client -> Seq(Nat)]
    /\ \A c \in Client : Len(queue[c]) <= Capacity
    /\ stream \in [Client -> Streams]
    /\ published \in Nat
    /\ joined \in [Client -> Nat] /\ left \in [Client -> Nat]

(* Nobody sees a gap: what a client was sent and what still waits for it are
   the messages since it joined, in the order they were published and each
   once; and they are all of them as long as the client is listed.          *)
Gapless ==
    \A c \in Client :
        LET all == sent[c] \o queue[c] IN
        /\ \A i \in 1..Len(all) : all[i] = joined[c] + i
        /\ c \in subscribers => joined[c] + Len(all) = published

(* A subscription whose response ended without the finally clause does not
   stay: after Capacity more messages it is off the list at the latest.     *)
AbandonedBounded ==
    \A c \in subscribers : Gone(c) => published - left[c] <= Capacity

(* Every message that reached a queue is sent unless the client leaves, also
   when publish_event has taken the queue off the list meanwhile.           *)
Delivered ==
    \A c \in Client, n \in 1..MaxPublished :
        (\E i \in 1..Len(queue[c]) : queue[c][i] = n)
            ~> (Gone(c) \/ \E i \in 1..Len(sent[c]) : sent[c][i] = n)

=============================================================================
