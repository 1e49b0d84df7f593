------------------------------ MODULE Publisher ------------------------------
(***************************************************************************)
(* rabbitmq_integration::Publisher: messages go to the broker while the    *)
(* publisher is connected and to a bounded local queue while it is not;    *)
(* the queue is drained when the connection comes back and when the        *)
(* operator resumes publishing.  Callers run in threads of their own (the  *)
(* asynchronous publishing thread is one), and so do the operator and the  *)
(* connection, whose state change is a callback.  connected_, the pause    *)
(* and the switch of the local queue are atomics that are read again and   *)
(* again; the local queue has a mutex, which is not recursive.             *)
(***************************************************************************)
EXTENDS Naturals, Sequences

CONSTANTS
  Callers,          (* threads that publish                                  *)
  Messages,         (* messages, each accepted at most once                  *)
  Batches,          (* lists of messages that publishBatch is called with    *)
  QueueSize,        (* config_.localQueueSize                                *)
  UseTransactions   (* config_.useTransactions                               *)

Contents(q) == {q[i] : i \in DOMAIN q}
NoRepeats(q) == \A i, j \in DOMAIN q : q[i] = q[j] => i = j

ASSUME PublisherAssumption ==
  /\ Batches \subseteq Seq(Messages)
  /\ \A b \in Batches : NoRepeats(b)
  /\ QueueSize \in Nat
  /\ UseTransactions \in BOOLEAN

(* The threads that drain the local queue. *)
Drainers == {"operator", "connection"}
Nobody == "nobody"

VARIABLES
  connected,     (* connected_                                               *)
  paused,        (* publishingPaused_                                        *)
  enabled,       (* localQueueEnabled_                                       *)
  transaction,   (* transactionActive_                                       *)
  queue,         (* localQueue_                                              *)
  size,          (* localQueueSize_, the counter beside it                   *)
  owner,         (* the drainer that holds localQueueMutex_, or Nobody       *)
  pc,            (* pc[c]: what caller c does next                           *)
  todo,          (* todo[c]: messages of its call not yet accepted           *)
  batch,         (* batch[c]: the call is a publishBatch                     *)
  drain,         (* drain[x]: what drainer x does next                       *)
  hand,          (* hand[x]: the message it has popped, in a sequence        *)
  accepted,      (* history: messages that publish returned true for         *)
  sent,          (* history: sent[m] is how often m went to the broker       *)
  cleared,       (* history: messages that clearLocalQueue dropped           *)
  missed         (* history: queued messages that the drain of the last      *)
                 (* reconnect need not take: they were queued while          *)
                 (* connected_ was true, left because the queue was          *)
                 (* disabled, or found by initializeConnection, which drains *)
                 (* nothing                                                  *)

flags == <<connected, paused, enabled>>
calls == <<pc, todo, batch>>
drains == <<drain, hand>>
history == <<accepted, sent, cleared, missed>>
local == <<queue, size>>
vars == <<flags, transaction, local, owner, calls, drains, history>>

Init ==
  /\ connected = FALSE /\ paused = FALSE /\ enabled = TRUE
  /\ transaction = FALSE
  /\ queue = <<>> /\ size = 0 /\ owner = Nobody
  /\ pc = [c \in Callers |-> "idle"]
  /\ todo = [c \in Callers |-> <<>>]
  /\ batch = [c \in Callers |-> FALSE]
  /\ drain = [x \in Drainers |-> "idle"]
  /\ hand = [x \in Drainers |-> <<>>]
  /\ accepted = {} /\ cleared = {} /\ missed = {}
  /\ sent = [m \in Messages |-> 0]
-----------------------------------------------------------------------------
(* publish and publishBatch.  A call that finds publishing paused changes   *)
(* nothing.                                                                 *)

(* Messages that may be offered: a caller tries again only what was refused.*)
Offered == Messages \ (accepted \cup UNION {Contents(todo[c]) : c \in Callers})

Publish(c, m) ==
  /\ pc[c] = "idle" /\ ~paused /\ m \in Offered
  /\ pc' = [pc EXCEPT ![c] = "publishing"]
  /\ todo' = [todo EXCEPT ![c] = <<m>>]
  /\ batch' = [batch EXCEPT ![c] = FALSE]
  /\ UNCHANGED <<flags, transaction, local, owner, drains, history>>

PublishBatch(c, b) ==
  /\ pc[c] = "idle" /\ ~paused /\ Contents(b) \subseteq Offered
  /\ pc' = [pc EXCEPT ![c] = IF UseTransactions THEN "begin" ELSE "next"]
  /\ todo' = [todo EXCEPT ![c] = b]
  /\ batch' = [batch EXCEPT ![c] = TRUE]
  /\ UNCHANGED <<flags, transaction, local, owner, drains, history>>

(* The result of beginTransaction is not looked at. *)
BeginTransaction(c) ==
  /\ pc[c] = "begin"
  /\ transaction' = (transaction \/ connected)
  /\ pc' = [pc EXCEPT ![c] = "next"]
  /\ UNCHANGED <<flags, local, owner, todo, batch, drains, history>>

AfterBatch == IF UseTransactions THEN "end" ELSE "idle"

(* The call's current publish returns false. *)
Refuse(c) ==
  /\ todo' = [todo EXCEPT ![c] = <<>>]
  /\ pc' = [pc EXCEPT ![c] = IF batch[c] THEN AfterBatch ELSE "idle"]
  /\ UNCHANGED accepted

(* It returns true. *)
Accept(c) ==
  /\ accepted' = accepted \cup {Head(todo[c])}
  /\ todo' = [todo EXCEPT ![c] = Tail(@)]
  /\ pc' = [pc EXCEPT ![c] = IF batch[c] THEN "next" ELSE "idle"]

(* The batch goes on to its next message, which may be invalid. *)
NextMessage(c) ==
  /\ pc[c] = "next"
  /\ \/ todo[c] = <<>> /\ pc' = [pc EXCEPT ![c] = AfterBatch] /\ UNCHANGED <<todo, accepted>>
     \/ todo[c] # <<>> /\ Refuse(c)
     \/ /\ todo[c] # <<>> /\ ~paused
        /\ pc' = [pc EXCEPT ![c] = "publishing"]
        /\ UNCHANGED <<todo, accepted>>
  /\ UNCHANGED <<flags, transaction, local, owner, batch, drains, sent, cleared, missed>>

(* commitTransaction and rollbackTransaction: either ends whatever          *)
(* transaction is active, and takes back no message.                        *)
EndTransaction(c) ==
  /\ pc[c] = "end"
  /\ transaction' = FALSE
  /\ pc' = [pc EXCEPT ![c] = "idle"]
  /\ UNCHANGED <<flags, local, owner, todo, batch, drains, history>>

(* publishInternal: connected, the message is with the broker. *)
PublishInternal(c) ==
  /\ pc[c] = "publishing"
  /\ \/ connected /\ Accept(c) /\ sent' = [sent EXCEPT ![Head(todo[c])] = @ + 1]
     \/ ~connected /\ pc' = [pc EXCEPT ![c] = "unconnected"] /\ UNCHANGED <<todo, accepted, sent>>
  /\ UNCHANGED <<flags, transaction, local, owner, batch, drains, cleared, missed>>

TestLocalQueue(c) ==
  /\ pc[c] = "unconnected"
  /\ \/ enabled /\ pc' = [pc EXCEPT ![c] = "queueing"] /\ UNCHANGED <<todo, accepted>>
     \/ ~enabled /\ Refuse(c)
  /\ UNCHANGED <<flags, transaction, local, owner, batch, drains, sent, cleared, missed>>

(* Mutant: a full queue swallows the message. *)
QueueOverflows(c) ==
  /\ pc[c] = "queueing" /\ owner = Nobody
  /\ Accept(c)
  /\ queue' = IF Len(queue) < QueueSize THEN Append(queue, Head(todo[c])) ELSE queue
  /\ size' = Len(queue')
  /\ missed' = missed \cup {m \in {Head(todo[c])} : connected}
  /\ UNCHANGED <<flags, transaction, owner, batch, drains, sent, cleared>>

PublishToLocal(c) ==
  /\ pc[c] = "queueing" /\ owner = Nobody
  /\ \/ /\ Len(queue) >= QueueSize /\ Refuse(c)
        /\ UNCHANGED <<local, missed>>
     \/ /\ Len(queue) < QueueSize /\ Accept(c)
        /\ queue' = Append(queue, Head(todo[c]))
        /\ size' = size + 1
        /\ missed' = missed \cup {m \in {Head(todo[c])} : connected}
  /\ UNCHANGED <<flags, transaction, owner, batch, drains, sent, cleared>>
-----------------------------------------------------------------------------
(* Operation.  Any thread may pause publishing, switch the local queue on   *)
(* or off and clear it, at any time; the operator resumes publishing, and   *)
(* its thread then drains the queue.                                        *)

PausePublishing ==
  /\ paused' = TRUE
  /\ UNCHANGED <<connected, enabled, transaction, local, owner, calls, drains, history>>

ResumePublishing ==
  /\ drain["operator"] = "idle"
  /\ paused' = FALSE
  /\ drain' = [drain EXCEPT !["operator"] = "asked"]
  /\ UNCHANGED <<connected, enabled, transaction, local, owner, calls, hand, history>>

EnableLocalQueue ==
  /\ enabled' = ~enabled
  /\ UNCHANGED <<connected, paused, transaction, local, owner, calls, drains, history>>

ClearLocalQueue ==
  /\ owner = Nobody
  /\ queue' = <<>> /\ size' = 0 /\ missed' = {}
  /\ cleared' = cleared \cup Contents(queue)
  /\ UNCHANGED <<flags, transaction, owner, calls, drains, accepted, sent>>

(* Mutant: the connection comes back and the queue is not drained. *)
ChangeWithoutDrain(up) ==
  /\ drain["connection"] = "idle"
  /\ connected' = up /\ missed' = {}
  /\ UNCHANGED <<paused, enabled, transaction, local, owner, calls, drains, accepted, sent, cleared>>

(* onConnectionStateChanged. *)
ConnectionStateChanged(up) ==
  /\ drain["connection"] = "idle"
  /\ connected' = up /\ missed' = {}
  /\ drain' = [drain EXCEPT !["connection"] = IF up THEN "asked" ELSE "idle"]
  /\ UNCHANGED <<paused, enabled, transaction, local, owner, calls, hand, accepted, sent, cleared>>

(* initializeConnection: the other writer of connected_ drains nothing, and *)
(* leaves connected_ true when it gets no channel.  Were connected_ true    *)
(* already, it would change nothing here.                                   *)
InitializeConnection ==
  /\ ~connected
  /\ connected' = TRUE /\ missed' = Contents(queue)
  /\ UNCHANGED <<paused, enabled, transaction, local, owner, calls, drains, accepted, sent, cleared>>
-----------------------------------------------------------------------------
(* processLocalQueue. *)

StartDrain(x) ==
  /\ drain[x] = "asked"
  /\ drain' = [drain EXCEPT ![x] = IF connected /\ enabled THEN "locking" ELSE "idle"]
  /\ missed' = IF connected /\ ~enabled THEN Contents(queue) ELSE missed
  /\ UNCHANGED <<flags, transaction, local, owner, calls, hand, accepted, sent, cleared>>

Lock(x) ==
  /\ drain[x] = "locking" /\ owner = Nobody
  /\ owner' = x
  /\ drain' = [drain EXCEPT ![x] = "looping"]
  /\ UNCHANGED <<flags, transaction, local, calls, hand, history>>

(* Mutant: a drain that finds the queue empty keeps the mutex. *)
FinishLocked(x) ==
  /\ drain[x] = "looping" /\ queue = <<>>
  /\ drain' = [drain EXCEPT ![x] = "idle"]
  /\ UNCHANGED <<flags, transaction, local, owner, calls, hand, history>>

Finish(x) ==
  /\ drain[x] = "looping" /\ queue = <<>>
  /\ owner' = Nobody
  /\ drain' = [drain EXCEPT ![x] = "idle"]
  /\ UNCHANGED <<flags, transaction, local, calls, hand, history>>

(* Mutant: the mutex is released while the message is sent. *)
TakeUnlocked(x) ==
  /\ drain[x] = "looping" /\ queue # <<>>
  /\ hand' = [hand EXCEPT ![x] = <<Head(queue)>>]
  /\ queue' = Tail(queue) /\ missed' = missed \ {Head(queue)}
  /\ size' = size - 1
  /\ owner' = Nobody
  /\ drain' = [drain EXCEPT ![x] = "republishing"]
  /\ UNCHANGED <<flags, transaction, calls, accepted, sent, cleared>>

Take(x) ==
  /\ drain[x] = "looping" /\ queue # <<>>
  /\ hand' = [hand EXCEPT ![x] = <<Head(queue)>>]
  /\ queue' = Tail(queue) /\ missed' = missed \ {Head(queue)}
  /\ size' = size - 1
  /\ drain' = [drain EXCEPT ![x] = "republishing"]
  /\ UNCHANGED <<flags, transaction, owner, calls, accepted, sent, cleared>>

(* publishInternal once more, with the mutex held. *)
Republish(x) ==
  /\ drain[x] = "republishing"
  /\ \/ /\ connected
        /\ sent' = [sent EXCEPT ![Head(hand[x])] = @ + 1]
        /\ hand' = [hand EXCEPT ![x] = <<>>]
        /\ drain' = [drain EXCEPT ![x] = "looping"]
     \/ /\ ~connected
        /\ drain' = [drain EXCEPT ![x] = "unconnected"]
        /\ UNCHANGED <<sent, hand>>
  /\ UNCHANGED <<flags, transaction, local, owner, calls, accepted, cleared, missed>>

(* Mutant: the message that could not be sent is not put back. *)
PutNothingBack(x) ==
  /\ drain[x] = "unconnected" /\ ~enabled
  /\ hand' = [hand EXCEPT ![x] = <<>>]
  /\ missed' = Contents(queue)
  /\ owner' = Nobody
  /\ drain' = [drain EXCEPT ![x] = "idle"]
  /\ UNCHANGED <<flags, transaction, local, calls, accepted, sent, cleared>>

(* The queue is disabled: publishInternal returns false, the message goes   *)
(* back to the queue, at its other end, and the drain is over.              *)
PutBack(x) ==
  /\ drain[x] = "unconnected" /\ ~enabled
  /\ queue' = Append(queue, Head(hand[x]))
  /\ size' = size + 1
  /\ hand' = [hand EXCEPT ![x] = <<>>]
  /\ missed' = Contents(queue')
  /\ owner' = Nobody
  /\ drain' = [drain EXCEPT ![x] = "idle"]
  /\ UNCHANGED <<flags, transaction, calls, accepted, sent, cleared>>

(* The queue is enabled: publishToLocal locks the mutex that x holds.       *)
LockAgain(x) ==
  /\ drain[x] = "unconnected" /\ enabled
  /\ drain' = [drain EXCEPT ![x] = "stuck"]
  /\ UNCHANGED <<flags, transaction, local, owner, calls, hand, history>>
-----------------------------------------------------------------------------
Advance(c) ==
  \/ BeginTransaction(c) \/ NextMessage(c) \/ EndTransaction(c)
  \/ PublishInternal(c) \/ TestLocalQueue(c) \/ PublishToLocal(c)

Drain(x) ==
  StartDrain(x) \/ Lock(x) \/ Finish(x) \/ Take(x) \/ Republish(x) \/ PutBack(x) \/ LockAgain(x)

Operator == PausePublishing \/ ResumePublishing \/ EnableLocalQueue \/ ClearLocalQueue

Connection == InitializeConnection \/ \E up \in BOOLEAN : ConnectionStateChanged(up)

Next ==
  \/ \E c \in Callers :
       \/ \E m \in Messages : Publish(c, m)
       \/ \E b \in Batches : PublishBatch(c, b)
       \/ Advance(c)
  \/ Connection
  \/ \E x \in Drainers : Drain(x)
  \/ Operator

Spec == Init /\ [][Next]_vars

(* Calls and drains go on, and the mutex is handed to those who wait for    *)
(* it, however often others take it in between.                             *)
CallerFairness(c) == WF_vars(Advance(c)) /\ SF_vars(PublishToLocal(c))
DrainFairness(x) == WF_vars(Drain(x)) /\ SF_vars(Lock(x))

FairSpec ==
  /\ Spec
  /\ \A c \in Callers : CallerFairness(c)
  /\ \A x \in Drainers : DrainFairness(x)
-----------------------------------------------------------------------------
Places == {"idle", "begin", "next", "publishing", "unconnected", "queueing", "end"}
DrainPlaces ==
  {"idle", "asked", "locking", "looping", "republishing", "unconnected", "stuck"}

TypeOK ==
  /\ connected \in BOOLEAN /\ paused \in BOOLEAN /\ enabled \in BOOLEAN
  /\ transaction \in BOOLEAN
  /\ queue \in Seq(Messages) /\ size \in Nat
  /\ owner \in Drainers \cup {Nobody}
  /\ pc \in [Callers -> Places]
  /\ todo \in [Callers -> Seq(Messages)]
  /\ batch \in [Callers -> BOOLEAN]
  /\ drain \in [Drainers -> DrainPlaces]
  /\ hand \in [Drainers -> Seq(Messages)]
  /\ accepted \subseteq Messages /\ cleared \subseteq Messages
  /\ missed \subseteq Messages
  /\ sent \in [Messages -> Nat]

(* Whatever connects, disconnects, pauses and drains at once, a message     *)
(* that publish returned true for is in exactly one place: with the broker, *)
(* once; in the local queue, once; in the hand of the thread that drains    *)
(* it; or dropped by clearLocalQueue.  One that was refused is nowhere.     *)
Queued == Contents(queue)
InHand == UNION {Contents(hand[x]) : x \in Drainers}
Sent == {m \in Messages : sent[m] > 0}
AcceptedIsKept ==
  /\ accepted = Sent \cup Queued \cup InHand \cup cleared
  /\ \A m \in Messages : sent[m] <= 1
  /\ NoRepeats(queue)
  /\ Sent \cap (Queued \cup InHand \cup cleared) = {}
  /\ Queued \cap (InHand \cup cleared) = {}
  /\ InHand \cap cleared = {}

(* The queue, with a message that a drain may put back, never exceeds       *)
(* localQueueSize, and the counter that callers are told is right.          *)
QueueBounded ==
  /\ \A x \in Drainers : Len(queue) + Len(hand[x]) <= QueueSize
  /\ size = Len(queue)

(* When onConnectionStateChanged has connected the publisher and the drain  *)
(* it started is over, the local queue holds no message but those put there *)
(* after the reconnect, by a caller that had found the publisher            *)
(* unconnected before, and those that a drain had to leave because the      *)
(* queue was disabled.  A connection made by initializeConnection is no     *)
(* such reconnect: what it found in the queue stays there.                  *)
NothingStranded ==
  connected /\ drain["connection"] = "idle" => Queued \subseteq missed

(* The publisher implements Outbox, where what it keeps is the queue and    *)
(* the message in the hand of a drain: between the queue, the drains, the   *)
(* callers and a clear no accepted message leaves it in any other way.      *)
Box == INSTANCE Outbox
         WITH kept <- Queued \cup InHand, out <- sent, dropped <- cleared
ImplementsOutbox == Box!Spec

(* A call that does not wait for the mutex can go on, and so can a drain;   *)
(* one that waits can go on when nobody has it.                             *)
Working(c) == pc[c] \notin {"idle", "queueing"}
Draining(x) == drain[x] \notin {"idle", "locking", "stuck"}
CallsGoOn ==
  /\ \A c \in Callers : Working(c) => ENABLED <<Advance(c)>>_vars
  /\ \A c \in Callers :
       pc[c] = "queueing" /\ owner = Nobody => ENABLED <<PublishToLocal(c)>>_vars
  /\ \A x \in Drainers : Draining(x) => ENABLED <<Drain(x)>>_vars

(* No call hangs, and the mutex is free time and again, unless a drain has  *)
(* locked itself out.                                                       *)
LockedOut == \E x \in Drainers : drain[x] = "stuck"
CallReturns ==
  /\ []CallsGoOn
  /\ []<>(owner = Nobody \/ LockedOut)
  /\ \A c \in Callers : pc[c] # "idle" ~> pc[c] = "idle" \/ LockedOut
=============================================================================
