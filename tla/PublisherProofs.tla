---------------------------- MODULE PublisherProofs ----------------------------
(***************************************************************************)
(* The safety of the publisher's local queue for any number of callers,    *)
(* messages and batches and any size of the queue, and the way of its      *)
(* drains and calls to their end.                                          *)
(***************************************************************************)
EXTENDS Publisher, TLAPS

(* A drain holds the mutex from Lock to its end, and a message from Take to *)
(* the broker or back to the queue.                                         *)
Carrying == {"republishing", "unconnected", "stuck"}
OwnerDrains ==
  \A x \in Drainers : drain[x] \in Carrying \cup {"looping"} <=> owner = x
HandIsFull ==
  \A x \in Drainers : Len(hand[x]) = IF drain[x] \in Carrying THEN 1 ELSE 0

(* A call that publishes has a message to publish. *)
HasMessage ==
  \A c \in Callers : pc[c] \in {"publishing", "unconnected", "queueing"} => todo[c] # <<>>

SizeIsRight == size = Len(queue)

Typed == TypeOK /\ OwnerDrains /\ HandIsFull /\ HasMessage /\ SizeIsRight
-----------------------------------------------------------------------------
(* Sequences as the queue and the calls use them. *)

LEMMA HeadAndTail ==
  ASSUME NEW S, NEW q \in Seq(S), q # <<>>
  PROVE  /\ Head(q) \in S /\ Tail(q) \in Seq(S)
         /\ Len(q) >= 1 /\ Len(Tail(q)) = Len(q) - 1
         /\ Contents(q) = {Head(q)} \cup Contents(Tail(q))
         /\ NoRepeats(q) => NoRepeats(Tail(q)) /\ Head(q) \notin Contents(Tail(q))
<1>1. Len(q) \in Nat /\ Len(q) >= 1 /\ DOMAIN q = 1..Len(q)
  OBVIOUS
<1>2. Head(q) = q[1] /\ Head(q) \in S /\ Tail(q) \in Seq(S) /\ Len(Tail(q)) = Len(q) - 1
  OBVIOUS
<1>3. DOMAIN Tail(q) = 1..(Len(q) - 1)
  BY <1>2
<1>4. \A i \in 1..(Len(q) - 1) : Tail(q)[i] = q[i + 1]
  OBVIOUS
<1>5. Contents(q) \subseteq {Head(q)} \cup Contents(Tail(q))
  <2>1. SUFFICES ASSUME NEW i \in 1..Len(q), i # 1
                 PROVE  q[i] \in Contents(Tail(q))
    BY <1>1, <1>2 DEF Contents
  <2>2. i - 1 \in 1..(Len(q) - 1) /\ (i - 1) + 1 = i
    BY <2>1, <1>1
  <2>3. Tail(q)[i - 1] = q[(i - 1) + 1]
    BY <2>2, <1>4
  <2>4. QED
    BY <2>2, <2>3, <1>3 DEF Contents
<1>6. {Head(q)} \cup Contents(Tail(q)) \subseteq Contents(q)
  <2>1. \A i \in 1..(Len(q) - 1) : Tail(q)[i] \in Contents(q)
    <3>1. TAKE i \in 1..(Len(q) - 1)
    <3>2. i + 1 \in 1..Len(q)
      BY <1>1
    <3>3. QED
      BY <3>2, <1>1, <1>4 DEF Contents
  <2>2. QED
    BY <2>1, <1>1, <1>2, <1>3 DEF Contents
<1>7. ASSUME NoRepeats(q)
      PROVE  NoRepeats(Tail(q)) /\ Head(q) \notin Contents(Tail(q))
  <2>1. \A i, j \in 1..Len(q) : q[i] = q[j] => i = j
    BY <1>1, <1>7 DEF NoRepeats
  <2>2. \A i \in 1..(Len(q) - 1) : i + 1 \in 1..Len(q) /\ i + 1 # 1
    BY <1>1
  <2>3. \A i, j \in 1..(Len(q) - 1) : i + 1 = j + 1 => i = j
    BY <1>1
  <2>4. NoRepeats(Tail(q))
    BY <2>1, <2>2, <2>3, <1>3, <1>4 DEF NoRepeats
  <2>5. 1 \in 1..Len(q)
    BY <1>1
  <2>6. \A i \in 1..(Len(q) - 1) : Tail(q)[i] # q[1]
    BY <2>1, <2>2, <2>5, <1>4
  <2>7. QED
    BY <2>4, <2>6, <1>2, <1>3 DEF Contents
<1>8. QED
  BY <1>1, <1>2, <1>5, <1>6, <1>7

LEMMA AddLast ==
  ASSUME NEW S, NEW q \in Seq(S), NEW e \in S
  PROVE  /\ Append(q, e) \in Seq(S) /\ Len(Append(q, e)) = Len(q) + 1
         /\ Contents(Append(q, e)) = Contents(q) \cup {e}
         /\ NoRepeats(q) /\ e \notin Contents(q) => NoRepeats(Append(q, e))
<1>1. Len(q) \in Nat /\ DOMAIN q = 1..Len(q)
  OBVIOUS
<1>2. Append(q, e) \in Seq(S) /\ Len(Append(q, e)) = Len(q) + 1
  OBVIOUS
<1>3. DOMAIN Append(q, e) = 1..(Len(q) + 1)
  BY <1>2
<1>4. Append(q, e)[Len(q) + 1] = e
  OBVIOUS
<1>5. \A i \in 1..Len(q) : Append(q, e)[i] = q[i]
  OBVIOUS
<1>6. 1..(Len(q) + 1) = 1..Len(q) \cup {Len(q) + 1}
  BY <1>1
<1>7. Contents(Append(q, e)) = Contents(q) \cup {e}
  BY <1>1, <1>3, <1>4, <1>5, <1>6 DEF Contents
<1>8. ASSUME NoRepeats(q), e \notin Contents(q)
      PROVE  NoRepeats(Append(q, e))
  <2>1. \A i \in 1..Len(q) : Append(q, e)[i] # e
    BY <1>1, <1>5, <1>8 DEF Contents
  <2>2. \A i, j \in 1..Len(q) : Append(q, e)[i] = Append(q, e)[j] => i = j
    BY <1>1, <1>5, <1>8 DEF NoRepeats
  <2>3. QED
    BY <2>1, <2>2, <1>3, <1>4, <1>6 DEF NoRepeats
<1>9. QED
  BY <1>2, <1>7, <1>8

LEMMA One ==
  ASSUME NEW S, NEW m \in S
  PROVE  /\ <<m>> \in Seq(S) /\ Len(<<m>>) = 1 /\ <<m>> # <<>> /\ Head(<<m>>) = m
         /\ Contents(<<m>>) = {m} /\ NoRepeats(<<m>>)
<1>1. <<m>> \in Seq(S) /\ Len(<<m>>) = 1 /\ <<m>> # <<>> /\ Head(<<m>>) = m
  OBVIOUS
<1>2. DOMAIN <<m>> = {1} /\ <<m>>[1] = m
  OBVIOUS
<1>3. QED
  BY <1>1, <1>2 DEF Contents, NoRepeats

LEMMA Nothing == Contents(<<>>) = {} /\ NoRepeats(<<>>) /\ Len(<<>>) = 0
  BY DEF Contents, NoRepeats

LEMMA OnlyElement ==
  ASSUME NEW S, NEW q \in Seq(S), Len(q) = 1
  PROVE  q # <<>> /\ Head(q) \in S /\ Contents(q) = {Head(q)}
<1>1. DOMAIN q = {1} /\ q # <<>> /\ Head(q) = q[1] /\ Head(q) \in S
  OBVIOUS
<1>2. QED
  BY <1>1 DEF Contents
-----------------------------------------------------------------------------
(* Types. *)

LEMMA NobodyIsNoDrainer == Nobody \notin Drainers
  BY DEF Nobody, Drainers

(* The end of a call's current publish. *)
LEMMA RefuseTyped ==
  ASSUME Typed, NEW c \in Callers, Refuse(c), pc[c] \in Places
  PROVE  /\ pc' \in [Callers -> Places] /\ todo' \in [Callers -> Seq(Messages)]
         /\ accepted' = accepted /\ HasMessage'
<1>1. pc' \in [Callers -> Places] /\ todo' \in [Callers -> Seq(Messages)] /\ accepted' = accepted
  BY DEF Typed, TypeOK, Refuse, AfterBatch, Places
<1>2. HasMessage'
  BY DEF Typed, TypeOK, HasMessage, Refuse, AfterBatch
<1>3. QED
  BY <1>1, <1>2

LEMMA AcceptTyped ==
  ASSUME Typed, NEW c \in Callers, Accept(c), todo[c] # <<>>
  PROVE  /\ pc' \in [Callers -> Places] /\ todo' \in [Callers -> Seq(Messages)]
         /\ accepted' \subseteq Messages /\ Head(todo[c]) \in Messages /\ HasMessage'
<1>1. todo[c] \in Seq(Messages)
  BY DEF Typed, TypeOK
<1>2. Head(todo[c]) \in Messages /\ Tail(todo[c]) \in Seq(Messages)
  BY <1>1, HeadAndTail
<1>3. pc' \in [Callers -> Places] /\ todo' \in [Callers -> Seq(Messages)] /\ accepted' \subseteq Messages
  BY <1>2 DEF Typed, TypeOK, Accept, Places
<1>4. HasMessage'
  BY DEF Typed, TypeOK, HasMessage, Accept
<1>5. QED
  BY <1>2, <1>3, <1>4

LEMMA CallTyped ==
  ASSUME PublisherAssumption, Typed, NEW c \in Callers,
         \/ \E m \in Messages : Publish(c, m)
         \/ \E b \in Batches : PublishBatch(c, b)
         \/ Advance(c)
  PROVE  Typed'
<1> USE DEF OwnerDrains, HandIsFull, SizeIsRight, flags, local, drains, history
<1>1. ASSUME NEW m \in Messages, Publish(c, m) PROVE Typed'
  <2>1. <<m>> \in Seq(Messages) /\ <<m>> # <<>>
    BY One
  <2>2. TypeOK'
    BY <1>1, <2>1 DEF Typed, TypeOK, Publish, Places
  <2>3. HasMessage'
    BY <1>1, <2>1 DEF Typed, TypeOK, HasMessage, Publish
  <2>4. QED
    BY <1>1, <2>2, <2>3 DEF Typed, Publish
<1>2. ASSUME NEW b \in Batches, PublishBatch(c, b) PROVE Typed'
  <2>1. b \in Seq(Messages)
    BY DEF PublisherAssumption
  <2>2. TypeOK'
    BY <1>2, <2>1 DEF Typed, TypeOK, PublishBatch, Places
  <2>3. HasMessage'
    BY <1>2 DEF Typed, TypeOK, HasMessage, PublishBatch
  <2>4. QED
    BY <1>2, <2>2, <2>3 DEF Typed, PublishBatch
<1>3. ASSUME BeginTransaction(c) \/ EndTransaction(c) PROVE Typed'
  <2>1. TypeOK'
    BY <1>3 DEF Typed, TypeOK, BeginTransaction, EndTransaction, Places
  <2>2. HasMessage'
    BY <1>3 DEF Typed, TypeOK, HasMessage, BeginTransaction, EndTransaction
  <2>3. QED
    BY <1>3, <2>1, <2>2 DEF Typed, BeginTransaction, EndTransaction
<1>4. CASE NextMessage(c)
  <2>1. pc[c] \in Places
    BY DEF Typed, TypeOK
  <2>2. CASE Refuse(c)
    BY <1>4, <2>1, <2>2, RefuseTyped DEF Typed, TypeOK, NextMessage
  <2>3. CASE ~Refuse(c)
    <3>1. TypeOK'
      BY <1>4, <2>3 DEF Typed, TypeOK, NextMessage, AfterBatch, Places
    <3>2. HasMessage'
      BY <1>4, <2>3 DEF Typed, TypeOK, HasMessage, NextMessage, AfterBatch
    <3>3. QED
      BY <1>4, <3>1, <3>2 DEF Typed, NextMessage
  <2>4. QED
    BY <2>2, <2>3
<1>5. CASE PublishInternal(c)
  <2>1. todo[c] # <<>>
    BY <1>5 DEF Typed, HasMessage, PublishInternal
  <2>2. CASE Accept(c) /\ sent' = [sent EXCEPT ![Head(todo[c])] = @ + 1]
    <3>1. Head(todo[c]) \in Messages
      BY <2>1, <2>2, AcceptTyped
    <3>2. sent' \in [Messages -> Nat]
      BY <2>2, <3>1 DEF Typed, TypeOK
    <3>3. QED
      BY <1>5, <2>1, <2>2, <3>2, AcceptTyped DEF Typed, TypeOK, PublishInternal
  <2>3. CASE pc' = [pc EXCEPT ![c] = "unconnected"] /\ UNCHANGED <<todo, accepted, sent>>
    <3>1. TypeOK'
      BY <1>5, <2>3 DEF Typed, TypeOK, PublishInternal, Places
    <3>2. HasMessage'
      BY <2>1, <2>3 DEF Typed, TypeOK, HasMessage
    <3>3. QED
      BY <1>5, <3>1, <3>2 DEF Typed, PublishInternal
  <2>4. QED
    BY <1>5, <2>2, <2>3 DEF PublishInternal
<1>6. CASE TestLocalQueue(c)
  <2>1. todo[c] # <<>> /\ pc[c] \in Places
    BY <1>6 DEF Typed, TypeOK, HasMessage, TestLocalQueue
  <2>2. CASE Refuse(c)
    BY <1>6, <2>1, <2>2, RefuseTyped DEF Typed, TypeOK, TestLocalQueue
  <2>3. CASE ~Refuse(c)
    <3>1. TypeOK'
      BY <1>6, <2>3 DEF Typed, TypeOK, TestLocalQueue, Places
    <3>2. HasMessage'
      BY <1>6, <2>1, <2>3 DEF Typed, TypeOK, HasMessage, TestLocalQueue
    <3>3. QED
      BY <1>6, <3>1, <3>2 DEF Typed, TestLocalQueue
  <2>4. QED
    BY <2>2, <2>3
<1>7. CASE PublishToLocal(c)
  <2>1. todo[c] # <<>> /\ pc[c] \in Places
    BY <1>7 DEF Typed, TypeOK, HasMessage, PublishToLocal
  <2>2. CASE Refuse(c) /\ UNCHANGED <<local, missed>>
    BY <1>7, <2>1, <2>2, RefuseTyped DEF Typed, TypeOK, PublishToLocal
  <2>3. CASE /\ Accept(c) /\ queue' = Append(queue, Head(todo[c])) /\ size' = size + 1
             /\ missed' = missed \cup {m \in {Head(todo[c])} : connected}
    <3>1. Head(todo[c]) \in Messages
      BY <2>1, <2>3, AcceptTyped
    <3>2. queue' \in Seq(Messages) /\ Len(queue') = Len(queue) + 1 /\ Len(queue) \in Nat
      BY <2>3, <3>1, AddLast DEF Typed, TypeOK
    <3>3. missed' \subseteq Messages
      BY <2>3, <3>1 DEF Typed, TypeOK
    <3>4. size' \in Nat /\ SizeIsRight'
      BY <2>3, <3>2 DEF Typed, TypeOK
    <3>5. QED
      BY <1>7, <2>1, <2>3, <3>2, <3>3, <3>4, AcceptTyped DEF Typed, TypeOK, PublishToLocal
  <2>4. QED
    BY <1>7, <2>2, <2>3 DEF PublishToLocal
<1>8. QED
  BY <1>1, <1>2, <1>3, <1>4, <1>5, <1>6, <1>7 DEF Advance

LEMMA OperateTyped ==
  ASSUME Typed, Operator \/ Connection
  PROVE  Typed'
<1> USE DEF OwnerDrains, HandIsFull, HasMessage, SizeIsRight, flags, local, calls, drains, history
<1>1. CASE PausePublishing \/ EnableLocalQueue
  BY <1>1 DEF Typed, TypeOK, PausePublishing, EnableLocalQueue
<1>2. CASE ResumePublishing
  <2>1. TypeOK'
    BY <1>2 DEF Typed, TypeOK, ResumePublishing, DrainPlaces
  <2>2. OwnerDrains' /\ HandIsFull'
    BY <1>2 DEF Typed, TypeOK, ResumePublishing, Carrying, Drainers
  <2>3. QED
    BY <1>2, <2>1, <2>2 DEF Typed, ResumePublishing
<1>3. CASE ClearLocalQueue
  <2>1. Contents(queue) \subseteq Messages
    BY DEF Typed, TypeOK, Contents
  <2>2. queue' \in Seq(Messages) /\ Len(queue') = 0
    BY <1>3 DEF ClearLocalQueue
  <2>3. QED
    BY <1>3, <2>1, <2>2 DEF Typed, TypeOK, ClearLocalQueue
<1>4. CASE InitializeConnection
  <2>1. Contents(queue) \subseteq Messages
    BY DEF Typed, TypeOK, Contents
  <2>2. QED
    BY <1>4, <2>1 DEF Typed, TypeOK, InitializeConnection
<1>5. CASE \E up \in BOOLEAN : ConnectionStateChanged(up)
  <2>1. TypeOK'
    BY <1>5 DEF Typed, TypeOK, ConnectionStateChanged, DrainPlaces
  <2>2. OwnerDrains' /\ HandIsFull'
    BY <1>5 DEF Typed, TypeOK, ConnectionStateChanged, Carrying, Drainers
  <2>3. QED
    BY <1>5, <2>1, <2>2 DEF Typed, ConnectionStateChanged
<1>6. QED
  BY <1>1, <1>2, <1>3, <1>4, <1>5 DEF Operator, Connection

LEMMA DrainTyped ==
  ASSUME Typed, NEW x \in Drainers, Drain(x)
  PROVE  Typed'
<1> USE DEF HasMessage, SizeIsRight, flags, local, calls, drains, history
<1>1. CASE StartDrain(x)
  <2>1. Contents(queue) \subseteq Messages
    BY DEF Typed, TypeOK, Contents
  <2>2. TypeOK'
    BY <1>1, <2>1 DEF Typed, TypeOK, StartDrain, DrainPlaces
  <2>3. OwnerDrains' /\ HandIsFull'
    BY <1>1 DEF Typed, TypeOK, OwnerDrains, HandIsFull, StartDrain, Carrying
  <2>4. QED
    BY <1>1, <2>2, <2>3 DEF Typed, StartDrain
<1>2. CASE Lock(x) \/ Finish(x)
  <2>1. TypeOK'
    BY <1>2 DEF Typed, TypeOK, Lock, Finish, DrainPlaces
  <2>2. OwnerDrains' /\ HandIsFull'
    BY <1>2, NobodyIsNoDrainer DEF Typed, TypeOK, OwnerDrains, HandIsFull, Lock, Finish, Carrying
  <2>3. QED
    BY <1>2, <2>1, <2>2 DEF Typed, Lock, Finish
<1>3. CASE Take(x)
  <2>1. queue \in Seq(Messages) /\ queue # <<>>
    BY <1>3 DEF Typed, TypeOK, Take
  <2>2. /\ Head(queue) \in Messages /\ Tail(queue) \in Seq(Messages)
        /\ Len(queue) \in Nat /\ Len(queue) >= 1 /\ Len(Tail(queue)) = Len(queue) - 1
    BY <2>1, HeadAndTail
  <2>3. <<Head(queue)>> \in Seq(Messages) /\ Len(<<Head(queue)>>) = 1
    BY <2>2, One
  <2>4. size' \in Nat /\ SizeIsRight'
    BY <1>3, <2>2 DEF Typed, TypeOK, Take
  <2>5. TypeOK'
    BY <1>3, <2>2, <2>3, <2>4 DEF Typed, TypeOK, Take, DrainPlaces
  <2>6. OwnerDrains' /\ HandIsFull'
    BY <1>3, <2>3 DEF Typed, TypeOK, OwnerDrains, HandIsFull, Take, Carrying
  <2>7. QED
    BY <1>3, <2>4, <2>5, <2>6 DEF Typed, Take
<1>4. CASE Republish(x)
  <2>1. Len(hand[x]) = 1 /\ hand[x] \in Seq(Messages)
    BY <1>4 DEF Typed, TypeOK, HandIsFull, Republish, Carrying
  <2>2. Head(hand[x]) \in Messages
    BY <2>1, OnlyElement
  <2>3. <<>> \in Seq(Messages) /\ Len(<<>>) = 0
    BY Nothing
  <2>4. sent' \in [Messages -> Nat]
    <3>1. CASE sent' = [sent EXCEPT ![Head(hand[x])] = @ + 1]
      BY <2>2, <3>1 DEF Typed, TypeOK
    <3>2. CASE UNCHANGED sent
      BY <3>2 DEF Typed, TypeOK
    <3>3. QED
      BY <1>4, <3>1, <3>2 DEF Republish
  <2>5. hand' \in [Drainers -> Seq(Messages)]
    BY <1>4, <2>3 DEF Typed, TypeOK, Republish
  <2>6. TypeOK'
    BY <1>4, <2>4, <2>5 DEF Typed, TypeOK, Republish, DrainPlaces
  <2>7. OwnerDrains' /\ HandIsFull'
    BY <1>4, <2>3 DEF Typed, TypeOK, OwnerDrains, HandIsFull, Republish, Carrying
  <2>8. QED
    BY <1>4, <2>6, <2>7 DEF Typed, Republish
<1>5. CASE PutBack(x)
  <2>1. Len(hand[x]) = 1 /\ hand[x] \in Seq(Messages)
    BY <1>5 DEF Typed, TypeOK, HandIsFull, PutBack, Carrying
  <2>2. Head(hand[x]) \in Messages /\ queue \in Seq(Messages) /\ Len(queue) \in Nat
    BY <2>1, OnlyElement DEF Typed, TypeOK
  <2>3. queue' \in Seq(Messages) /\ Len(queue') = Len(queue) + 1
    BY <1>5, <2>2, AddLast DEF PutBack
  <2>4. Contents(queue') \subseteq Messages
    BY <2>3 DEF Contents
  <2>5. size' \in Nat /\ SizeIsRight'
    BY <1>5, <2>2, <2>3 DEF Typed, TypeOK, PutBack
  <2>6. <<>> \in Seq(Messages) /\ Len(<<>>) = 0
    BY Nothing
  <2>7. TypeOK'
    BY <1>5, <2>3, <2>4, <2>5, <2>6 DEF Typed, TypeOK, PutBack, DrainPlaces
  <2>8. OwnerDrains' /\ HandIsFull'
    BY <1>5, <2>6, NobodyIsNoDrainer DEF Typed, TypeOK, OwnerDrains, HandIsFull, PutBack, Carrying
  <2>9. QED
    BY <1>5, <2>5, <2>7, <2>8 DEF Typed, PutBack
<1>6. CASE LockAgain(x)
  <2>1. TypeOK'
    BY <1>6 DEF Typed, TypeOK, LockAgain, DrainPlaces
  <2>2. OwnerDrains' /\ HandIsFull'
    BY <1>6 DEF Typed, TypeOK, OwnerDrains, HandIsFull, LockAgain, Carrying
  <2>3. QED
    BY <1>6, <2>1, <2>2 DEF Typed, LockAgain
<1>7. QED
  BY <1>1, <1>2, <1>3, <1>4, <1>5, <1>6 DEF Drain

LEMMA InitTyped == PublisherAssumption /\ Init => Typed
<1>1. SUFFICES ASSUME Init PROVE Typed
  OBVIOUS
<1>2. <<>> \in Seq(Messages) /\ Len(<<>>) = 0
  BY Nothing
<1>3. TypeOK
  BY <1>1, <1>2 DEF Init, TypeOK, Places, DrainPlaces
<1>4. QED
  BY <1>1, <1>2, <1>3, NobodyIsNoDrainer
  DEF Init, Typed, OwnerDrains, HandIsFull, HasMessage, SizeIsRight, Carrying

LEMMA NextTyped == PublisherAssumption /\ Typed /\ [Next]_vars => Typed'
<1>1. SUFFICES ASSUME PublisherAssumption, Typed, [Next]_vars PROVE Typed'
  OBVIOUS
<1>2. CASE UNCHANGED vars
  BY <1>1, <1>2
  DEF Typed, TypeOK, OwnerDrains, HandIsFull, HasMessage, SizeIsRight, vars, flags, local, calls,
      drains, history
<1>3. CASE Next
  BY <1>1, <1>3, CallTyped, OperateTyped, DrainTyped DEF Next
<1>4. QED
  BY <1>1, <1>2, <1>3

LEMMA AlwaysTyped == Spec => []Typed
  BY InitTyped, NextTyped, PublisherAssumption, PTL DEF Spec

(* The publisher's variables keep their types; in particular the queue's    *)
(* counter is never taken below zero.                                       *)
THEOREM PublisherTypeCorrect == Spec => []TypeOK
<1>1. Typed => TypeOK
  BY DEF Typed
<1>2. QED
  BY <1>1, AlwaysTyped, PTL
-----------------------------------------------------------------------------
(* AcceptedIsKept.  Nobody but its caller has a message that is still to be *)
(* published, and its caller has it once.                                   *)

Pending(c) == Contents(todo[c])
PendingInv ==
  \A c \in Callers :
    /\ NoRepeats(todo[c])
    /\ Pending(c) \cap accepted = {}
    /\ \A d \in Callers \ {c} : Pending(c) \cap Pending(d) = {}

KeptInv == AcceptedIsKept /\ PendingInv

LEMMA RefusePending ==
  ASSUME Typed, PendingInv, NEW c \in Callers, Refuse(c)
  PROVE  PendingInv'
<1>1. Contents(todo'[c]) = {} /\ NoRepeats(todo'[c])
  BY Nothing DEF Typed, TypeOK, Refuse
<1>2. \A d \in Callers \ {c} : todo'[d] = todo[d]
  BY DEF Typed, TypeOK, Refuse
<1>3. accepted' = accepted
  BY DEF Refuse
<1>4. QED
  BY <1>1, <1>2, <1>3 DEF PendingInv, Pending

LEMMA AcceptPending ==
  ASSUME Typed, PendingInv, NEW c \in Callers, Accept(c), todo[c] # <<>>
  PROVE  /\ PendingInv'
         /\ Head(todo[c]) \in Messages \ accepted
         /\ accepted' = accepted \cup {Head(todo[c])}
<1>1. todo[c] \in Seq(Messages) /\ NoRepeats(todo[c])
  BY DEF Typed, TypeOK, PendingInv
<1>2. /\ Head(todo[c]) \in Messages
      /\ Contents(todo[c]) = {Head(todo[c])} \cup Contents(Tail(todo[c]))
      /\ NoRepeats(Tail(todo[c])) /\ Head(todo[c]) \notin Contents(Tail(todo[c]))
  BY <1>1, HeadAndTail
<1>3. todo'[c] = Tail(todo[c]) /\ \A d \in Callers \ {c} : todo'[d] = todo[d]
  BY DEF Typed, TypeOK, Accept
<1>4. accepted' = accepted \cup {Head(todo[c])}
  BY DEF Accept
<1>5. PendingInv'
  BY <1>2, <1>3, <1>4 DEF PendingInv, Pending
<1>6. QED
  BY <1>2, <1>4, <1>5 DEF PendingInv, Pending

LEMMA OfferPending ==
  ASSUME Typed, PendingInv, NEW c \in Callers, NEW q \in Seq(Messages),
         NoRepeats(q), Contents(q) \subseteq Offered,
         todo' = [todo EXCEPT ![c] = q], accepted' = accepted
  PROVE  PendingInv'
<1>1. todo'[c] = q /\ \A d \in Callers \ {c} : todo'[d] = todo[d]
  BY DEF Typed, TypeOK
<1>2. Contents(q) \cap accepted = {} /\ \A d \in Callers : Contents(q) \cap Contents(todo[d]) = {}
  BY DEF Offered
<1>3. QED
  BY <1>1, <1>2 DEF PendingInv, Pending

(* A message that goes to the broker for the first time. *)
LEMMA SendOnce ==
  ASSUME NEW m \in Messages, sent \in [Messages -> Nat], m \notin Sent,
         \A k \in Messages : sent[k] <= 1,
         sent' = [sent EXCEPT ![m] = @ + 1]
  PROVE  Sent' = Sent \cup {m} /\ \A k \in Messages : sent'[k] <= 1
<1>1. sent[m] = 0 /\ sent'[m] = 1
  BY DEF Sent
<1>2. \A k \in Messages \ {m} : sent'[k] = sent[k]
  OBVIOUS
<1>3. QED
  BY <1>1, <1>2 DEF Sent

(* Only the owner of the mutex can have a message in its hand. *)
LEMMA OthersEmpty ==
  ASSUME Typed, NEW x \in Drainers, owner = x
  PROVE  /\ InHand = Contents(hand[x])
         /\ \A y \in Drainers \ {x} : hand[y] = <<>>
<1>1. \A y \in Drainers \ {x} : Len(hand[y]) = 0 /\ hand[y] \in Seq(Messages)
  BY DEF Typed, TypeOK, OwnerDrains, HandIsFull
<1>2. \A y \in Drainers \ {x} : hand[y] = <<>>
  BY <1>1
<1>3. \A y \in Drainers \ {x} : Contents(hand[y]) = {}
  BY <1>2, Nothing
<1>4. QED
  BY <1>2, <1>3 DEF InHand

LEMMA HandChanges ==
  ASSUME Typed, NEW x \in Drainers, owner = x, NEW h, hand' = [hand EXCEPT ![x] = h]
  PROVE  InHand' = Contents(h)
<1>1. hand'[x] = h /\ \A y \in Drainers \ {x} : hand'[y] = <<>>
  BY OthersEmpty DEF Typed, TypeOK
<1>2. QED
  BY <1>1, Nothing DEF InHand

LEMMA CallKept ==
  ASSUME PublisherAssumption, Typed, KeptInv, NEW c \in Callers,
         \/ \E m \in Messages : Publish(c, m)
         \/ \E b \in Batches : PublishBatch(c, b)
         \/ Advance(c)
  PROVE  KeptInv'
<1> USE DEF KeptInv, flags, local, drains, history
<1>1. ASSUME UNCHANGED <<accepted, sent, queue, hand, cleared>> PROVE AcceptedIsKept'
  BY <1>1 DEF AcceptedIsKept, Sent, Queued, InHand
<1>2. ASSUME NEW m \in Messages, Publish(c, m) PROVE KeptInv'
  <2>1. <<m>> \in Seq(Messages) /\ NoRepeats(<<m>>) /\ Contents(<<m>>) = {m}
    BY One
  <2>2. PendingInv'
    BY <1>2, <2>1, OfferPending DEF Publish
  <2>3. QED
    BY <1>1, <1>2, <2>2 DEF Publish
<1>3. ASSUME NEW b \in Batches, PublishBatch(c, b) PROVE KeptInv'
  <2>1. b \in Seq(Messages) /\ NoRepeats(b)
    BY DEF PublisherAssumption
  <2>2. PendingInv'
    BY <1>3, <2>1, OfferPending DEF PublishBatch
  <2>3. QED
    BY <1>1, <1>3, <2>2 DEF PublishBatch
<1>4. CASE BeginTransaction(c) \/ EndTransaction(c)
  <2>1. PendingInv'
    BY <1>4 DEF BeginTransaction, EndTransaction, PendingInv, Pending
  <2>2. QED
    BY <1>1, <1>4, <2>1 DEF BeginTransaction, EndTransaction
<1>5. CASE NextMessage(c) \/ TestLocalQueue(c)
  <2>1. PendingInv'
    <3>1. CASE Refuse(c)
      BY <3>1, RefusePending
    <3>2. CASE UNCHANGED <<todo, accepted>>
      BY <3>2 DEF PendingInv, Pending
    <3>3. QED
      BY <1>5, <3>1, <3>2 DEF NextMessage, TestLocalQueue
  <2>2. accepted' = accepted
    BY <1>5 DEF NextMessage, TestLocalQueue, Refuse
  <2>3. QED
    BY <1>1, <1>5, <2>1, <2>2 DEF NextMessage, TestLocalQueue
<1>6. CASE PublishInternal(c)
  <2>1. CASE UNCHANGED <<todo, accepted, sent>>
    BY <1>1, <1>6, <2>1 DEF PublishInternal, PendingInv, Pending
  <2>2. CASE Accept(c) /\ sent' = [sent EXCEPT ![Head(todo[c])] = @ + 1]
    <3> DEFINE m == Head(todo[c])
    <3>1. todo[c] # <<>>
      BY <1>6 DEF Typed, HasMessage, PublishInternal
    <3>2. PendingInv' /\ m \in Messages \ accepted /\ accepted' = accepted \cup {m}
      BY <2>2, <3>1, AcceptPending
    <3>3. m \notin Sent \cup Queued \cup InHand \cup cleared
      BY <3>2 DEF AcceptedIsKept
    <3>4. Sent' = Sent \cup {m} /\ \A k \in Messages : sent'[k] <= 1
      BY <2>2, <3>2, <3>3, SendOnce DEF Typed, TypeOK, AcceptedIsKept
    <3>5. UNCHANGED <<queue, hand, cleared>>
      BY <1>6 DEF PublishInternal
    <3>6. Queued' = Queued /\ InHand' = InHand
      BY <3>5 DEF Queued, InHand
    <3>7. QED
      BY <3>2, <3>3, <3>4, <3>5, <3>6 DEF AcceptedIsKept
  <2>3. QED
    BY <1>6, <2>1, <2>2 DEF PublishInternal
<1>7. CASE PublishToLocal(c)
  <2>1. CASE Refuse(c) /\ UNCHANGED <<local, missed>>
    <3>1. PendingInv' /\ accepted' = accepted
      BY <2>1, RefusePending DEF Refuse
    <3>2. QED
      BY <1>1, <1>7, <2>1, <3>1 DEF PublishToLocal
  <2>2. CASE Accept(c) /\ queue' = Append(queue, Head(todo[c]))
    <3> DEFINE m == Head(todo[c])
    <3>1. todo[c] # <<>> /\ queue \in Seq(Messages)
      BY <1>7 DEF Typed, TypeOK, HasMessage, PublishToLocal
    <3>2. PendingInv' /\ m \in Messages \ accepted /\ accepted' = accepted \cup {m}
      BY <2>2, <3>1, AcceptPending
    <3>3. m \notin Sent \cup Queued \cup InHand \cup cleared
      BY <3>2 DEF AcceptedIsKept
    <3>4. Queued' = Queued \cup {m} /\ NoRepeats(queue')
      BY <2>2, <3>1, <3>2, <3>3, AddLast DEF AcceptedIsKept, Queued
    <3>5. UNCHANGED <<sent, hand, cleared>>
      BY <1>7 DEF PublishToLocal
    <3>6. Sent' = Sent /\ InHand' = InHand
      BY <3>5 DEF Sent, InHand
    <3>7. QED
      BY <3>2, <3>3, <3>4, <3>5, <3>6 DEF AcceptedIsKept
  <2>3. QED
    BY <1>7, <2>1, <2>2 DEF PublishToLocal
<1>8. QED
  BY <1>2, <1>3, <1>4, <1>5, <1>6, <1>7 DEF Advance

LEMMA OperateKept ==
  ASSUME Typed, KeptInv, Operator \/ Connection
  PROVE  KeptInv'
<1> USE DEF KeptInv, flags, local, calls, drains, history
<1>1. PendingInv'
  BY DEF PendingInv, Pending, Operator, PausePublishing, ResumePublishing, EnableLocalQueue,
         ClearLocalQueue, Connection, InitializeConnection, ConnectionStateChanged
<1>2. CASE ClearLocalQueue
  <2>1. Queued' = {} /\ NoRepeats(queue') /\ cleared' = cleared \cup Queued
    BY <1>2, Nothing DEF ClearLocalQueue, Queued
  <2>2. Sent' = Sent /\ InHand' = InHand /\ accepted' = accepted /\ sent' = sent
    BY <1>2 DEF ClearLocalQueue, Sent, InHand
  <2>3. AcceptedIsKept'
    BY <2>1, <2>2 DEF AcceptedIsKept
  <2>4. QED
    BY <1>1, <2>3
<1>3. CASE ~ClearLocalQueue
  <2>1. UNCHANGED <<accepted, sent, queue, hand, cleared>>
    BY <1>3 DEF Operator, PausePublishing, ResumePublishing, EnableLocalQueue,
                Connection, InitializeConnection, ConnectionStateChanged
  <2>2. QED
    BY <1>1, <2>1 DEF AcceptedIsKept, Sent, Queued, InHand
<1>4. QED
  BY <1>2, <1>3

LEMMA DrainKept ==
  ASSUME Typed, KeptInv, NEW x \in Drainers, Drain(x)
  PROVE  KeptInv'
<1> USE DEF KeptInv, flags, local, calls, drains, history
<1>1. PendingInv'
  BY DEF PendingInv, Pending, Drain, StartDrain, Lock, Finish, Take, Republish, PutBack, LockAgain
<1>2. ASSUME UNCHANGED <<accepted, sent, queue, hand, cleared>> PROVE KeptInv'
  BY <1>1, <1>2 DEF AcceptedIsKept, Sent, Queued, InHand
<1>3. CASE StartDrain(x) \/ Lock(x) \/ Finish(x) \/ LockAgain(x)
  BY <1>2, <1>3 DEF StartDrain, Lock, Finish, LockAgain
<1>4. CASE Take(x)
  <2>1. owner = x /\ Len(hand[x]) = 0 /\ hand[x] \in Seq(Messages)
    BY <1>4 DEF Typed, TypeOK, OwnerDrains, HandIsFull, Take, Carrying
  <2>2. hand[x] = <<>>
    BY <2>1
  <2>3. InHand = {}
    BY <2>1, <2>2, OthersEmpty, Nothing
  <2>4. queue \in Seq(Messages) /\ queue # <<>> /\ NoRepeats(queue)
    BY <1>4 DEF Typed, TypeOK, Take, AcceptedIsKept
  <2>5. /\ Head(queue) \in Messages /\ Contents(queue) = {Head(queue)} \cup Contents(Tail(queue))
        /\ NoRepeats(Tail(queue)) /\ Head(queue) \notin Contents(Tail(queue))
    BY <2>4, HeadAndTail
  <2>6. InHand' = {Head(queue)}
    BY <1>4, <2>1, <2>5, HandChanges, One DEF Take
  <2>7. Sent' = Sent /\ Queued' = Contents(Tail(queue)) /\ queue' = Tail(queue)
        /\ UNCHANGED <<accepted, sent, cleared>>
    BY <1>4 DEF Take, Sent, Queued
  <2>8. AcceptedIsKept'
    BY <2>3, <2>5, <2>6, <2>7 DEF AcceptedIsKept, Queued
  <2>9. QED
    BY <1>1, <2>8
<1>5. ASSUME Republish(x) \/ PutBack(x)
      PROVE  /\ owner = x /\ Head(hand[x]) \in Messages /\ InHand = {Head(hand[x])}
             /\ Head(hand[x]) \notin Sent \cup Queued \cup cleared
  <2>1. owner = x /\ Len(hand[x]) = 1 /\ hand[x] \in Seq(Messages)
    BY <1>5 DEF Typed, TypeOK, OwnerDrains, HandIsFull, Republish, PutBack, Carrying
  <2>2. Head(hand[x]) \in Messages /\ InHand = {Head(hand[x])}
    BY <2>1, OnlyElement, OthersEmpty
  <2>3. QED
    BY <2>1, <2>2 DEF AcceptedIsKept
<1>6. CASE Republish(x)
  <2>1. CASE UNCHANGED <<sent, hand>>
    BY <1>2, <1>6, <2>1 DEF Republish
  <2>2. CASE /\ sent' = [sent EXCEPT ![Head(hand[x])] = @ + 1]
             /\ hand' = [hand EXCEPT ![x] = <<>>]
    <3>1. Sent' = Sent \cup {Head(hand[x])} /\ \A k \in Messages : sent'[k] <= 1
      BY <1>5, <1>6, <2>2, SendOnce DEF Typed, TypeOK, AcceptedIsKept
    <3>2. InHand' = {}
      BY <1>5, <1>6, <2>2, HandChanges, Nothing
    <3>3. Queued' = Queued /\ UNCHANGED <<accepted, queue, cleared>>
      BY <1>6 DEF Republish, Queued
    <3>4. AcceptedIsKept'
      BY <1>5, <1>6, <3>1, <3>2, <3>3 DEF AcceptedIsKept
    <3>5. QED
      BY <1>1, <3>4
  <2>3. QED
    BY <1>6, <2>1, <2>2 DEF Republish
<1>7. CASE PutBack(x)
  <2>1. Queued' = Queued \cup {Head(hand[x])} /\ NoRepeats(queue')
    BY <1>5, <1>7, AddLast DEF Typed, TypeOK, AcceptedIsKept, PutBack, Queued
  <2>2. InHand' = {}
    BY <1>5, <1>7, HandChanges, Nothing DEF PutBack
  <2>3. Sent' = Sent /\ UNCHANGED <<accepted, sent, cleared>>
    BY <1>7 DEF PutBack, Sent
  <2>4. AcceptedIsKept'
    BY <1>5, <1>7, <2>1, <2>2, <2>3 DEF AcceptedIsKept
  <2>5. QED
    BY <1>1, <2>4
<1>8. QED
  BY <1>3, <1>4, <1>6, <1>7 DEF Drain

LEMMA InitKept == PublisherAssumption /\ Init => KeptInv
<1>1. SUFFICES ASSUME PublisherAssumption, Init PROVE KeptInv
  OBVIOUS
<1>2. PendingInv
  BY <1>1, Nothing DEF Init, PendingInv, Pending
<1>3. Sent = {} /\ Queued = {} /\ InHand = {}
  BY <1>1, Nothing DEF Init, Sent, Queued, InHand
<1>4. AcceptedIsKept
  BY <1>1, <1>3, Nothing DEF Init, AcceptedIsKept
<1>5. QED
  BY <1>2, <1>4 DEF KeptInv

LEMMA NextKept == PublisherAssumption /\ Typed /\ KeptInv /\ [Next]_vars => KeptInv'
<1>1. SUFFICES ASSUME PublisherAssumption, Typed, KeptInv, [Next]_vars PROVE KeptInv'
  OBVIOUS
<1>2. CASE UNCHANGED vars
  <2>1. UNCHANGED <<accepted, sent, queue, hand, cleared, todo>>
    BY <1>2 DEF vars, local, calls, drains, history
  <2>2. Sent' = Sent /\ Queued' = Queued /\ InHand' = InHand
    BY <2>1 DEF Sent, Queued, InHand
  <2>3. AcceptedIsKept'
    BY <1>1, <2>1, <2>2 DEF KeptInv, AcceptedIsKept
  <2>4. PendingInv'
    BY <1>1, <2>1 DEF KeptInv, PendingInv, Pending
  <2>5. QED
    BY <2>3, <2>4 DEF KeptInv
<1>3. CASE Next
  BY <1>1, <1>3, CallKept, OperateKept, DrainKept DEF Next
<1>4. QED
  BY <1>1, <1>2, <1>3

(* A message that publish returned true for went to the broker once, or is  *)
(* queued once, in the hand of a drain, or was cleared: it is never lost    *)
(* between the two and never sent twice.                                    *)
THEOREM AcceptedMessagesAreKept == Spec => []AcceptedIsKept
<1>1. KeptInv => AcceptedIsKept
  BY DEF KeptInv
<1>2. QED
  BY <1>1, InitKept, NextKept, AlwaysTyped, PublisherAssumption, PTL DEF Spec
-----------------------------------------------------------------------------
(* NothingStranded.  While the connection's own drain is under way the      *)
(* publisher stays connected: the callbacks come one after the other.       *)

StrandedInv ==
  /\ NothingStranded
  /\ drain["connection"] # "idle" => connected

LEMMA NextStranded ==
  ASSUME Typed, AcceptedIsKept, StrandedInv, [Next]_vars
  PROVE  StrandedInv'
<1> USE DEF StrandedInv, NothingStranded, Queued, flags, local, calls, drains, history
<1>1. CASE UNCHANGED vars
  BY <1>1 DEF vars
<1>2. ASSUME NEW c \in Callers,
             (\E m \in Messages : Publish(c, m)) \/ (\E b \in Batches : PublishBatch(c, b))
               \/ Advance(c)
      PROVE  StrandedInv'
  <2>1. CASE PublishToLocal(c)
    <3>1. CASE UNCHANGED <<local, missed>>
      BY <2>1, <3>1 DEF PublishToLocal
    <3>2. CASE /\ Accept(c) /\ queue' = Append(queue, Head(todo[c]))
               /\ missed' = missed \cup {m \in {Head(todo[c])} : connected}
      <4>1. todo[c] # <<>> /\ todo[c] \in Seq(Messages) /\ queue \in Seq(Messages)
        BY <2>1 DEF Typed, TypeOK, HasMessage, PublishToLocal
      <4>2. Head(todo[c]) \in Messages
        BY <4>1, HeadAndTail
      <4>3. Contents(queue') = Contents(queue) \cup {Head(todo[c])}
        BY <3>2, <4>1, <4>2, AddLast
      <4>4. QED
        BY <2>1, <3>2, <4>3 DEF PublishToLocal
    <3>3. QED
      BY <2>1, <3>1, <3>2 DEF PublishToLocal
  <2>2. CASE ~PublishToLocal(c)
    BY <1>2, <2>2
    DEF Publish, PublishBatch, Advance, BeginTransaction, NextMessage, EndTransaction,
        PublishInternal, TestLocalQueue
  <2>3. QED
    BY <2>1, <2>2
<1>3. CASE Operator
  <2>1. CASE ClearLocalQueue
    BY <2>1, Nothing DEF ClearLocalQueue
  <2>2. CASE ~ClearLocalQueue
    BY <1>3, <2>2
    DEF Typed, TypeOK, Operator, PausePublishing, ResumePublishing, EnableLocalQueue, Drainers
  <2>3. QED
    BY <2>1, <2>2
<1>4. CASE Connection
  <2>1. CASE InitializeConnection
    BY <2>1 DEF Typed, TypeOK, InitializeConnection, Drainers
  <2>2. CASE \E up \in BOOLEAN : ConnectionStateChanged(up)
    BY <2>2 DEF Typed, TypeOK, ConnectionStateChanged, Drainers
  <2>3. QED
    BY <1>4, <2>1, <2>2 DEF Connection
<1>5. ASSUME NEW x \in Drainers, Drain(x) PROVE StrandedInv'
  <2>1. CASE StartDrain(x)
    BY <2>1 DEF Typed, TypeOK, StartDrain, Drainers
  <2>2. CASE Lock(x) \/ Republish(x) \/ LockAgain(x)
    BY <2>2 DEF Typed, TypeOK, Lock, Republish, LockAgain, Drainers
  <2>3. CASE Finish(x)
    BY <2>3, Nothing DEF Typed, TypeOK, Finish, Drainers
  <2>4. CASE Take(x)
    <3>1. Contents(queue') \subseteq Contents(queue) \ {Head(queue)}
      BY <2>4, HeadAndTail DEF Typed, TypeOK, AcceptedIsKept, Take
    <3>2. QED
      BY <2>4, <3>1 DEF Typed, TypeOK, Take, Drainers
  <2>5. CASE PutBack(x)
    BY <2>5 DEF Typed, TypeOK, PutBack, Drainers
  <2>6. QED
    BY <1>5, <2>1, <2>2, <2>3, <2>4, <2>5 DEF Drain
<1>6. QED
  BY <1>1, <1>2, <1>3, <1>4, <1>5 DEF Next

(* Whatever is still queued after the drain of a reconnect came after it,   *)
(* was left because the queue was disabled, or was found in the queue by    *)
(* initializeConnection, which connects the publisher and drains nothing.   *)
THEOREM NoMessageIsStranded == Spec => []NothingStranded
<1>1. Init => StrandedInv
  BY DEF Init, StrandedInv, NothingStranded, Drainers
<1>2. Typed /\ AcceptedIsKept /\ StrandedInv /\ [Next]_vars => StrandedInv'
  BY NextStranded
<1>3. StrandedInv => NothingStranded
  BY DEF StrandedInv
<1>4. QED
  BY <1>1, <1>2, <1>3, AlwaysTyped, AcceptedMessagesAreKept, PTL DEF Spec
-----------------------------------------------------------------------------
(* QueueBounded. *)

LEMMA NextBounded ==
  ASSUME PublisherAssumption, Typed, QueueBounded, [Next]_vars
  PROVE  QueueBounded'
<1> USE DEF QueueBounded, flags, local, calls, drains, history
<1>1. size' = Len(queue')
  BY NextTyped DEF Typed, SizeIsRight
<1>2. /\ queue \in Seq(Messages) /\ Len(queue) \in Nat /\ QueueSize \in Nat
      /\ hand \in [Drainers -> Seq(Messages)] /\ \A x \in Drainers : Len(hand[x]) \in Nat
  BY DEF Typed, TypeOK, PublisherAssumption
<1>3. CASE UNCHANGED <<queue, hand>>
  BY <1>1, <1>3
<1>4. ASSUME NEW c \in Callers, PublishToLocal(c) PROVE QueueBounded'
  <2>1. CASE UNCHANGED local
    BY <1>4, <2>1, <1>1 DEF PublishToLocal
  <2>2. CASE Len(queue) < QueueSize /\ queue' = Append(queue, Head(todo[c]))
    <3>1. todo[c] # <<>> /\ todo[c] \in Seq(Messages)
      BY <1>4 DEF Typed, TypeOK, HasMessage, PublishToLocal
    <3>2. Len(queue') = Len(queue) + 1
      BY <2>2, <3>1, <1>2, HeadAndTail, AddLast
    <3>3. \A x \in Drainers : Len(hand[x]) = 0
      BY <1>4, NobodyIsNoDrainer DEF Typed, OwnerDrains, HandIsFull, PublishToLocal
    <3>4. hand' = hand
      BY <1>4 DEF PublishToLocal
    <3>5. QED
      BY <1>1, <1>2, <2>2, <3>2, <3>3, <3>4
  <2>3. QED
    BY <1>4, <2>1, <2>2 DEF PublishToLocal
<1>5. CASE ClearLocalQueue
  <2>1. Len(queue') = 0 /\ hand' = hand
    BY <1>5, Nothing DEF ClearLocalQueue
  <2>2. QED
    BY <1>1, <1>2, <2>1
<1>6. ASSUME NEW x \in Drainers, Take(x) \/ Republish(x) \/ PutBack(x) PROVE QueueBounded'
  <2>1. owner = x
    BY <1>6 DEF Typed, OwnerDrains, Take, Republish, PutBack, Carrying
  <2>2. \A y \in Drainers \ {x} : Len(hand[y]) = 0
    BY <2>1, OthersEmpty, Nothing
  <2>3. \A y \in Drainers \ {x} : hand'[y] = hand[y]
    BY <1>6, <1>2 DEF Take, Republish, PutBack
  <2>4. Len(queue') + Len(hand'[x]) <= Len(queue) + Len(hand[x])
    <3>1. CASE Take(x)
      <4>1. Len(queue) >= 1 /\ Len(queue') = Len(queue) - 1
        BY <3>1, <1>2, HeadAndTail DEF Take
      <4>2. Len(<<Head(queue)>>) = 1
        OBVIOUS
      <4>3. Len(hand'[x]) = 1
        BY <3>1, <1>2, <4>2 DEF Take
      <4>4. QED
        BY <1>2, <4>1, <4>3
    <3>2. CASE Republish(x)
      <4>1. queue' = queue /\ (hand'[x] = <<>> \/ hand'[x] = hand[x])
        BY <3>2, <1>2 DEF Republish
      <4>2. QED
        BY <1>2, <4>1, Nothing
    <3>3. CASE PutBack(x)
      <4>1. Len(hand[x]) = 1 /\ Head(hand[x]) \in Messages
        BY <3>3, <1>2, OnlyElement DEF Typed, HandIsFull, PutBack, Carrying
      <4>2. Len(queue') = Len(queue) + 1 /\ hand'[x] = <<>>
        BY <3>3, <4>1, <1>2, AddLast DEF PutBack
      <4>3. QED
        BY <1>2, <4>1, <4>2, Nothing
    <3>4. QED
      BY <1>6, <3>1, <3>2, <3>3
  <2>5. Len(queue') \in Nat /\ Len(hand'[x]) \in Nat
    BY NextTyped DEF Typed, TypeOK
  <2>6. \A y \in Drainers : Len(queue') + Len(hand'[y]) <= QueueSize
    BY <1>2, <2>2, <2>3, <2>4, <2>5
  <2>7. QED
    BY <1>1, <2>6
<1>7. CASE Next /\ ~UNCHANGED <<queue, hand>>
  <2>1. \/ \E c \in Callers : PublishToLocal(c)
        \/ ClearLocalQueue
        \/ \E x \in Drainers : Take(x) \/ Republish(x) \/ PutBack(x)
    BY <1>7
    DEF Next, Publish, PublishBatch, Advance, BeginTransaction, NextMessage, EndTransaction,
        PublishInternal, TestLocalQueue, Operator, PausePublishing, ResumePublishing,
        EnableLocalQueue, Connection, InitializeConnection, ConnectionStateChanged, Drain, StartDrain, Lock, Finish, LockAgain
  <2>2. QED
    BY <2>1, <1>1, <1>4, <1>5, <1>6
<1>8. CASE UNCHANGED vars
  BY <1>3, <1>8 DEF vars
<1>9. QED
  BY <1>3, <1>7, <1>8

(* The local queue, with what a drain may put back, stays within            *)
(* localQueueSize, and its counter is right.                                *)
THEOREM QueueIsBounded == Spec => []QueueBounded
<1>1. Init /\ PublisherAssumption => QueueBounded
  BY Nothing DEF Init, QueueBounded, PublisherAssumption
<1>2. PublisherAssumption /\ Typed /\ QueueBounded /\ [Next]_vars => QueueBounded'
  BY NextBounded
<1>3. QED
  BY <1>1, <1>2, AlwaysTyped, PublisherAssumption, PTL DEF Spec
-----------------------------------------------------------------------------
(* The publisher implements Outbox. *)

LEMMA InitBox == Init => Box!Init
<1>1. SUFFICES ASSUME Init PROVE Box!Init
  OBVIOUS
<1>2. Queued = {} /\ InHand = {}
  BY <1>1, Nothing DEF Init, Queued, InHand
<1>3. QED
  BY <1>1, <1>2 DEF Init, Box!Init

LEMMA CallBox ==
  ASSUME PublisherAssumption, Typed, KeptInv, NEW c \in Callers,
         \/ \E m \in Messages : Publish(c, m)
         \/ \E b \in Batches : PublishBatch(c, b)
         \/ Advance(c)
  PROVE  [Box!Next]_(Box!vars)
<1> USE DEF KeptInv, flags, local, drains, history
<1>1. ASSUME UNCHANGED <<accepted, sent, queue, hand, cleared>> PROVE UNCHANGED Box!vars
  BY <1>1 DEF Box!vars, Queued, InHand
<1>2. CASE \/ \E m \in Messages : Publish(c, m)
           \/ \E b \in Batches : PublishBatch(c, b)
           \/ BeginTransaction(c) \/ EndTransaction(c) \/ NextMessage(c) \/ TestLocalQueue(c)
  BY <1>1, <1>2 DEF Publish, PublishBatch, BeginTransaction, EndTransaction, NextMessage,
                    TestLocalQueue, Refuse
<1>3. ASSUME PublishInternal(c) \/ PublishToLocal(c), Accept(c)
      PROVE  /\ Head(todo[c]) \in Messages \ accepted
             /\ accepted' = accepted \cup {Head(todo[c])}
  <2>1. todo[c] # <<>>
    BY <1>3 DEF Typed, HasMessage, PublishInternal, PublishToLocal
  <2>2. QED
    BY <1>3, <2>1, AcceptPending
<1>4. CASE PublishInternal(c)
  <2>1. CASE UNCHANGED <<todo, accepted, sent>>
    BY <1>1, <1>4, <2>1 DEF PublishInternal
  <2>2. CASE Accept(c) /\ sent' = [sent EXCEPT ![Head(todo[c])] = @ + 1]
    <3> DEFINE m == Head(todo[c])
    <3>1. m \in Messages \ accepted /\ accepted' = accepted \cup {m}
      BY <1>3, <1>4, <2>2
    <3>2. UNCHANGED <<queue, hand, cleared>>
      BY <1>4 DEF PublishInternal
    <3>3. UNCHANGED <<Queued \cup InHand, cleared>>
      BY <3>2 DEF Queued, InHand
    <3>4. Box!Deliver(m)
      BY <2>2, <3>1, <3>3 DEF Box!Deliver
    <3>5. QED
      BY <3>1, <3>4 DEF Box!Next
  <2>3. QED
    BY <1>4, <2>1, <2>2 DEF PublishInternal
<1>5. CASE PublishToLocal(c)
  <2>1. CASE Refuse(c) /\ UNCHANGED <<local, missed>>
    BY <1>1, <1>5, <2>1 DEF PublishToLocal, Refuse
  <2>2. CASE Accept(c) /\ queue' = Append(queue, Head(todo[c]))
    <3> DEFINE m == Head(todo[c])
    <3>1. m \in Messages \ accepted /\ accepted' = accepted \cup {m}
      BY <1>3, <1>5, <2>2
    <3>2. UNCHANGED <<sent, hand, cleared>>
      BY <1>5 DEF PublishToLocal
    <3>3. Queued' = Queued \cup {m}
      BY <2>2, <3>1, AddLast DEF Typed, TypeOK, Queued
    <3>4. InHand' = InHand
      BY <3>2 DEF InHand
    <3>5. Box!Keep(m)
      BY <3>1, <3>2, <3>3, <3>4 DEF Box!Keep
    <3>6. QED
      BY <3>1, <3>5 DEF Box!Next
  <2>3. QED
    BY <1>5, <2>1, <2>2 DEF PublishToLocal
<1>6. QED
  BY <1>2, <1>4, <1>5 DEF Advance

LEMMA OperateBox ==
  ASSUME Typed, KeptInv, Operator \/ Connection
  PROVE  [Box!Next]_(Box!vars)
<1> USE DEF KeptInv, flags, local, calls, drains, history
<1>1. CASE ClearLocalQueue
  <2>1. Queued' = {} /\ cleared' = cleared \cup Queued
    BY <1>1, Nothing DEF ClearLocalQueue, Queued
  <2>2. InHand' = InHand /\ accepted' = accepted /\ sent' = sent
    BY <1>1 DEF ClearLocalQueue, InHand
  <2>3. Queued \cap InHand = {}
    BY DEF AcceptedIsKept
  <2>4. Box!Drop(Queued)
    BY <2>1, <2>2, <2>3 DEF Box!Drop
  <2>5. QED
    BY <2>4 DEF Box!Next
<1>2. CASE ~ClearLocalQueue
  <2>1. UNCHANGED <<accepted, sent, queue, hand, cleared>>
    BY <1>2 DEF Operator, PausePublishing, ResumePublishing, EnableLocalQueue,
                Connection, InitializeConnection, ConnectionStateChanged
  <2>2. QED
    BY <2>1 DEF Box!vars, Queued, InHand
<1>3. QED
  BY <1>1, <1>2

LEMMA DrainBox ==
  ASSUME Typed, KeptInv, NEW x \in Drainers, Drain(x)
  PROVE  [Box!Next]_(Box!vars)
<1> USE DEF KeptInv, flags, local, calls, drains, history
<1>1. ASSUME UNCHANGED <<accepted, sent, cleared>>, Queued' \cup InHand' = Queued \cup InHand
      PROVE  UNCHANGED Box!vars
  BY <1>1 DEF Box!vars
<1>2. CASE StartDrain(x) \/ Lock(x) \/ Finish(x) \/ LockAgain(x)
  <2>1. UNCHANGED <<accepted, sent, queue, hand, cleared>>
    BY <1>2 DEF StartDrain, Lock, Finish, LockAgain
  <2>2. QED
    BY <1>1, <2>1 DEF Queued, InHand
<1>3. CASE Take(x)
  <2>1. owner = x /\ Len(hand[x]) = 0 /\ hand[x] \in Seq(Messages)
    BY <1>3 DEF Typed, TypeOK, OwnerDrains, HandIsFull, Take, Carrying
  <2>2. hand[x] = <<>>
    BY <2>1
  <2>3. InHand = {}
    BY <2>1, <2>2, OthersEmpty, Nothing
  <2>4. queue \in Seq(Messages) /\ queue # <<>>
    BY <1>3 DEF Typed, TypeOK, Take
  <2>5. Head(queue) \in Messages /\ Contents(queue) = {Head(queue)} \cup Contents(Tail(queue))
    BY <2>4, HeadAndTail
  <2>6. InHand' = {Head(queue)}
    BY <1>3, <2>1, <2>5, HandChanges, One DEF Take
  <2>7. Queued' = Contents(Tail(queue)) /\ UNCHANGED <<accepted, sent, cleared>>
    BY <1>3 DEF Take, Queued
  <2>8. Queued' \cup InHand' = Queued \cup InHand
    BY <2>3, <2>5, <2>6, <2>7 DEF Queued
  <2>9. QED
    BY <1>1, <2>7, <2>8
<1>4. ASSUME Republish(x) \/ PutBack(x)
      PROVE  /\ owner = x /\ Head(hand[x]) \in Messages /\ InHand = {Head(hand[x])}
             /\ Head(hand[x]) \notin Queued
  <2>1. owner = x /\ Len(hand[x]) = 1 /\ hand[x] \in Seq(Messages)
    BY <1>4 DEF Typed, TypeOK, OwnerDrains, HandIsFull, Republish, PutBack, Carrying
  <2>2. Head(hand[x]) \in Messages /\ InHand = {Head(hand[x])}
    BY <2>1, OnlyElement, OthersEmpty
  <2>3. QED
    BY <2>1, <2>2 DEF AcceptedIsKept
<1>5. CASE Republish(x)
  <2>1. CASE UNCHANGED <<sent, hand>>
    BY <1>1, <1>5, <2>1 DEF Republish, Queued, InHand
  <2>2. CASE /\ sent' = [sent EXCEPT ![Head(hand[x])] = @ + 1]
             /\ hand' = [hand EXCEPT ![x] = <<>>]
    <3>1. InHand' = {}
      BY <1>4, <1>5, <2>2, HandChanges, Nothing
    <3>2. Queued' = Queued /\ UNCHANGED <<accepted, cleared>>
      BY <1>5 DEF Republish, Queued
    <3>3. Box!Release(Head(hand[x]))
      BY <1>4, <1>5, <2>2, <3>1, <3>2 DEF Box!Release
    <3>4. QED
      BY <1>4, <1>5, <3>3 DEF Box!Next
  <2>3. QED
    BY <1>5, <2>1, <2>2 DEF Republish
<1>6. CASE PutBack(x)
  <2>1. Queued' = Queued \cup {Head(hand[x])}
    BY <1>4, <1>6, AddLast DEF Typed, TypeOK, PutBack, Queued
  <2>2. InHand' = {}
    BY <1>4, <1>6, HandChanges, Nothing DEF PutBack
  <2>3. UNCHANGED <<accepted, sent, cleared>>
    BY <1>6 DEF PutBack
  <2>4. Queued' \cup InHand' = Queued \cup InHand
    BY <1>4, <1>6, <2>1, <2>2
  <2>5. QED
    BY <1>1, <2>3, <2>4
<1>7. QED
  BY <1>2, <1>3, <1>5, <1>6 DEF Drain

LEMMA StepBox ==
  PublisherAssumption /\ Typed /\ KeptInv /\ [Next]_vars => [Box!Next]_(Box!vars)
<1>1. SUFFICES ASSUME PublisherAssumption, Typed, KeptInv, [Next]_vars
               PROVE  [Box!Next]_(Box!vars)
  OBVIOUS
<1>2. CASE UNCHANGED vars
  <2>1. UNCHANGED <<accepted, sent, queue, hand, cleared>>
    BY <1>2 DEF vars, local, drains, history
  <2>2. QED
    BY <2>1 DEF Box!vars, Queued, InHand
<1>3. CASE Next
  BY <1>1, <1>3, CallBox, OperateBox, DrainBox DEF Next
<1>4. QED
  BY <1>1, <1>2, <1>3

(* The publisher implements Outbox: publish, its queue, its drains and what *)
(* its operator does never take an accepted message out of the publisher    *)
(* but by sending it, once, or by clearLocalQueue.                          *)
THEOREM PublisherImplements == Spec => ImplementsOutbox
<1>1. Spec => []KeptInv
  BY InitKept, NextKept, AlwaysTyped, PublisherAssumption, PTL DEF Spec
<1>2. QED
  BY <1>1, InitBox, StepBox, AlwaysTyped, PublisherAssumption, PTL DEF Spec, ImplementsOutbox, Box!Spec
-----------------------------------------------------------------------------
(* The mutex is released and calls return.  That a step is possible         *)
(* (ENABLED) is a hypothesis, CallsGoOn, which the run checks.              *)

(* Only the drain that holds the mutex touches the queue. *)
LEMMA OnlyOwnerDrains ==
  ASSUME Typed, NEW x \in Drainers, owner = x, [Next]_vars, ~Drain(x)
  PROVE  owner' = x /\ drain'[x] = drain[x] /\ queue' = queue
<1> USE DEF flags, local, calls, drains, history
<1>0. drain[x] \in Carrying \cup {"looping"} /\ owner # Nobody
  BY NobodyIsNoDrainer DEF Typed, OwnerDrains
<1>1. ASSUME NEW c \in Callers,
             \/ \E m \in Messages : Publish(c, m)
             \/ \E b \in Batches : PublishBatch(c, b)
             \/ Advance(c)
      PROVE  owner' = x /\ drain'[x] = drain[x] /\ queue' = queue
  BY <1>0, <1>1 DEF Publish, PublishBatch, Advance, BeginTransaction, NextMessage, EndTransaction,
                    PublishInternal, TestLocalQueue, PublishToLocal
<1>2. CASE Operator \/ Connection
  BY <1>0, <1>2 DEF Operator, PausePublishing, ResumePublishing, EnableLocalQueue,
                    ClearLocalQueue, Connection, InitializeConnection, ConnectionStateChanged, Carrying, Typed, TypeOK
<1>3. ASSUME NEW y \in Drainers, y # x, Drain(y)
      PROVE  owner' = x /\ drain'[x] = drain[x] /\ queue' = queue
  <2>1. drain[y] \notin Carrying \cup {"looping"}
    BY <1>3 DEF Typed, OwnerDrains
  <2>2. StartDrain(y)
    BY <1>0, <1>3, <2>1 DEF Drain, Lock, Finish, Take, Republish, PutBack, LockAgain, Carrying
  <2>3. QED
    BY <1>3, <2>2 DEF StartDrain, Typed, TypeOK
<1>4. CASE UNCHANGED vars
  BY <1>4 DEF vars
<1>5. QED
  BY <1>1, <1>2, <1>3, <1>4 DEF Next

Queuing(n) == Len(queue) = n
Shorter(n) == Len(queue) < n

(* What a drain that holds the mutex does next. *)
LEMMA DrainPath ==
  ASSUME Typed, NEW x \in Drainers, owner = x, Drain(x), NEW n \in Nat
  PROVE  /\ drain[x] = "looping" /\ Queuing(n) =>
              owner' # x \/ (drain'[x] = "republishing" /\ Shorter(n)')
         /\ drain[x] = "republishing" /\ Shorter(n) =>
              drain'[x] \in {"looping", "unconnected"} /\ Shorter(n)'
         /\ drain[x] = "unconnected" => owner' # x \/ drain'[x] = "stuck"
<1> USE DEF Typed, TypeOK, local, Queuing, Shorter
<1>1. x # Nobody
  BY NobodyIsNoDrainer
<1>2. ASSUME drain[x] = "looping", Queuing(n)
      PROVE  owner' # x \/ (drain'[x] = "republishing" /\ Shorter(n)')
  <2>1. Finish(x) \/ Take(x)
    BY <1>2 DEF Drain, StartDrain, Lock, Republish, PutBack, LockAgain
  <2>2. CASE Finish(x)
    BY <1>1, <2>2 DEF Finish
  <2>3. CASE Take(x)
    <3>1. queue \in Seq(Messages) /\ queue # <<>> /\ queue' = Tail(queue)
      BY <2>3 DEF Take
    <3>2. Len(queue') = Len(queue) - 1 /\ Len(queue) >= 1 /\ Len(queue) \in Nat
      BY <3>1, HeadAndTail
    <3>3. drain'[x] = "republishing"
      BY <2>3 DEF Take
    <3>4. QED
      BY <1>2, <3>2, <3>3
  <2>4. QED
    BY <2>1, <2>2, <2>3
<1>3. ASSUME drain[x] = "republishing", Shorter(n)
      PROVE  drain'[x] \in {"looping", "unconnected"} /\ Shorter(n)'
  BY <1>3 DEF Drain, StartDrain, Lock, Finish, Take, Republish, PutBack, LockAgain
<1>4. ASSUME drain[x] = "unconnected" PROVE owner' # x \/ drain'[x] = "stuck"
  BY <1>1, <1>4 DEF Drain, StartDrain, Lock, Finish, Take, Republish, PutBack, LockAgain
<1>5. QED
  BY <1>2, <1>3, <1>4

(* A drain that has the mutex gives it up, locks itself out, or is back at  *)
(* the queue with a message less in it: nobody queues any meanwhile, so     *)
(* that after finitely many of these turns the mutex is free or the drain   *)
(* is stuck (CallReturns).                                                  *)
THEOREM EveryDrainNears ==
  FairSpec /\ []CallsGoOn =>
    \A x \in Drainers, n \in Nat :
      owner = x /\ drain[x] = "looping" /\ Len(queue) = n ~>
        \/ owner # x
        \/ drain[x] = "stuck"
        \/ drain[x] = "looping" /\ Len(queue) < n
<1>1. ASSUME NEW x \in Drainers, NEW n \in Nat
      PROVE  FairSpec /\ []CallsGoOn =>
               (owner = x /\ drain[x] = "looping" /\ Len(queue) = n ~>
                  \/ owner # x
                  \/ drain[x] = "stuck"
                  \/ drain[x] = "looping" /\ Len(queue) < n)
  <2> DEFINE Loop == owner = x /\ drain[x] = "looping" /\ Len(queue) = n
             Send == owner = x /\ drain[x] = "republishing" /\ Len(queue) < n
             Lost == owner = x /\ drain[x] = "unconnected"
             Over == \/ owner # x
                     \/ drain[x] = "stuck"
                     \/ drain[x] = "looping" /\ Len(queue) < n
  <2>1. /\ Typed /\ <<Drain(x)>>_vars /\ Loop => Send' \/ Over'
        /\ Typed /\ <<Drain(x)>>_vars /\ Send => Lost' \/ Over'
        /\ Typed /\ <<Drain(x)>>_vars /\ Lost => Over'
    BY DrainPath DEF Queuing, Shorter
  <2>2. /\ Typed /\ [Next]_vars /\ ~Drain(x) /\ Loop => Loop'
        /\ Typed /\ [Next]_vars /\ ~Drain(x) /\ Send => Send'
        /\ Typed /\ [Next]_vars /\ ~Drain(x) /\ Lost => Lost'
    BY OnlyOwnerDrains
  <2>3. /\ Typed /\ [Next]_vars /\ Drain(x) /\ Loop => Send' \/ Over'
        /\ Typed /\ [Next]_vars /\ Drain(x) /\ Send => Lost' \/ Over'
        /\ Typed /\ [Next]_vars /\ Drain(x) /\ Lost => Over'
    BY DrainPath DEF Queuing, Shorter
  <2>4. CallsGoOn /\ (Loop \/ Send \/ Lost) => ENABLED <<Drain(x)>>_vars
    <3>1. Loop \/ Send \/ Lost => Draining(x)
      BY DEF Draining
    <3>2. CallsGoOn /\ Draining(x) => ENABLED <<Drain(x)>>_vars
      BY DEF CallsGoOn
    <3>3. QED
      BY <3>1, <3>2
  <2>5. FairSpec => Spec /\ DrainFairness(x)
    BY DEF FairSpec
  <2>6. QED
    BY <2>1, <2>2, <2>3, <2>4, <2>5, AlwaysTyped, PTL DEF Spec, DrainFairness
<1>2. QED
  BY <1>1

(* The call of a caller is its own. *)
LEMMA OthersKeepCall ==
  ASSUME Typed, NEW c \in Callers, pc[c] # "idle", [Next]_vars, ~Advance(c)
  PROVE  pc'[c] = pc[c] /\ todo'[c] = todo[c] /\ batch'[c] = batch[c]
<1> USE DEF flags, local, calls, drains, history, Typed, TypeOK
<1>1. ASSUME NEW d \in Callers, (\E m \in Messages : Publish(d, m)) \/ (\E b \in Batches : PublishBatch(d, b))
      PROVE  pc'[c] = pc[c] /\ todo'[c] = todo[c] /\ batch'[c] = batch[c]
  BY <1>1 DEF Publish, PublishBatch
<1>2. ASSUME NEW d \in Callers, d # c, Advance(d)
      PROVE  pc'[c] = pc[c] /\ todo'[c] = todo[c] /\ batch'[c] = batch[c]
  BY <1>2 DEF Advance, BeginTransaction, NextMessage, EndTransaction, PublishInternal,
              TestLocalQueue, PublishToLocal, Accept, Refuse
<1>3. CASE Operator \/ Connection
  BY <1>3 DEF Operator, PausePublishing, ResumePublishing, EnableLocalQueue,
              ClearLocalQueue, Connection, InitializeConnection, ConnectionStateChanged
<1>4. ASSUME NEW y \in Drainers, Drain(y)
      PROVE  pc'[c] = pc[c] /\ todo'[c] = todo[c] /\ batch'[c] = batch[c]
  BY <1>4 DEF Drain, StartDrain, Lock, Finish, Take, Republish, PutBack, LockAgain
<1>5. CASE UNCHANGED vars
  BY <1>5 DEF vars
<1>6. QED
  BY <1>1, <1>2, <1>3, <1>4, <1>5 DEF Next

Holding(c, n) == Len(todo[c]) = n
Lighter(c, n) == Len(todo[c]) < n

(* A call that has accepted a message has one less to publish. *)
LEMMA RefuseOrAccept ==
  ASSUME Typed, NEW c \in Callers, NEW n \in Nat, Holding(c, n), todo[c] # <<>>,
         Accept(c) \/ Refuse(c)
  PROVE  /\ ~batch[c] => pc'[c] = "idle"
         /\ pc'[c] \in {"idle", "end"} \/ (pc'[c] = "next" /\ Lighter(c, n)')
<1> USE DEF Typed, TypeOK
<1>1. CASE Refuse(c)
  BY <1>1 DEF Refuse, AfterBatch
<1>2. CASE Accept(c)
  <2>1. todo[c] \in Seq(Messages) /\ todo'[c] = Tail(todo[c])
    BY <1>2 DEF Accept
  <2>2. Len(todo'[c]) = Len(todo[c]) - 1 /\ Len(todo[c]) \in Nat
    BY <2>1, HeadAndTail
  <2>3. Lighter(c, n)'
    BY <2>2 DEF Lighter, Holding
  <2>4. QED
    BY <1>2, <2>3 DEF Accept
<1>3. QED
  BY <1>1, <1>2

(* The way of a call, one place after the other. *)
LEMMA CallPath ==
  ASSUME Typed, NEW c \in Callers, Advance(c), NEW n \in Nat, Holding(c, n)
  PROVE  LET Ends == pc'[c] \in {"idle", "end"} \/ (pc'[c] = "next" /\ Lighter(c, n)')
         IN  /\ pc[c] = "next" => Ends \/ (pc'[c] = "publishing" /\ Holding(c, n)')
             /\ pc[c] = "publishing" => Ends \/ (pc'[c] = "unconnected" /\ Holding(c, n)')
             /\ pc[c] = "unconnected" => Ends \/ (pc'[c] = "queueing" /\ Holding(c, n)')
             /\ pc[c] = "queueing" => PublishToLocal(c) /\ Ends
<1> DEFINE Ends == pc'[c] \in {"idle", "end"} \/ (pc'[c] = "next" /\ Lighter(c, n)')
<1> USE DEF Typed, TypeOK
<1>0. pc[c] \in {"publishing", "unconnected", "queueing"} => todo[c] # <<>>
  BY DEF HasMessage
<1>1. ASSUME pc[c] = "next" PROVE Ends \/ (pc'[c] = "publishing" /\ Holding(c, n)')
  <2>1. NextMessage(c)
    BY <1>1 DEF Advance, BeginTransaction, EndTransaction, PublishInternal, TestLocalQueue,
                PublishToLocal
  <2>2. CASE todo[c] # <<>> /\ Refuse(c)
    BY <2>2, RefuseOrAccept
  <2>3. CASE ~(todo[c] # <<>> /\ Refuse(c))
    BY <2>1, <2>3 DEF NextMessage, AfterBatch, Holding
  <2>4. QED
    BY <2>2, <2>3
<1>2. ASSUME pc[c] = "publishing" PROVE Ends \/ (pc'[c] = "unconnected" /\ Holding(c, n)')
  <2>1. PublishInternal(c)
    BY <1>2 DEF Advance, BeginTransaction, EndTransaction, NextMessage, TestLocalQueue,
                PublishToLocal
  <2>2. CASE Accept(c)
    BY <1>0, <1>2, <2>2, RefuseOrAccept
  <2>3. CASE ~Accept(c)
    BY <2>1, <2>3 DEF PublishInternal, Holding
  <2>4. QED
    BY <2>2, <2>3
<1>3. ASSUME pc[c] = "unconnected" PROVE Ends \/ (pc'[c] = "queueing" /\ Holding(c, n)')
  <2>1. TestLocalQueue(c)
    BY <1>3 DEF Advance, BeginTransaction, EndTransaction, NextMessage, PublishInternal,
                PublishToLocal
  <2>2. CASE Refuse(c)
    BY <1>0, <1>3, <2>2, RefuseOrAccept
  <2>3. CASE ~Refuse(c)
    BY <2>1, <2>3 DEF TestLocalQueue, Holding
  <2>4. QED
    BY <2>2, <2>3
<1>4. ASSUME pc[c] = "queueing" PROVE PublishToLocal(c) /\ Ends
  <2>1. PublishToLocal(c)
    BY <1>4 DEF Advance, BeginTransaction, EndTransaction, NextMessage, PublishInternal,
                TestLocalQueue
  <2>2. Accept(c) \/ Refuse(c)
    BY <2>1 DEF PublishToLocal
  <2>3. QED
    BY <1>0, <1>4, <2>1, <2>2, RefuseOrAccept
<1>5. QED
  BY <1>1, <1>2, <1>3, <1>4

LEMMA EndReturns ==
  ASSUME Typed, NEW c \in Callers, Advance(c), pc[c] = "end"
  PROVE  pc'[c] = "idle"
BY DEF Advance, BeginTransaction, EndTransaction, NextMessage, PublishInternal, TestLocalQueue,
       PublishToLocal, Typed, TypeOK

(* A caller of publish or publishBatch gets through its current message:    *)
(* its call returns, or is a batch with a message less to publish, and a    *)
(* call that has accepted or refused its last message returns.  The mutex   *)
(* of the local queue must be free time and again, as EveryDrainNears says  *)
(* it is, unless a drain locks itself out (CallReturns).                    *)
THEOREM EveryPublishNears ==
  FairSpec /\ []CallsGoOn /\ []<>(owner = Nobody \/ LockedOut) =>
    \A c \in Callers, n \in Nat :
      pc[c] # "idle" /\ Len(todo[c]) = n ~>
        \/ pc[c] = "idle" \/ LockedOut
        \/ pc[c] = "next" /\ Len(todo[c]) < n
<1>1. ASSUME NEW c \in Callers, NEW n \in Nat
      PROVE  FairSpec /\ []CallsGoOn /\ []<>(owner = Nobody \/ LockedOut) =>
               (pc[c] # "idle" /\ Len(todo[c]) = n ~>
                  \/ pc[c] = "idle" \/ LockedOut
                  \/ pc[c] = "next" /\ Len(todo[c]) < n)
  <2> DEFINE At(place) == pc[c] = place /\ Len(todo[c]) = n
             End == pc[c] = "end"
             Over == pc[c] = "idle" \/ (pc[c] = "next" /\ Len(todo[c]) < n)
             P == At("publishing")
             U == At("unconnected")
             Q == At("queueing")
             N == At("next")
             B == At("begin")
  <2>1. Typed /\ pc[c] # "idle" /\ Len(todo[c]) = n => B \/ N \/ P \/ U \/ Q \/ End
    BY DEF Typed, TypeOK, Places
  <2>2. /\ Typed /\ [Next]_vars /\ B => B' \/ N'
        /\ Typed /\ [Next]_vars /\ N => N' \/ P' \/ End' \/ Over'
        /\ Typed /\ [Next]_vars /\ P => P' \/ U' \/ End' \/ Over'
        /\ Typed /\ [Next]_vars /\ U => U' \/ Q' \/ End' \/ Over'
        /\ Typed /\ [Next]_vars /\ Q => Q' \/ End' \/ Over'
        /\ Typed /\ [Next]_vars /\ End => End' \/ Over'
    <3>1. ASSUME Typed, [Next]_vars, ~Advance(c), pc[c] # "idle"
          PROVE  pc'[c] = pc[c] /\ todo'[c] = todo[c]
      BY <3>1, OthersKeepCall
    <3>2. ASSUME Typed, Advance(c), B PROVE N'
      BY <3>2 DEF Advance, BeginTransaction, EndTransaction, NextMessage, PublishInternal,
                  TestLocalQueue, PublishToLocal, Typed, TypeOK
    <3>3. ASSUME Typed, Advance(c), Len(todo[c]) = n
          PROVE  /\ pc[c] = "next" => P' \/ End' \/ Over'
                 /\ pc[c] = "publishing" => U' \/ End' \/ Over'
                 /\ pc[c] = "unconnected" => Q' \/ End' \/ Over'
                 /\ pc[c] = "queueing" => End' \/ Over'
      BY <3>3, CallPath DEF Holding, Lighter
    <3>4. ASSUME Typed, Advance(c), End PROVE Over'
      BY <3>4, EndReturns
    <3>5. QED
      BY <3>1, <3>2, <3>3, <3>4
  <2>3. /\ Typed /\ <<Advance(c)>>_vars /\ B => ~B'
        /\ Typed /\ <<Advance(c)>>_vars /\ N => ~N'
        /\ Typed /\ <<Advance(c)>>_vars /\ P => ~P'
        /\ Typed /\ <<Advance(c)>>_vars /\ U => ~U'
        /\ Typed /\ <<PublishToLocal(c)>>_vars /\ Q => ~Q'
        /\ Typed /\ <<Advance(c)>>_vars /\ End => ~End'
    <3>1. ASSUME Typed, Advance(c), B PROVE ~B'
      BY <3>1 DEF Advance, BeginTransaction, EndTransaction, NextMessage, PublishInternal,
                  TestLocalQueue, PublishToLocal, Typed, TypeOK
    <3>2. ASSUME Typed, Advance(c), Len(todo[c]) = n
          PROVE  /\ pc[c] = "next" => ~N'
                 /\ pc[c] = "publishing" => ~P'
                 /\ pc[c] = "unconnected" => ~U'
                 /\ pc[c] = "queueing" => ~Q'
      <4>1. Len(todo[c])' < n => ~(Len(todo[c])' = n)
        OBVIOUS
      <4>2. QED
        BY <3>2, <4>1, CallPath DEF Holding, Lighter
    <3>3. ASSUME Typed, Advance(c), End PROVE ~End'
      BY <3>3, EndReturns
    <3>4. PublishToLocal(c) => Advance(c)
      BY DEF Advance
    <3>5. QED
      BY <3>1, <3>2, <3>3, <3>4
  <2>4. /\ CallsGoOn /\ (B \/ N \/ P \/ U \/ End) => ENABLED <<Advance(c)>>_vars
        /\ CallsGoOn /\ Q /\ owner = Nobody => ENABLED <<PublishToLocal(c)>>_vars
    <3>1. B \/ N \/ P \/ U \/ End => Working(c)
      BY DEF Working
    <3>2. CallsGoOn /\ Working(c) => ENABLED <<Advance(c)>>_vars
      BY DEF CallsGoOn
    <3>3. CallsGoOn /\ pc[c] = "queueing" /\ owner = Nobody => ENABLED <<PublishToLocal(c)>>_vars
      BY DEF CallsGoOn
    <3>4. QED
      BY <3>1, <3>2, <3>3
  <2>5. FairSpec => Spec /\ CallerFairness(c)
    BY DEF FairSpec
  <2>6. QED
    BY <2>1, <2>2, <2>3, <2>4, <2>5, AlwaysTyped, PTL DEF Spec, CallerFairness
<1>2. QED
  BY <1>1
=============================================================================
