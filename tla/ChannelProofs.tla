--------------------------- MODULE ChannelProofs ---------------------------
(***************************************************************************)
(* A channel delivers what was sent, in order, keeps it rooted on the way  *)
(* and loses no wake, for any number of messages, tasks and recv futures.  *)
(***************************************************************************)
EXTENDS Channel, TLAPS, SequenceTheorems

\* A task awaits a future of its own that is not resolved, and holds a popped
\* message only inside a poll.
Awaits ==
    \A t \in Tasks :
        /\ cur[t] # None => cur[t] \in Own(t) /\ fut[cur[t]] = "pending"
        /\ hand[t] # None => cur[t] # None /\ t \in alive \cap woken

\* A message is in one place: not sent, in the queue once, or in one hand.
OnePlace ==
    /\ \A i, j \in DOMAIN queue : queue[i] = queue[j] => i = j
    /\ \A i \in DOMAIN queue : queue[i] \notin unsent
    /\ \A t \in Tasks : hand[t] # None =>
          /\ hand[t] \notin unsent
          /\ \A i \in DOMAIN queue : queue[i] # hand[t]
          /\ \A u \in Tasks : hand[u] = hand[t] => u = t

\* The message was sent and not boxed yet.
Along(m) == (\E i \in DOMAIN queue : queue[i] = m) \/ \E t \in Tasks : hand[t] = m

\* RootsMatch for the messages, with what holds of unmanaged elements as well:
\* chan_recv_poll does not unpin those.
MessagesRooted ==
    \A m \in Msgs :
        /\ m \in unsent => msgRoots[m] = 0
        /\ Along(m) => msgRoots[m] = 1
        /\ ElemIsPtr /\ ~Along(m) => msgRoots[m] = 0

\* RootsMatch for the recv futures, whose data is active once.
DataRooted ==
    \A f \in RecvFutures :
        /\ fut[f] = "new" => f \notin active
        /\ dataRoots[f] = IF f \in active THEN 1 ELSE 0

\* A receiver that nobody is about to poll is listed.
Listed == \A t \in Tasks : Waiting(t) => t \in woken \cup calls \cup waiters

IInv ==
    /\ TypeOK /\ Awaits /\ OnePlace /\ MessagesRooted /\ DataRooted
    /\ FifoDelivery /\ Listed /\ NoLostWake

\* chan_recv_poll's pop moves the head of the queue into the poll's hand.
LEMMA PopKeepsPlaces ==
    ASSUME TypeOK, OnePlace, NEW t \in Tasks, queue # <<>>, hand[t] = None,
           queue' = Tail(queue), hand' = [hand EXCEPT ![t] = Head(queue)],
           unsent' = unsent
    PROVE  OnePlace'
<1>1. /\ Len(queue) \in Nat \ {0} /\ DOMAIN queue = 1 .. Len(queue)
      /\ DOMAIN queue' = 1 .. Len(queue) - 1 /\ Head(queue) = queue[1]
      /\ \A i \in DOMAIN queue' : queue'[i] = queue[i + 1]
  BY DEF TypeOK
<1>2. /\ 1 \in DOMAIN queue
      /\ \A i \in DOMAIN queue' : i + 1 \in DOMAIN queue /\ i + 1 # 1
  BY <1>1
<1>3. /\ \A i, j \in DOMAIN queue' : queue'[i] = queue'[j] => i = j
      /\ \A i \in DOMAIN queue' : queue'[i] \notin unsent'
  BY <1>1, <1>2 DEF OnePlace
<1>4. ASSUME NEW u \in Tasks, hand'[u] # None
      PROVE  /\ hand'[u] \notin unsent'
             /\ \A i \in DOMAIN queue' : queue'[i] # hand'[u]
             /\ \A v \in Tasks : hand'[v] = hand'[u] => v = u
  <2>1. CASE u = t
    <3>1. hand'[u] = queue[1] /\ \A v \in Tasks : v # t => hand'[v] = hand[v]
      BY <1>1, <2>1 DEF TypeOK
    <3>2. queue[1] \in Msgs /\ queue[1] \notin unsent
      <4>1. queue \in Seq(Msgs)
        BY DEF TypeOK
      <4> QED  BY <1>1, <1>2, <4>1 DEF OnePlace
    <3>3. \A i \in DOMAIN queue' : queue'[i] # queue[1]
      BY <1>1, <1>2 DEF OnePlace
    <3>4. \A v \in Tasks : hand[v] # queue[1]
      BY <1>2, <3>2, ChannelAssumption DEF OnePlace
    <3> QED  BY <2>1, <3>1, <3>2, <3>3, <3>4
  <2>2. CASE u # t
    BY <1>1, <1>2, <1>4, <2>2 DEF TypeOK, OnePlace
  <2> QED  BY <2>1, <2>2
<1> QED  BY <1>3, <1>4 DEF OnePlace

\* A recv future belongs to one task.
LEMMA OwnFutures ==
    ASSUME NEW t \in Tasks, NEW f \in Own(t)
    PROVE  f \in RecvFutures /\ f[1] = t /\ \A u \in Tasks : f \in Own(u) => u = t
  BY DEF Own, RecvFutures

\* A message pushed to the queue follows everything sent before it.
LEMMA Appended ==
    ASSUME NEW p \in Seq(Msgs), NEW q \in Seq(Msgs), NEW e \in Msgs
    PROVE  Append(p \o q, e) = p \o Append(q, e)
<1>1. <<e>> \in Seq(Msgs) /\ p \o q \in Seq(Msgs)
  BY ConcatProperties
<1>2. Append(p \o q, e) = (p \o q) \o <<e>> /\ Append(q, e) = q \o <<e>>
  BY <1>1, AppendIsConcat
<1> QED  BY <1>1, <1>2, ConcatAssociative

\* pop_front leaves everything but the first message.
LEMMA Popped ==
    ASSUME queue \in Seq(Msgs), queue # <<>>, queue' = Tail(queue)
    PROVE  /\ 1 \in DOMAIN queue /\ Head(queue) = queue[1] /\ Head(queue) \in Msgs
           /\ \A m : (\E i \in DOMAIN queue' : queue'[i] = m) <=>
                     (\E i \in DOMAIN queue : i # 1 /\ queue[i] = m)
<1>1. /\ Len(queue) \in Nat /\ DOMAIN queue = 1 .. Len(queue) /\ Len(queue) >= 1
      /\ DOMAIN queue' = 1 .. Len(queue) - 1
      /\ \A i \in 1 .. Len(queue) - 1 : i + 1 \in DOMAIN queue /\ queue'[i] = queue[i + 1]
  OBVIOUS
<1>2. ASSUME NEW m, NEW i \in DOMAIN queue, i # 1, queue[i] = m
      PROVE  \E j \in DOMAIN queue' : queue'[j] = m
  <2>1. i - 1 \in DOMAIN queue' /\ (i - 1) + 1 = i
    BY <1>1, <1>2
  <2> QED  BY <1>1, <1>2, <2>1
<1>3. ASSUME NEW m, NEW i \in DOMAIN queue', queue'[i] = m
      PROVE  \E j \in DOMAIN queue : j # 1 /\ queue[j] = m
  <2>1. i + 1 \in DOMAIN queue /\ i + 1 # 1
    BY <1>1
  <2> QED  BY <1>1, <1>3, <2>1
<1>4. 1 \in DOMAIN queue /\ Head(queue) = queue[1] /\ Head(queue) \in Msgs
  BY <1>1
<1> QED  BY <1>2, <1>3, <1>4

\* The invariant holds in the new channel ...
LEMMA ChannelInit == Init => IInv
<1> SUFFICES ASSUME Init  PROVE IInv
  OBVIOUS
<1>1. TypeOK /\ FifoDelivery
  BY ChannelAssumption, EmptySeq, ConcatEmptySeq DEF Init, TypeOK, FifoDelivery
<1>2. Awaits /\ OnePlace /\ Listed /\ NoLostWake
  BY DEF Init, Awaits, OnePlace, Listed, NoLostWake, Waiting
<1>3. MessagesRooted /\ DataRooted
  BY ChannelAssumption DEF Init, MessagesRooted, DataRooted, Along
<1> QED  BY <1>1, <1>2, <1>3 DEF IInv

\* ... and every step of a sender, a receiver or a drop keeps it.
LEMMA ChannelStep == IInv /\ [Next]_vars => IInv'
<1> SUFFICES ASSUME IInv, [Next]_vars  PROVE IInv'
  OBVIOUS
<1> USE ChannelAssumption, OwnFutures
    DEF IInv, TypeOK, Awaits, OnePlace, MessagesRooted, DataRooted, FifoDelivery,
        Listed, NoLostWake, Waiting, Along, inner, sched
<1>0. CASE UNCHANGED vars
  BY <1>0 DEF vars
<1>1. CASE SenderAcquire
  BY <1>1 DEF SenderAcquire
<1>2. CASE SenderRelease
  BY <1>2 DEF SenderRelease, DrainWaiters
<1>3. CASE ReceiverAcquire
  BY <1>3 DEF ReceiverAcquire
<1>4. CASE ReceiverRelease
  BY <1>4 DEF ReceiverRelease
<1>5. ASSUME NEW m \in Msgs, Send(m)  PROVE IInv'
  <2>0. CASE receivers = 0
    <3>1. /\ unsent' = unsent \ {m}
          /\ UNCHANGED <<inner, msgRoots, dataRoots, active, registered, fut, cur, hand,
                         sched, sent, got>>
      BY <1>5, <2>0 DEF Send
    <3> QED  BY <3>1
  <2> SUFFICES ASSUME receivers # 0  PROVE IInv'
    BY <2>0
  <2>a. /\ queue' = Append(queue, m) /\ sent' = Append(sent, m)
        /\ unsent' = unsent \ {m} /\ m \in unsent
        /\ msgRoots' = [msgRoots EXCEPT ![m] = @ + 1]
        /\ waiters' = {} /\ calls' = calls \cup (waiters \cap alive)
        /\ UNCHANGED <<senders, receivers, dataRoots, active, registered, fut, cur,
                       hand, alive, woken, got>>
    BY <1>5 DEF Send, DrainWaiters
  <2>b. /\ Len(queue) \in Nat /\ DOMAIN queue = 1 .. Len(queue)
        /\ DOMAIN queue' = 1 .. Len(queue) + 1 /\ queue'[Len(queue) + 1] = m
        /\ \A i \in 1 .. Len(queue) : queue'[i] = queue[i]
    BY <2>a
  <2>1. TypeOK'
    <3>1. queue' \in Seq(Msgs) /\ sent' \in Seq(Msgs)
      BY <2>a
    <3>2. msgRoots' \in [Msgs -> {0, 1}]
      BY <2>a
    <3> QED  BY <2>a, <3>1, <3>2
  <2>2. Awaits'
    BY <2>a
  <2>3. OnePlace'
    BY <2>a, <2>b
  <2>4. MessagesRooted'
    <3>1. \A n \in Msgs : Along(n)' <=> n = m \/ Along(n)
      <4>1. ASSUME NEW n \in Msgs, Along(n)  PROVE Along(n)'
        BY <2>a, <2>b, <4>1
      <4>2. Along(m)'
        <5>1. Len(queue) + 1 \in DOMAIN queue' /\ queue'[Len(queue) + 1] = m
          BY <2>b
        <5> QED  BY <5>1, Zenon
      <4>3. ASSUME NEW n \in Msgs, Along(n)', n # m  PROVE Along(n)
        BY <2>a, <2>b, <4>3
      <4> QED  BY <4>1, <4>2, <4>3
    <3>2. ~Along(m) /\ msgRoots[m] = 0
      BY <2>a
    <3> HIDE DEF Along
    <3> QED  BY <2>a, <3>1, <3>2
  <2>5. DataRooted'
    BY <2>a
  <2>6. FifoDelivery'
    <3>1. Append(got \o queue, m) = got \o Append(queue, m)
      <4>1. got \in Seq(Msgs) /\ queue \in Seq(Msgs) /\ m \in Msgs
        OBVIOUS
      <4> QED  BY ONLY <4>1, Appended
    <3> QED  BY <2>a, <3>1
  <2>7. Listed'
    BY <2>a
  <2>8. NoLostWake'
    BY <2>a
  <2> QED  BY <2>1, <2>2, <2>3, <2>4, <2>5, <2>6, <2>7, <2>8
<1>6. ASSUME NEW t \in Tasks, NEW f \in RecvFutures, RecvFuture(t, f)  PROVE IInv'
  <2>1. TypeOK'
    BY <1>6 DEF RecvFuture
  <2>2. Awaits'
    BY <1>6 DEF RecvFuture
  <2>3. OnePlace'
    BY <1>6 DEF RecvFuture
  <2>4. MessagesRooted'
    BY <1>6 DEF RecvFuture
  <2>5. DataRooted'
    BY <1>6 DEF RecvFuture
  <2>6. FifoDelivery'
    BY <1>6 DEF RecvFuture
  <2>7. Listed'
    BY <1>6 DEF RecvFuture
  <2>8. NoLostWake'
    BY <1>6 DEF RecvFuture
  <2> QED  BY <2>1, <2>2, <2>3, <2>4, <2>5, <2>6, <2>7, <2>8
<1>7. ASSUME NEW t \in Tasks, RecvPop(t)  PROVE IInv'
  <2>1. TypeOK'
    BY <1>7 DEF RecvPop, Polls
  <2>2. Awaits'
    BY <1>7 DEF RecvPop, Polls
  <2>3. OnePlace'
    <3>1. /\ queue # <<>> /\ hand[t] = None /\ queue' = Tail(queue)
          /\ hand' = [hand EXCEPT ![t] = Head(queue)] /\ unsent' = unsent
      BY <1>7 DEF RecvPop, Polls
    <3> HIDE DEF IInv, TypeOK, OnePlace
    <3> QED  BY <3>1, PopKeepsPlaces DEF IInv
  <2>4. MessagesRooted'
    <3>1. /\ queue # <<>> /\ queue' = Tail(queue) /\ UNCHANGED <<unsent, msgRoots>>
          /\ hand' = [hand EXCEPT ![t] = Head(queue)] /\ hand[t] = None
      BY <1>7 DEF RecvPop, Polls
    <3>2. \A m \in Msgs : Along(m)' <=> Along(m)
      <4>1. \A m \in Msgs : (\E u \in Tasks : hand'[u] = m) <=>
                             (m = Head(queue) \/ \E u \in Tasks : hand[u] = m)
        BY <3>1
      <4>2. /\ 1 \in DOMAIN queue /\ Head(queue) = queue[1]
            /\ \A m : (\E i \in DOMAIN queue' : queue'[i] = m) <=>
                      (\E i \in DOMAIN queue : i # 1 /\ queue[i] = m)
        BY <3>1, Popped
      <4>3. \A i \in DOMAIN queue : queue[i] = queue[1] => i = 1
        BY <4>2
      <4> QED  BY ONLY <4>1, <4>2, <4>3 DEF Along
    <3> HIDE DEF Along
    <3> QED  BY <3>1, <3>2
  <2>5. DataRooted'
    BY <1>7 DEF RecvPop, Polls
  <2>6. FifoDelivery'
    BY <1>7 DEF RecvPop, Polls
  <2>7. Listed'
    BY <1>7 DEF RecvPop, Polls
  <2>8. NoLostWake'
    BY <1>7 DEF RecvPop, Polls
  <2> QED  BY <2>1, <2>2, <2>3, <2>4, <2>5, <2>6, <2>7, <2>8
<1>8. ASSUME NEW t \in Tasks, RecvReady(t)  PROVE IInv'
  <2>1. TypeOK'
    BY <1>8 DEF RecvReady, FinishRecvData
  <2>2. Awaits'
    BY <1>8 DEF RecvReady, FinishRecvData
  <2>3. OnePlace'
    BY <1>8 DEF RecvReady, FinishRecvData
  <2>4. MessagesRooted'
    <3>1. \A m \in Msgs : Along(m)' <=> Along(m) /\ m # hand[t]
      BY <1>8 DEF RecvReady, FinishRecvData
    <3>2. hand[t] \in Msgs /\ Along(hand[t]) /\ hand[t] \notin unsent
      BY <1>8 DEF RecvReady, FinishRecvData
    <3> HIDE DEF Along
    <3> QED  BY <1>8, <3>1, <3>2 DEF RecvReady, FinishRecvData
  <2>5. DataRooted'
    BY <1>8 DEF RecvReady, FinishRecvData
  <2>6. FifoDelivery'
    BY <1>8 DEF RecvReady, FinishRecvData
  <2>7. Listed'
    BY <1>8 DEF RecvReady, FinishRecvData
  <2>8. NoLostWake'
    BY <1>8 DEF RecvReady, FinishRecvData
  <2> QED  BY <2>1, <2>2, <2>3, <2>4, <2>5, <2>6, <2>7, <2>8
<1>9. ASSUME NEW t \in Tasks, RecvClosed(t)  PROVE IInv'
  <2>1. TypeOK'
    BY <1>9 DEF RecvClosed, Polls, FinishRecvData
  <2>2. Awaits'
    BY <1>9 DEF RecvClosed, Polls, FinishRecvData
  <2>3. OnePlace'
    BY <1>9 DEF RecvClosed, Polls, FinishRecvData
  <2>4. MessagesRooted'
    BY <1>9 DEF RecvClosed, Polls, FinishRecvData
  <2>5. DataRooted'
    BY <1>9 DEF RecvClosed, Polls, FinishRecvData
  <2>6. FifoDelivery'
    BY <1>9 DEF RecvClosed, Polls, FinishRecvData
  <2>7. Listed'
    BY <1>9 DEF RecvClosed, Polls, FinishRecvData
  <2>8. NoLostWake'
    BY <1>9 DEF RecvClosed, Polls, FinishRecvData
  <2> QED  BY <2>1, <2>2, <2>3, <2>4, <2>5, <2>6, <2>7, <2>8
<1>10. ASSUME NEW t \in Tasks, RecvPark(t)  PROVE IInv'
  BY <1>10 DEF RecvPark, Polls
<1>11. ASSUME NEW t \in Tasks, NEW f \in RecvFutures, CancelAgain(t, f)  PROVE IInv'
  <2>1. TypeOK'
    BY <1>11 DEF CancelAgain, CancelRecvFuture, FinishRecvData
  <2>2. Awaits'
    BY <1>11 DEF CancelAgain, CancelRecvFuture, FinishRecvData
  <2>3. OnePlace'
    BY <1>11 DEF CancelAgain, CancelRecvFuture, FinishRecvData
  <2>4. MessagesRooted'
    BY <1>11 DEF CancelAgain, CancelRecvFuture, FinishRecvData
  <2>5. DataRooted'
    BY <1>11 DEF CancelAgain, CancelRecvFuture, FinishRecvData
  <2>6. FifoDelivery'
    BY <1>11 DEF CancelAgain, CancelRecvFuture, FinishRecvData
  <2>7. Listed'
    BY <1>11 DEF CancelAgain, CancelRecvFuture, FinishRecvData
  <2>8. NoLostWake'
    BY <1>11 DEF CancelAgain, CancelRecvFuture, FinishRecvData
  <2> QED  BY <2>1, <2>2, <2>3, <2>4, <2>5, <2>6, <2>7, <2>8
<1>12. ASSUME NEW t \in Tasks, Timeout(t)  PROVE IInv'
  <2>1. TypeOK'
    BY <1>12 DEF Timeout, CancelRecvFuture, FinishRecvData
  <2>2. Awaits'
    BY <1>12 DEF Timeout, CancelRecvFuture, FinishRecvData
  <2>3. OnePlace'
    BY <1>12 DEF Timeout, CancelRecvFuture, FinishRecvData
  <2>4. MessagesRooted'
    BY <1>12 DEF Timeout, CancelRecvFuture, FinishRecvData
  <2>5. DataRooted'
    BY <1>12 DEF Timeout, CancelRecvFuture, FinishRecvData
  <2>6. FifoDelivery'
    BY <1>12 DEF Timeout, CancelRecvFuture, FinishRecvData
  <2>7. Listed'
    BY <1>12 DEF Timeout, CancelRecvFuture, FinishRecvData
  <2>8. NoLostWake'
    BY <1>12 DEF Timeout, CancelRecvFuture, FinishRecvData
  <2> QED  BY <2>1, <2>2, <2>3, <2>4, <2>5, <2>6, <2>7, <2>8
<1>13. ASSUME NEW t \in Tasks, TryRecv(t)  PROVE IInv'
  <2>1. TypeOK'
    BY <1>13 DEF TryRecv
  <2>2. Awaits'
    BY <1>13 DEF TryRecv
  <2>3. OnePlace'
    BY <1>13 DEF TryRecv
  <2>4. MessagesRooted'
    <3>0. queue # <<>> /\ queue' = Tail(queue) /\ hand' = hand
      BY <1>13 DEF TryRecv
    <3>1. \A m \in Msgs : Along(m)' <=> Along(m) /\ m # Head(queue)
      <4>1. /\ 1 \in DOMAIN queue /\ Head(queue) = queue[1]
            /\ \A m : (\E i \in DOMAIN queue' : queue'[i] = m) <=>
                      (\E i \in DOMAIN queue : i # 1 /\ queue[i] = m)
        BY <3>0, Popped
      <4>2. /\ \A i \in DOMAIN queue : queue[i] = queue[1] => i = 1
            /\ \A u \in Tasks : hand[u] # queue[1]
        BY <4>1
      <4>3. ASSUME NEW m \in Msgs
            PROVE  (\E i \in DOMAIN queue' : queue'[i] = m) <=>
                   (\E i \in DOMAIN queue : queue[i] = m) /\ m # Head(queue)
        BY ONLY <4>1, <4>2, <4>3
      <4>4. ASSUME NEW m \in Msgs
            PROVE  (\E u \in Tasks : hand'[u] = m) <=>
                   (\E u \in Tasks : hand[u] = m) /\ m # Head(queue)
        BY ONLY <3>0, <4>1, <4>2
      <4> QED  BY ONLY <4>3, <4>4 DEF Along
    <3>2. Head(queue) \in Msgs /\ Along(Head(queue)) /\ Head(queue) \notin unsent
      BY <1>13 DEF TryRecv
    <3> HIDE DEF Along
    <3> QED  BY <1>13, <3>1, <3>2 DEF TryRecv
  <2>5. DataRooted'
    BY <1>13 DEF TryRecv
  <2>6. FifoDelivery'
    BY <1>13 DEF TryRecv
  <2>7. Listed'
    BY <1>13 DEF TryRecv
  <2>8. NoLostWake'
    BY <1>13 DEF TryRecv
  <2> QED  BY <2>1, <2>2, <2>3, <2>4, <2>5, <2>6, <2>7, <2>8
<1>14. ASSUME NEW t \in Tasks, CallWaker(t)  PROVE IInv'
  <2>1. TypeOK'
    BY <1>14 DEF CallWaker
  <2>2. Awaits'
    BY <1>14 DEF CallWaker
  <2>3. OnePlace'
    BY <1>14 DEF CallWaker
  <2>4. MessagesRooted'
    BY <1>14 DEF CallWaker
  <2>5. DataRooted'
    BY <1>14 DEF CallWaker
  <2>6. FifoDelivery'
    BY <1>14 DEF CallWaker
  <2>7. Listed'
    BY <1>14 DEF CallWaker
  <2>8. NoLostWake'
    BY <1>14 DEF CallWaker
  <2> QED  BY <2>1, <2>2, <2>3, <2>4, <2>5, <2>6, <2>7, <2>8
<1>15. ASSUME NEW t \in Tasks, StaleWake(t)  PROVE IInv'
  <2>1. (TypeOK /\ Awaits)'
    BY <1>15 DEF StaleWake
  <2>2. (OnePlace /\ MessagesRooted)'
    BY <1>15 DEF StaleWake
  <2>3. (DataRooted /\ FifoDelivery)'
    BY <1>15 DEF StaleWake
  <2>4. (Listed /\ NoLostWake)'
    BY <1>15 DEF StaleWake
  <2> QED  BY <2>1, <2>2, <2>3, <2>4
<1>16. ASSUME NEW t \in Tasks, CancelTask(t)  PROVE IInv'
  BY <1>16 DEF CancelTask
<1> HIDE DEF IInv
<1> QED
  BY <1>0, <1>1, <1>2, <1>3, <1>4, <1>5, <1>6, <1>7, <1>8, <1>9, <1>10,
     <1>11, <1>12, <1>13, <1>14, <1>15, <1>16
     DEF Next, Recv

\* It is inductive.
LEMMA ChannelInvariant == Spec => []IInv
  BY ChannelInit, ChannelStep, PTL DEF Spec

\* With any number of concurrent receivers the channel is a queue: what was
\* received, followed by what waits, is what was sent.
THEOREM DeliversInOrder == Spec => []FifoDelivery
<1>1. IInv => FifoDelivery
  BY DEF IInv
<1> QED  BY <1>1, ChannelInvariant, PTL

\* A receiver that suspends under the lock is woken by the send or the last
\* sender's release that it could not see.
THEOREM NoWakeIsLost == Spec => []NoLostWake
<1>1. IInv => NoLostWake
  BY DEF IInv
<1> QED  BY <1>1, ChannelInvariant, PTL

\* On a channel of managed elements, a message has one root from its send until
\* a receiver has boxed it, and a recv future while it is active.
THEOREM MessagesStayRooted == Spec => [](ElemIsPtr => RootsMatch)
<1>1. IInv => (ElemIsPtr => RootsMatch)
  <2> SUFFICES ASSUME IInv, ElemIsPtr  PROVE RootsMatch
    OBVIOUS
  <2>1. \A m \in Msgs : m \in InTransit <=> Along(m)
    BY ChannelAssumption DEF InTransit, Along
  <2> QED  BY <2>1 DEF IInv, MessagesRooted, DataRooted, RootsMatch
<1> QED  BY <1>1, ChannelInvariant, PTL
=============================================================================
