---------------------------- MODULE MemoryBusProofs ----------------------------
(***************************************************************************)
(* Proofs about MemoryBus, for every number of events and subscriptions    *)
(* and every size of the queue.                                            *)
(***************************************************************************)
EXTENDS MemoryBus, SeqLemmas

\* Ids are drawn once, so an event is accepted once, and never while it waits.
DrawnOnce ==
  /\ blocked \subseteq used /\ ToSet(accepted) \subseteq used /\ ToSet(subs) \subseteq used
  /\ blocked \cap ToSet(accepted) = {}
  /\ IsInjective(accepted) /\ IsInjective(subs)

\* What the consumers have taken from the queue.
Taken == Len(accepted) - Len(queue)

QueueIsRest ==
  /\ Len(queue) <= MaxQueue
  /\ Len(queue) <= Len(accepted)
  /\ \A i \in 1..Len(queue) : queue[i] = accepted[Taken + i]

\* e stands before f in the sequence s; e is among the first n elements of s.
Before(s, e, f) == \E i, k \in DOMAIN s : i < k /\ s[i] = e /\ s[k] = f
Past(n, s, e)   == \E i \in 1..n : s[i] = e

\* Per subscription, the handlers called and then those about to be called are
\* in the order of acceptance.
StartedInOrder ==
  \A s \in Subs :
    /\ \A i \in DOMAIN started[s] : Past(Taken, accepted, started[s][i])
    /\ \A i, k \in DOMAIN started[s] : i < k => Before(accepted, started[s][i], started[s][k])

ReadyInOrder ==
  /\ \A i \in DOMAIN ready : Past(Taken, accepted, ready[i][2])
  /\ \A i, k \in DOMAIN ready :
       i < k /\ ready[i][1] = ready[k][1] => Before(accepted, ready[i][2], ready[k][2])

StartedFirst ==
  \A k \in DOMAIN ready : \A i \in DOMAIN started[ready[k][1]] :
    Before(accepted, started[ready[k][1]][i], ready[k][2])

IInv == TypeOK /\ DrawnOnce /\ QueueIsRest /\ StartedInOrder /\ ReadyInOrder /\ StartedFirst

-----------------------------------------------------------------------------
LEMMA InitIInv == ASSUME ConstantsOK PROVE Init => IInv
<1> SUFFICES ASSUME Init PROVE IInv
  OBVIOUS
<1> USE DEF Init
<1>1. TypeOK
  <2>1. \A S : <<>> \in Seq(S)
    OBVIOUS
  <2>. QED
    BY <2>1 DEF TypeOK
<1>2. DrawnOnce
  BY DEF DrawnOnce, ToSet, IsInjective
<1>3. QueueIsRest
  BY DEF ConstantsOK, QueueIsRest
<1>4. StartedInOrder /\ ReadyInOrder /\ StartedFirst
  BY DEF StartedInOrder, ReadyInOrder, StartedFirst
<1>. QED
  BY <1>1, <1>2, <1>3, <1>4 DEF IInv

\* One new task per subscription, in their order.
LEMMA NewTasks ==
  ASSUME subs \in Seq(Subs), NEW e \in Events
  PROVE  [i \in DOMAIN subs |-> <<subs[i], e>>] \in Seq(Tasks)
<1>1. DOMAIN subs = 1..Len(subs) /\ Len(subs) \in Nat /\ \A i \in DOMAIN subs : subs[i] \in Subs
  BY LenProperties, ElementOfSeq
<1>2. [i \in DOMAIN subs |-> <<subs[i], e>>] \in [1..Len(subs) -> Tasks]
  BY <1>1 DEF Tasks
<1>. QED
  BY <1>1, <1>2, SeqDef

\* Types are kept by every step, given that ids are drawn once.
LEMMA StepTypeOK == TypeOK /\ DrawnOnce /\ [Next]_vars => TypeOK'
<1> SUFFICES ASSUME TypeOK, DrawnOnce, [Next]_vars PROVE TypeOK'
  OBVIOUS
<1> USE DEF TypeOK, tasks
<1>1. ASSUME NEW e \in Events, Publish(e) \/ PublishWaits(e) \/ Put(e) \/ CancelPublish(e)
      PROVE  TypeOK'
  <2>1. Append(queue, e) \in Seq(Events) /\ Append(accepted, e) \in Seq(Events)
    BY AppendIs
  <2>2. CASE Publish(e)
    BY <2>1, <2>2 DEF Publish, Enqueue
  <2>3. CASE PublishWaits(e)
    BY <2>3 DEF PublishWaits
  <2>4. CASE Put(e)
    BY <2>1, <2>4 DEF Put, Enqueue
  <2>5. CASE CancelPublish(e)
    BY <2>5 DEF CancelPublish
  <2>. QED
    BY <1>1, <2>2, <2>3, <2>4, <2>5
<1>2. ASSUME NEW s \in Subs, Subscribe(s)
      PROVE  TypeOK'
  BY <1>2 DEF Subscribe
<1>3. ASSUME NEW s \in Subs, Unsubscribe(s)
      PROVE  TypeOK'
  <2>1. RemoveFirst(subs, s) \in Seq(Subs)
    BY RemoveFirstSet DEF DrawnOnce
  <2>. QED
    BY <1>3, <2>1 DEF Unsubscribe
<1>4. CASE Consume
  <2>1. queue # <<>> /\ Head(queue) \in Events /\ Tail(queue) \in Seq(Events)
    BY <1>4, TailIs DEF Consume
  <2>2. [i \in DOMAIN subs |-> <<subs[i], Head(queue)>>] \in Seq(Tasks)
    BY <2>1, NewTasks
  <2>3. ready \o [i \in DOMAIN subs |-> <<subs[i], Head(queue)>>] \in Seq(Tasks)
    BY <2>2, ConcatIs
  <2>. QED
    BY <1>4, <2>1, <2>3 DEF Consume
<1>5. CASE StartHandler
  <2>1. Head(ready) \in Tasks /\ Tail(ready) \in Seq(Tasks)
    BY <1>5, TailIs DEF StartHandler
  <2>2. Head(ready)[1] \in Subs /\ Head(ready)[2] \in Events
    BY <2>1 DEF Tasks
  <2>3. started' \in [Subs -> Seq(Events)]
    BY <1>5, <2>2 DEF StartHandler
  <2>. QED
    BY <1>5, <2>1, <2>3 DEF StartHandler
<1>6. ASSUME NEW t \in Tasks, EndHandler(t)
      PROVE  TypeOK'
  BY <1>6 DEF EndHandler
<1>7. CASE UNCHANGED vars
  BY <1>7 DEF vars
<1>. QED
  BY <1>1, <1>2, <1>3, <1>4, <1>5, <1>6, <1>7 DEF Next

\* Ids stay drawn once.
LEMMA StepDrawnOnce == TypeOK /\ DrawnOnce /\ [Next]_vars => DrawnOnce'
<1> SUFFICES ASSUME TypeOK, DrawnOnce, [Next]_vars PROVE DrawnOnce'
  OBVIOUS
<1> USE DEF TypeOK, DrawnOnce
<1>1. ASSUME NEW e \in Events, Publish(e) \/ Put(e)
      PROVE  DrawnOnce'
  <2>1. e \notin ToSet(accepted)
    BY <1>1 DEF Publish, Put
  <2>2. accepted' = Append(accepted, e)
    BY <1>1 DEF Publish, Put, Enqueue
  <2>3. ToSet(accepted') = ToSet(accepted) \cup {e} /\ IsInjective(accepted')
    BY <2>1, <2>2, AppendSet
  <2>4. used' = used \cup {e} /\ subs' = subs /\ blocked' = blocked \ {e}
    BY <1>1 DEF Publish, Put
  <2>. QED
    BY <2>3, <2>4
<1>2. ASSUME NEW e \in Events, PublishWaits(e) \/ CancelPublish(e)
      PROVE  DrawnOnce'
  BY <1>2 DEF PublishWaits, CancelPublish
<1>3. ASSUME NEW s \in Subs, Subscribe(s)
      PROVE  DrawnOnce'
  <2>1. ToSet(subs') = ToSet(subs) \cup {s} /\ IsInjective(subs')
    BY <1>3, AppendSet DEF Subscribe
  <2>. QED
    BY <1>3, <2>1 DEF Subscribe
<1>4. ASSUME NEW s \in Subs, Unsubscribe(s)
      PROVE  DrawnOnce'
  <2>1. ToSet(subs') = ToSet(subs) \ {s} /\ IsInjective(subs')
    BY <1>4, RemoveFirstSet DEF Unsubscribe
  <2>. QED
    BY <1>4, <2>1 DEF Unsubscribe
<1>5. CASE Consume
  BY <1>5 DEF Consume
<1>6. CASE StartHandler
  BY <1>6 DEF StartHandler
<1>7. ASSUME NEW t \in Tasks, EndHandler(t)
      PROVE  DrawnOnce'
  BY <1>7 DEF EndHandler
<1>8. CASE UNCHANGED vars
  BY <1>8 DEF vars
<1>. QED
  BY <1>1, <1>2, <1>3, <1>4, <1>5, <1>6, <1>7, <1>8 DEF Next

\* An accepted event goes behind all others and disturbs no order.
LEMMA EnqueueKeeps ==
  ASSUME ConstantsOK, TypeOK, QueueIsRest, NEW e \in Events, ~Full, Enqueue(e)
  PROVE  /\ QueueIsRest'
         /\ \A f : Past(Taken, accepted, f) => Past(Taken', accepted', f)
         /\ \A f, g : Before(accepted, f, g) => Before(accepted', f, g)
<1> DEFINE n == Len(queue)
           m == Len(accepted)
<1>1. /\ DOMAIN accepted = 1..m /\ DOMAIN accepted' = 1..(m + 1) /\ Len(accepted') = m + 1
      /\ \A k \in 1..m : accepted'[k] = accepted[k]
      /\ accepted'[m + 1] = e
      /\ m \in Nat
  BY AppendIs DEF TypeOK, Enqueue
<1>2. /\ Len(queue') = n + 1 /\ \A k \in 1..n : queue'[k] = queue[k]
      /\ queue'[n + 1] = e
      /\ n \in Nat
  BY AppendIs DEF TypeOK, Enqueue
<1>3. n <= m /\ n + 1 <= MaxQueue /\ \A i \in 1..n : queue[i] = accepted[(m - n) + i]
  BY <1>2 DEF QueueIsRest, Taken, Full, ConstantsOK
<1>. HIDE DEF n, m
<1>4. Taken = m - n /\ Taken' = m - n
  BY <1>1, <1>2 DEF Taken, n, m
<1>5. ASSUME NEW i \in 1..(n + 1) PROVE queue'[i] = accepted'[Taken' + i]
  <2>1. CASE i \in 1..n
    <3>1. (m - n) + i \in 1..m
      BY <2>1, <1>1, <1>2, <1>3
    <3>. QED
      BY <2>1, <3>1, <1>1, <1>2, <1>3, <1>4
  <2>2. CASE i = n + 1
    <3>1. (m - n) + i = m + 1
      BY <2>2, <1>1, <1>2
    <3>. QED
      BY <2>2, <3>1, <1>1, <1>2, <1>4
  <2>. QED
    BY <2>1, <2>2, <1>2
<1>6. QueueIsRest'
  <2>1. Len(queue') <= MaxQueue /\ Len(queue') <= Len(accepted')
    BY <1>1, <1>2, <1>3
  <2>2. \A i \in 1..Len(queue') : queue'[i] = accepted'[Taken' + i]
    BY <1>2, <1>5
  <2>. QED
    BY <2>1, <2>2 DEF QueueIsRest
<1>7. ASSUME NEW f, Past(Taken, accepted, f) PROVE Past(Taken', accepted', f)
  <2>1. \A i \in 1..Taken : i \in 1..m
    BY <1>1, <1>2, <1>3, <1>4
  <2>. QED
    BY <1>7, <2>1, <1>1, <1>4 DEF Past
<1>8. ASSUME NEW f, NEW g, Before(accepted, f, g) PROVE Before(accepted', f, g)
  BY <1>8, <1>1 DEF Before
<1>. QED
  BY <1>6, <1>7, <1>8

\* The order of the handlers is about the accepted events and the tasks only.
LEMMA OrderKept ==
  ASSUME StartedInOrder, ReadyInOrder, StartedFirst, UNCHANGED <<ready, started>>,
         \A f : Past(Taken, accepted, f) => Past(Taken', accepted', f),
         \A f, g : Before(accepted, f, g) => Before(accepted', f, g)
  PROVE  StartedInOrder' /\ ReadyInOrder' /\ StartedFirst'
<1>1. StartedInOrder'
  BY DEF StartedInOrder
<1>2. ReadyInOrder'
  BY DEF ReadyInOrder
<1>3. StartedFirst'
  BY DEF StartedFirst
<1>. QED
  BY <1>1, <1>2, <1>3

\* A consumer takes the oldest event of the queue, the one after all that were
\* taken before.
LEMMA ConsumeTakes ==
  ASSUME ConstantsOK, TypeOK, QueueIsRest, Consume
  PROVE  /\ QueueIsRest'
         /\ Head(queue) \in Events
         /\ \A f : Past(Taken, accepted, f) => Past(Taken', accepted', f) /\ Before(accepted, f, Head(queue))
         /\ \A f, g : Before(accepted, f, g) => Before(accepted', f, g)
         /\ Past(Taken', accepted', Head(queue))
<1> DEFINE n == Len(queue)
           m == Len(accepted)
<1>1. /\ Head(queue) = queue[1] /\ Head(queue) \in Events
      /\ Len(queue') = n - 1 /\ n \in Nat \ {0}
      /\ \A k \in 1..(n - 1) : queue'[k] = queue[k + 1]
  BY TailIs DEF TypeOK, Consume
<1>2. m \in Nat /\ DOMAIN accepted = 1..m /\ accepted' = accepted
  BY LenProperties DEF TypeOK, Consume
<1>3. n <= m /\ n <= MaxQueue /\ \A i \in 1..n : queue[i] = accepted[(m - n) + i]
  BY DEF QueueIsRest, Taken
<1>4. Taken = m - n /\ Taken' = (m - n) + 1
  BY <1>1, <1>2 DEF Taken
<1>. HIDE DEF n, m
<1>5. Head(queue) = accepted[(m - n) + 1] /\ (m - n) + 1 \in 1..m
  BY <1>1, <1>2, <1>3
<1>6. QueueIsRest'
  <2>1. Len(queue') <= MaxQueue /\ Len(queue') <= Len(accepted')
    BY <1>1, <1>2, <1>3 DEF ConstantsOK, m
  <2>2. ASSUME NEW i \in 1..Len(queue') PROVE queue'[i] = accepted'[Taken' + i]
    <3>1. i \in 1..(n - 1) /\ i + 1 \in 1..n /\ (m - n) + (i + 1) = Taken' + i
      BY <1>1, <1>2, <1>4
    <3>2. queue'[i] = queue[i + 1] /\ queue[i + 1] = accepted[(m - n) + (i + 1)]
      BY <3>1, <1>1, <1>3
    <3>. QED
      BY <3>1, <3>2, <1>2
  <2>. QED
    BY <2>1, <2>2 DEF QueueIsRest
<1>7. ASSUME NEW f, Past(Taken, accepted, f) PROVE Past(Taken', accepted', f) /\ Before(accepted, f, Head(queue))
  <2>1. PICK i \in 1..(m - n) : accepted[i] = f
    BY <1>7, <1>4 DEF Past
  <2>2. i \in 1..Taken' /\ i \in 1..m /\ i < (m - n) + 1
    BY <1>1, <1>2, <1>3, <1>4
  <2>. QED
    BY <2>1, <2>2, <1>2, <1>5 DEF Past, Before
<1>8. \A f, g : Before(accepted, f, g) => Before(accepted', f, g)
  BY <1>2 DEF Before
<1>9. Past(Taken', accepted', Head(queue))
  <2>1. (m - n) + 1 \in 1..Taken'
    BY <1>1, <1>2, <1>3, <1>4
  <2>. QED
    BY <2>1, <1>2, <1>5 DEF Past
<1>. QED
  BY <1>1, <1>6, <1>7, <1>8, <1>9

\* The tasks it creates come after those of earlier events, one per subscription.
LEMMA ConsumeKeepsOrder ==
  ASSUME ConstantsOK, TypeOK, DrawnOnce, QueueIsRest, StartedInOrder, ReadyInOrder, StartedFirst,
         Consume
  PROVE  StartedInOrder' /\ ReadyInOrder' /\ StartedFirst'
<1> DEFINE e == Head(queue)
           new == [i \in DOMAIN subs |-> <<subs[i], e>>]
           r == Len(ready)
           q == Len(subs)
<1>1. /\ e \in Events
      /\ \A f : Past(Taken, accepted, f) => Past(Taken', accepted', f) /\ Before(accepted, f, e)
      /\ \A f, g : Before(accepted, f, g) => Before(accepted', f, g)
      /\ Past(Taken', accepted', e)
  BY ConsumeTakes
<1>2. q \in Nat /\ DOMAIN subs = 1..q /\ \A i, k \in 1..q : subs[i] = subs[k] => i = k
  BY LenProperties DEF TypeOK, DrawnOnce, IsInjective
<1>3. new \in Seq(Tasks) /\ Len(new) = q /\ \A i \in 1..q : new[i] = <<subs[i], e>>
  <2>1. new \in Seq(Tasks)
    BY <1>1, NewTasks DEF TypeOK
  <2>. QED
    BY <2>1, <1>2, LenProperties
<1>4. ready' = ready \o new /\ started' = started
  BY DEF Consume
<1>5. \A k \in DOMAIN ready : ready[k] \in Tasks
  BY ElementOfSeq, LenProperties DEF TypeOK
<1>. HIDE DEF e, new, q
<1>6. /\ r \in Nat /\ DOMAIN ready = 1..r /\ DOMAIN ready' = 1..(r + q)
      /\ \A k \in 1..r : ready'[k] = ready[k]
      /\ \A k \in 1..q : ready'[r + k] = new[k]
  <2>1. ready \in Seq(Tasks)
    BY DEF TypeOK
  <2>. HIDE DEF r
  <2>2. /\ Len(ready) \in Nat /\ DOMAIN ready = 1..Len(ready)
        /\ DOMAIN (ready \o new) = 1..(Len(ready) + Len(new))
        /\ \A k \in 1..Len(ready) : (ready \o new)[k] = ready[k]
        /\ \A k \in 1..Len(new) : (ready \o new)[Len(ready) + k] = new[k]
    BY <2>1, <1>3, ConcatIs, LenProperties
  <2>. QED
    BY <2>2, <1>3, <1>4 DEF r
<1>. HIDE DEF r
<1>7. ASSUME NEW k \in DOMAIN ready', k \notin DOMAIN ready
      PROVE  k - r \in 1..q /\ ready'[k] = <<subs[k - r], e>>
  <2>1. k - r \in 1..q /\ r + (k - r) = k
    BY <1>2, <1>6, <1>7
  <2>. QED
    BY <2>1, <1>3, <1>6
<1>8. StartedInOrder'
  BY <1>1, <1>4 DEF StartedInOrder
<1>9. ReadyInOrder'
  <2>1. ASSUME NEW k \in DOMAIN ready' PROVE Past(Taken', accepted', ready'[k][2])
    BY <1>1, <1>6, <1>7 DEF ReadyInOrder
  <2>2. ASSUME NEW i \in DOMAIN ready', NEW k \in DOMAIN ready', i < k,
               ready'[i][1] = ready'[k][1]
        PROVE  Before(accepted', ready'[i][2], ready'[k][2])
    <3>1. CASE k \in DOMAIN ready
      <4>1. i \in DOMAIN ready
        BY <2>2, <3>1, <1>2, <1>6
      <4>. QED
        BY <2>2, <3>1, <4>1, <1>1, <1>6 DEF ReadyInOrder
    <3>2. CASE k \notin DOMAIN ready /\ i \in DOMAIN ready
      BY <3>2, <1>1, <1>6, <1>7 DEF ReadyInOrder
    <3>3. CASE k \notin DOMAIN ready /\ i \notin DOMAIN ready
      <4>1. /\ k - r \in 1..q /\ ready'[k] = <<subs[k - r], e>>
            /\ i - r \in 1..q /\ ready'[i] = <<subs[i - r], e>>
        BY <3>3, <1>7
      <4>2. i - r = k - r
        BY <2>2, <4>1, <1>2
      <4>. QED
        BY <2>2, <4>2, <1>2, <1>6
    <3>. QED
      BY <3>1, <3>2, <3>3
  <2>. QED
    BY <2>1, <2>2 DEF ReadyInOrder
<1>10. StartedFirst'
  <2>1. ASSUME NEW k \in DOMAIN ready', NEW i \in DOMAIN started[ready'[k][1]]
        PROVE  Before(accepted', started[ready'[k][1]][i], ready'[k][2])
    <3>1. CASE k \in DOMAIN ready
      BY <3>1, <1>1, <1>6 DEF StartedFirst
    <3>2. CASE k \notin DOMAIN ready
      <4>1. ready'[k][1] \in Subs /\ ready'[k][2] = e
        BY <3>2, <1>2, <1>7, ElementOfSeq DEF TypeOK, q
      <4>2. Past(Taken, accepted, started[ready'[k][1]][i])
        BY <4>1 DEF StartedInOrder
      <4>. QED
        BY <4>1, <4>2, <1>1
    <3>. QED
      BY <3>1, <3>2
  <2>. QED
    BY <2>1, <1>4 DEF StartedFirst
<1>. QED
  BY <1>8, <1>9, <1>10

\* The task that starts is the oldest: what it gets comes after everything its
\* subscription got before, and before everything still to come.
LEMMA StartKeepsOrder ==
  ASSUME TypeOK, StartedInOrder, ReadyInOrder, StartedFirst, StartHandler
  PROVE  StartedInOrder' /\ ReadyInOrder' /\ StartedFirst'
<1> DEFINE s == Head(ready)[1]
           e == Head(ready)[2]
           n == Len(started[s])
<1>1. /\ Head(ready) = ready[1] /\ s \in Subs /\ e \in Events
      /\ DOMAIN ready = 1..Len(ready) /\ Len(ready) \in Nat \ {0}
      /\ DOMAIN ready' = 1..(Len(ready) - 1)
      /\ \A k \in 1..(Len(ready) - 1) : ready'[k] = ready[k + 1]
  <2>1. ready \in Seq(Tasks) /\ ready # <<>> /\ ready' = Tail(ready)
    BY DEF TypeOK, StartHandler
  <2>. QED
    BY <2>1, TailIs DEF Tasks
<1>2. started' = [started EXCEPT ![s] = Append(@, e)] /\ started \in [Subs -> Seq(Events)]
  BY DEF StartHandler, TypeOK
<1>3. accepted' = accepted /\ queue' = queue /\ Taken' = Taken
  BY DEF StartHandler, Taken
<1>4. ready[1][1] = s /\ ready[1][2] = e
  BY <1>1
<1>. HIDE DEF s, e
<1>5. /\ DOMAIN started'[s] = 1..(n + 1) /\ DOMAIN started[s] = 1..n /\ n \in Nat
      /\ \A k \in 1..n : started'[s][k] = started[s][k]
      /\ started'[s][n + 1] = e
  <2>1. started[s] \in Seq(Events) /\ started'[s] = Append(started[s], e)
    BY <1>1, <1>2
  <2>. QED
    BY <2>1, <1>1, AppendIs
<1>6. \A t \in Subs : t # s => started'[t] = started[t]
  BY <1>2
<1>. HIDE DEF n
<1>7. /\ Past(Taken, accepted, e)
      /\ \A i \in 1..n : Before(accepted, started[s][i], e)
      /\ \A k \in 2..Len(ready) : ready[k][1] = s => Before(accepted, e, ready[k][2])
  <2>1. 1 \in DOMAIN ready
    BY <1>1
  <2>2. Past(Taken, accepted, e)
    BY <2>1, <1>4 DEF ReadyInOrder
  <2>3. \A i \in 1..n : Before(accepted, started[s][i], e)
    BY <2>1, <1>4, <1>5 DEF StartedFirst
  <2>4. ASSUME NEW k \in 2..Len(ready), ready[k][1] = s
        PROVE  Before(accepted, e, ready[k][2])
    <3>1. k \in DOMAIN ready /\ 1 < k
      BY <1>1
    <3>. QED
      BY <2>1, <2>4, <3>1, <1>4 DEF ReadyInOrder
  <2>. QED
    BY <2>2, <2>3, <2>4
<1>8. StartedInOrder'
  <2>1. ASSUME NEW t \in Subs, NEW i \in DOMAIN started'[t]
        PROVE  Past(Taken, accepted, started'[t][i])
    BY <1>5, <1>6, <1>7 DEF StartedInOrder
  <2>2. ASSUME NEW t \in Subs, NEW i \in DOMAIN started'[t], NEW k \in DOMAIN started'[t], i < k
        PROVE  Before(accepted, started'[t][i], started'[t][k])
    <3>1. CASE t # s
      BY <2>2, <3>1, <1>6 DEF StartedInOrder
    <3>2. CASE t = s /\ k \in 1..n
      <4>1. i \in 1..n
        BY <2>2, <3>2, <1>5
      <4>. QED
        BY <2>2, <3>2, <4>1, <1>1, <1>5 DEF StartedInOrder
    <3>3. CASE t = s /\ k = n + 1
      <4>1. i \in 1..n
        BY <2>2, <3>3, <1>5
      <4>. QED
        BY <3>3, <4>1, <1>5, <1>7
    <3>. QED
      BY <3>1, <3>2, <3>3, <1>5
  <2>. QED
    BY <2>1, <2>2, <1>3 DEF StartedInOrder
<1>9. ReadyInOrder'
  <2>1. ASSUME NEW i \in DOMAIN ready'
        PROVE  i + 1 \in DOMAIN ready /\ i + 1 \in 2..Len(ready) /\ ready'[i] = ready[i + 1]
    BY <1>1
  <2>2. ASSUME NEW i \in DOMAIN ready' PROVE Past(Taken, accepted, ready'[i][2])
    BY <2>1 DEF ReadyInOrder
  <2>3. ASSUME NEW i \in DOMAIN ready', NEW k \in DOMAIN ready', i < k,
               ready'[i][1] = ready'[k][1]
        PROVE  Before(accepted, ready'[i][2], ready'[k][2])
    <3>1. i + 1 < k + 1
      BY <2>3, <1>1
    <3>. QED
      BY <2>1, <2>3, <3>1 DEF ReadyInOrder
  <2>. QED
    BY <2>2, <2>3, <1>3 DEF ReadyInOrder
<1>10. StartedFirst'
  <2>1. ASSUME NEW k \in DOMAIN ready', NEW i \in DOMAIN started'[ready'[k][1]]
        PROVE  Before(accepted, started'[ready'[k][1]][i], ready'[k][2])
    <3>1. /\ k + 1 \in DOMAIN ready /\ k + 1 \in 2..Len(ready)
          /\ ready'[k] = ready[k + 1] /\ ready[k + 1][1] \in Subs
      <4>1. ready[k + 1] \in Tasks
        BY <1>1, ElementOfSeq DEF TypeOK
      <4>. QED
        BY <4>1, <1>1 DEF Tasks
    <3>2. CASE ready[k + 1][1] # s
      BY <3>1, <3>2, <1>6 DEF StartedFirst
    <3>3. CASE ready[k + 1][1] = s /\ i \in 1..n
      BY <3>1, <3>3, <1>5 DEF StartedFirst
    <3>4. CASE ready[k + 1][1] = s /\ i = n + 1
      BY <3>1, <3>4, <1>5, <1>7
    <3>. QED
      BY <3>1, <3>2, <3>3, <3>4, <1>5
  <2>. QED
    BY <2>1, <1>3 DEF StartedFirst
<1>. QED
  BY <1>8, <1>9, <1>10

LEMMA StepIInv == ASSUME ConstantsOK PROVE IInv /\ [Next]_vars => IInv'
<1> SUFFICES ASSUME IInv, [Next]_vars PROVE IInv'
  OBVIOUS
<1> USE DEF IInv
<1>1. TypeOK' /\ DrawnOnce'
  BY StepTypeOK, StepDrawnOnce
<1> DEFINE Rest == QueueIsRest' /\ StartedInOrder' /\ ReadyInOrder' /\ StartedFirst'
<1>2. ASSUME NEW e \in Events, Publish(e) \/ Put(e)
      PROVE  Rest
  <2>1. ~Full /\ Enqueue(e) /\ UNCHANGED <<ready, started>>
    BY <1>2 DEF Publish, Put, tasks
  <2>. QED
    BY <2>1, EnqueueKeeps, OrderKept
<1>3. ASSUME Consume PROVE Rest
  BY <1>3, ConsumeTakes, ConsumeKeepsOrder
<1>4. ASSUME StartHandler PROVE Rest
  <2>1. QueueIsRest'
    BY <1>4 DEF StartHandler, QueueIsRest, Taken
  <2>. QED
    BY <1>4, <2>1, StartKeepsOrder
<1>5. ASSUME UNCHANGED <<queue, accepted, ready, started>> PROVE Rest
  <2>1. QueueIsRest' /\ Taken' = Taken
    BY <1>5 DEF QueueIsRest, Taken
  <2>. QED
    BY <1>5, <2>1, OrderKept
<1>6. ASSUME NEW e \in Events, PublishWaits(e) \/ CancelPublish(e)
      PROVE  Rest
  BY <1>6, <1>5 DEF PublishWaits, CancelPublish, tasks
<1>7. ASSUME NEW s \in Subs, Subscribe(s) \/ Unsubscribe(s)
      PROVE  Rest
  BY <1>7, <1>5 DEF Subscribe, Unsubscribe, tasks
<1>8. ASSUME NEW t \in Tasks, EndHandler(t)
      PROVE  Rest
  BY <1>8, <1>5 DEF EndHandler
<1>9. ASSUME UNCHANGED vars PROVE Rest
  BY <1>9, <1>5 DEF vars
<1>. QED
  BY <1>1, <1>2, <1>3, <1>4, <1>6, <1>7, <1>8, <1>9 DEF Next

LEMMA Invariant == ASSUME ConstantsOK PROVE Spec => []IInv
  BY InitIInv, StepIInv, PTL DEF Spec

-----------------------------------------------------------------------------
\* Every value is of its type in every reachable state.
THEOREM TypeCorrect == ASSUME ConstantsOK PROVE Spec => []TypeOK
<1>1. IInv => TypeOK
  BY DEF IInv
<1>. QED
  BY <1>1, Invariant, PTL

\* The invariant gives the positions that make a handler's calls a subsequence.
LEMMA StartedIsSubsequence ==
  ASSUME IInv, NEW s \in Subs
  PROVE  IsSubsequence(started[s], accepted)
<1> DEFINE t == started[s]
           f == [i \in DOMAIN t |-> CHOOSE j \in DOMAIN accepted : accepted[j] = t[i]]
<1>1. DOMAIN accepted = 1..Len(accepted) /\ Taken \in Int /\ Taken <= Len(accepted)
  BY LenProperties DEF IInv, TypeOK, Taken
<1>2. /\ \A i \in DOMAIN t : Past(Taken, accepted, t[i])
      /\ \A i, k \in DOMAIN t : i < k => Before(accepted, t[i], t[k])
  BY DEF IInv, StartedInOrder
<1>3. \A i, k \in DOMAIN accepted : accepted[i] = accepted[k] => i = k
  BY DEF IInv, DrawnOnce, IsInjective
<1>. HIDE DEF t
<1>4. ASSUME NEW i \in DOMAIN t
      PROVE  f[i] \in DOMAIN accepted /\ accepted[f[i]] = t[i]
  <2>1. \E j \in DOMAIN accepted : accepted[j] = t[i]
    BY <1>1, <1>2 DEF Past
  <2>. QED
    BY <2>1
<1>5. f \in [DOMAIN t -> DOMAIN accepted]
  BY <1>4
<1>. HIDE DEF f
<1>6. ASSUME NEW i \in DOMAIN t, NEW k \in DOMAIN t, i < k
      PROVE  f[i] < f[k]
  <2>1. PICK a, b \in DOMAIN accepted : a < b /\ accepted[a] = t[i] /\ accepted[b] = t[k]
    BY <1>2, <1>6 DEF Before
  <2>. QED
    BY <2>1, <1>3, <1>4
<1>. QED
  BY <1>4, <1>5, <1>6 DEF IsSubsequence, t

\* A handler is called in the order the events entered the queue, at most once
\* per event, and the queue holds what was accepted last and never overflows,
\* however publishers and consumers compete.
THEOREM Ordered == ASSUME ConstantsOK PROVE Spec => []InOrderOnce
<1>1. IInv => InOrderOnce
  <2> SUFFICES ASSUME IInv PROVE InOrderOnce
    OBVIOUS
  <2>1. IsSuffix(queue, accepted)
    BY SuffixIs DEF IInv, TypeOK, QueueIsRest, Taken
  <2>. QED
    BY <2>1, StartedIsSubsequence DEF InOrderOnce, IInv, QueueIsRest
<1>. QED
  BY <1>1, Invariant, PTL
=============================================================================
