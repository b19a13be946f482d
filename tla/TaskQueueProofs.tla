--------------------------- MODULE TaskQueueProofs ---------------------------
(***************************************************************************)
(* Theorems about TaskQueue, for any number of jobs, queues and callers.   *)
(***************************************************************************)
EXTENDS TaskQueue, SeqLemmas

\* The inductive invariant.  Each part needs the others: a dead letter is not
\* handed out because it is not PENDING, it is never PENDING because it is
\* exhausted, and a fresh id is nowhere because all that is listed is known.
IInv ==
  /\ TypeOK
  /\ WaitsOnce
  /\ HeldByOne
  /\ DeadLettersAreFinal
  /\ ExhaustedIsFiled

\* Work queues and dead-letter lists are different lists.
LEMMA NamesApart ==
  /\ Queues \subseteq Names
  /\ \A q \in Queues : Dlq[q] \in Names /\ \A p \in Queues : Dlq[q] # p
  /\ \A p, q \in Queues : p # q => Dlq[p] # Dlq[q]
  BY ConstantsOK DEF Names

LEMMA InitIInv == Init => IInv
<1> SUFFICES ASSUME Init PROVE IInv
  OBVIOUS
<1>1. (CHOOSE q \in Queues : TRUE) \in Queues
  BY ConstantsOK
<1>2. TypeOK
  BY <1>1, ConstantsOK DEF Init, TypeOK, Statuses
<1>3. \A n \in Names : ToSet(queue[n]) = {} /\ IsInjective(queue[n])
  BY DEF Init, ToSet, IsInjective
<1>4. WaitsOnce /\ DeadLettersAreFinal
  BY <1>3, NamesApart DEF WaitsOnce, DeadLettersAreFinal
<1>5. HeldByOne /\ ExhaustedIsFiled
  BY DEF Init, HeldByOne, ExhaustedIsFiled
<1>. QED
  BY <1>2, <1>4, <1>5 DEF IInv

LEMMA EnqueueIInv ==
  ASSUME IInv, NEW j \in Jobs, NEW q \in Queues, NEW r \in Retries, NEW t \in 0..MaxTime,
         Enqueue(j, q, r, t)
  PROVE  IInv'
<1> USE DEF IInv, Enqueue
<1>1. TypeOK'
  BY AppendSet, NamesApart, ConstantsOK DEF TypeOK, Statuses
<1>2. /\ ToSet(queue'[q]) = ToSet(queue[q]) \cup {j}
      /\ \A n \in Names : n # q => queue'[n] = queue[n]
  BY AppendSet, NamesApart DEF TypeOK
<1>3. /\ \A p \in Queues : j \notin ToSet(queue[p]) /\ j \notin ToSet(queue[Dlq[p]])
      /\ \A c \in Callers : held[c] # j
      /\ attempts[j] = 0
  BY ConstantsOK DEF WaitsOnce, DeadLettersAreFinal, HeldByOne, ExhaustedIsFiled, Known, TypeOK
<1>4. IsInjective(queue'[q])
  BY <1>3, AppendSet, NamesApart DEF TypeOK, WaitsOnce
<1>5. WaitsOnce'
  BY <1>2, <1>3, <1>4, NamesApart DEF WaitsOnce, Known, TypeOK
<1>6. HeldByOne'
  BY <1>2, <1>3, NamesApart DEF HeldByOne, Known, Listed, TypeOK
<1>7. DeadLettersAreFinal'
  BY <1>2, <1>3, NamesApart DEF DeadLettersAreFinal, Listed, TypeOK
<1>8. ExhaustedIsFiled'
  BY <1>2, <1>3, NamesApart DEF ExhaustedIsFiled, Known, Listed, TypeOK
<1>. QED
  BY <1>1, <1>5, <1>6, <1>7, <1>8

\* Only a work queue can hand out a job: dead letters are not PENDING.
LEMMA DequeueIsFromQueue ==
  ASSUME IInv, NEW c \in Callers, NEW n \in Names, Dequeue(c, n)
  PROVE  /\ n \in Queues
         /\ held[c] = Nobody
         /\ \E j \in ToSet(queue[n]) :
              /\ j \in Jobs
              /\ queue' \in [Names -> Seq(Jobs)]
              /\ ToSet(queue'[n]) = ToSet(queue[n]) \ {j}
              /\ IsInjective(queue'[n])
              /\ \A m \in Names : m # n => queue'[m] = queue[m]
              /\ held' = [held EXCEPT ![c] = j]
<1> USE DEF IInv
<1>1. PICK i \in DOMAIN queue[n] :
        /\ Ready(queue[n][i])
        /\ queue' = [queue EXCEPT ![n] = RemoveAt(@, i)]
        /\ held' = [held EXCEPT ![c] = queue[n][i]]
  BY DEF Dequeue
<1>2. queue[n][i] \in ToSet(queue[n]) /\ queue[n] \in Seq(Jobs) /\ queue[n][i] \in Jobs
  BY DEF ToSet, TypeOK
<1>3. n \in Queues
  BY <1>1, <1>2 DEF DeadLettersAreFinal, Ready, Names
<1>4. /\ RemoveAt(queue[n], i) \in Seq(Jobs)
      /\ ToSet(RemoveAt(queue[n], i)) = ToSet(queue[n]) \ {queue[n][i]}
      /\ IsInjective(RemoveAt(queue[n], i))
  BY <1>2, <1>3, RemoveAtSet DEF WaitsOnce
<1>. QED
  BY <1>1, <1>2, <1>3, <1>4 DEF Dequeue, TypeOK

LEMMA DequeueIInv ==
  ASSUME IInv, NEW c \in Callers, NEW n \in Names, Dequeue(c, n)
  PROVE  IInv'
<1> USE DEF IInv
<1>1. PICK j \in ToSet(queue[n]) :
        /\ j \in Jobs
        /\ queue' \in [Names -> Seq(Jobs)]
        /\ ToSet(queue'[n]) = ToSet(queue[n]) \ {j}
        /\ IsInjective(queue'[n])
        /\ \A m \in Names : m # n => queue'[m] = queue[m]
        /\ held' = [held EXCEPT ![c] = j]
  BY DequeueIsFromQueue
<1>2. n \in Queues /\ held[c] = Nobody /\ UNCHANGED <<status, attempts, maxRetries, home, due, now>>
  <2>1. UNCHANGED <<status, job, now>>
    BY DEF Dequeue
  <2>. QED
    BY <2>1, DequeueIsFromQueue DEF job
<1>3. Known(j) /\ home[j] = n /\ j # Nobody
  BY <1>1, <1>2, ConstantsOK DEF WaitsOnce
<1>4. \A d \in Callers : held[d] # j
  BY <1>2, <1>3 DEF HeldByOne, Listed
<1>5. TypeOK'
  BY <1>1, <1>2 DEF TypeOK
<1>6. WaitsOnce'
  BY <1>1, <1>2, NamesApart DEF WaitsOnce, Known
<1>7. ASSUME NEW q \in Queues PROVE j \notin ToSet(queue'[q])
  <2>1. CASE q = n
    BY <2>1, <1>1
  <2>2. CASE q # n
    <3>1. queue'[q] = queue[q]
      BY <2>2, <1>1, NamesApart
    <3>2. \A k \in ToSet(queue[q]) : home[k] = q
      BY DEF WaitsOnce
    <3>. QED
      BY <3>1, <3>2, <2>2, <1>3
  <2>. QED
    BY <2>1, <2>2
<1>8. HeldByOne'
  BY <1>1, <1>2, <1>3, <1>4, <1>7, NamesApart DEF HeldByOne, Known, Listed, TypeOK
<1>9. DeadLettersAreFinal'
  BY <1>1, <1>2, NamesApart DEF DeadLettersAreFinal, Listed
<1>10. ExhaustedIsFiled'
  BY <1>1, <1>2, NamesApart DEF ExhaustedIsFiled, Known, Listed, TypeOK
<1>. QED
  BY <1>5, <1>6, <1>8, <1>9, <1>10

\* A report touches held only by releasing the reporter's job.
LEMMA ReleaseIs ==
  ASSUME IInv, NEW c \in Callers, NEW j \in Jobs, Release(c, j)
  PROVE  /\ held' \in [Callers -> Jobs \cup {Nobody}]
         /\ \A d \in Callers : held'[d] # Nobody => held'[d] = held[d]
  BY DEF IInv, TypeOK, Release

LEMMA StatusIInv ==
  ASSUME IInv, NEW c \in Callers, NEW j \in Jobs, NEW s \in {"COMPLETED", "FAILED"},
         Known(j), status' = [status EXCEPT ![j] = s], Release(c, j),
         UNCHANGED <<queue, job, now>>
  PROVE  IInv'
<1> USE DEF IInv
<1>1. UNCHANGED <<queue, attempts, maxRetries, home, due, now>>
  BY DEF job
<1>2. \A k \in Jobs : Known(k)' <=> Known(k)
  BY DEF Known, TypeOK
<1>3. TypeOK'
  BY <1>1, ReleaseIs DEF TypeOK, Statuses
<1>4. \A n \in Names : ToSet(queue[n]) \subseteq Jobs
  BY DEF ToSet, TypeOK
<1>5. WaitsOnce'
  BY <1>1, <1>2, <1>4, NamesApart DEF WaitsOnce
<1>6. HeldByOne'
  BY <1>1, <1>2, ReleaseIs DEF HeldByOne, Listed, TypeOK
<1>7. DeadLettersAreFinal'
  BY <1>1, <1>4, NamesApart DEF DeadLettersAreFinal, Listed, TypeOK
<1>8. ExhaustedIsFiled'
  BY <1>1, <1>2 DEF ExhaustedIsFiled, Listed
<1>. QED
  BY <1>3, <1>5, <1>6, <1>7, <1>8

LEMMA NackRetryIInv ==
  ASSUME IInv, NEW c \in Callers, NEW j \in Jobs, NackRetry(c, j)
  PROVE  IInv'
<1> USE DEF IInv, NackRetry
<1>1. \A n \in Names : ToSet(queue[n]) \subseteq Jobs
  BY DEF ToSet, TypeOK
<1>2. \A k \in Jobs : Known(k)' <=> Known(k)
  BY DEF Known, TypeOK
<1>3. \A q \in Queues : j \notin ToSet(queue[Dlq[q]])
  BY DEF DeadLettersAreFinal, TypeOK
<1>4. TypeOK'
  BY ReleaseIs DEF TypeOK, Statuses
<1>5. WaitsOnce'
  BY <1>1, <1>2, NamesApart DEF WaitsOnce
<1>6. HeldByOne'
  BY <1>2, ReleaseIs DEF HeldByOne, Listed, TypeOK
<1>7. DeadLettersAreFinal'
  BY <1>1, <1>3, NamesApart DEF DeadLettersAreFinal, Listed, TypeOK
<1>8. ExhaustedIsFiled'
  BY <1>2 DEF ExhaustedIsFiled, Listed, TypeOK
<1>. QED
  BY <1>4, <1>5, <1>6, <1>7, <1>8

LEMMA BuryIs ==
  ASSUME IInv, NEW j \in Jobs, Bury(j)
  PROVE  /\ queue' \in [Names -> Seq(Jobs)]
         /\ IsInjective(queue'[home[j]])
         /\ ToSet(queue'[home[j]]) = ToSet(queue[home[j]]) \ {j}
         /\ ToSet(queue'[Dlq[home[j]]]) = ToSet(queue[Dlq[home[j]]]) \cup {j}
         /\ \A n \in Names \ {home[j], Dlq[home[j]]} : queue'[n] = queue[n]
<1> DEFINE h == home[j]
           d == Dlq[home[j]]
<1>1. h \in Names /\ d \in Names /\ h # d /\ h \in Queues
  BY NamesApart DEF IInv, TypeOK
<1>2. queue[h] \in Seq(Jobs) /\ queue[d] \in Seq(Jobs) /\ IsInjective(queue[h])
  BY <1>1 DEF IInv, TypeOK, WaitsOnce
<1>3. /\ RemoveFirst(queue[h], j) \in Seq(Jobs)
      /\ ToSet(RemoveFirst(queue[h], j)) = ToSet(queue[h]) \ {j}
      /\ IsInjective(RemoveFirst(queue[h], j))
  BY <1>2, RemoveFirstSet
<1>4. Append(queue[d], j) \in Seq(Jobs) /\ ToSet(Append(queue[d], j)) = ToSet(queue[d]) \cup {j}
  BY <1>2, AppendSet
<1>5. /\ queue' \in [Names -> Seq(Jobs)]
      /\ queue'[h] = RemoveFirst(queue[h], j)
      /\ queue'[d] = Append(queue[d], j)
      /\ \A n \in Names \ {h, d} : queue'[n] = queue[n]
  BY <1>1, <1>3, <1>4 DEF Bury, IInv, TypeOK
<1>. QED
  BY <1>3, <1>4, <1>5

LEMMA NackDeadIInv ==
  ASSUME IInv, NEW c \in Callers, NEW j \in Jobs, NackDead(c, j)
  PROVE  IInv'
<1> USE DEF IInv
<1>1. /\ Bury(j) /\ Release(c, j) /\ Known(j)
      /\ UNCHANGED <<maxRetries, home, due, now>>
      /\ status' = [status EXCEPT ![j] = "DEAD"]
      /\ attempts' = [attempts EXCEPT ![j] = @ + 1]
      /\ maxRetries[j] <= attempts'[j] /\ 0 < attempts'[j]
  BY DEF NackDead, TypeOK
<1>2. \A n \in Names : ToSet(queue[n]) \subseteq Jobs
  BY DEF ToSet, TypeOK
<1>3. \A k \in Jobs : Known(k)' <=> Known(k)
  BY <1>1 DEF Known, TypeOK
<1>4. home[j] \in Queues
  BY DEF TypeOK
<1>5. TypeOK'
  BY <1>1, BuryIs, ReleaseIs DEF TypeOK, Statuses
<1>6. \A q \in Queues : ToSet(queue'[q]) = ToSet(queue[q]) \ {j}
  <2>. SUFFICES ASSUME NEW q \in Queues PROVE ToSet(queue'[q]) = ToSet(queue[q]) \ {j}
    OBVIOUS
  <2>1. CASE q = home[j]
    BY <2>1, <1>1, BuryIs
  <2>2. CASE q # home[j]
    <3>1. queue'[q] = queue[q]
      BY <2>2, <1>1, <1>4, BuryIs, NamesApart
    <3>. QED
      BY <2>2, <3>1 DEF WaitsOnce
  <2>. QED
    BY <2>1, <2>2
<1>7. \A q \in Queues : q # home[j] => queue'[q] = queue[q] /\ queue'[Dlq[q]] = queue[Dlq[q]]
  BY <1>1, <1>4, BuryIs, NamesApart
<1>8. WaitsOnce'
  BY <1>1, <1>2, <1>3, <1>6, <1>7, BuryIs, NamesApart DEF WaitsOnce
<1>9. HeldByOne'
  BY <1>1, <1>3, <1>6, ReleaseIs DEF HeldByOne, Listed, TypeOK
<1>10. DeadLettersAreFinal'
  <2>. SUFFICES ASSUME NEW q \in Queues, NEW k \in ToSet(queue'[Dlq[q]])
                PROVE  /\ home[k] = q
                       /\ 0 < attempts'[k] /\ maxRetries[k] <= attempts'[k]
                       /\ status'[k] \notin {"absent", "PENDING"}
                       /\ k \notin ToSet(queue'[q])
    BY <1>1 DEF DeadLettersAreFinal, Listed
  <2>1. CASE k = j
    <3>1. home[j] = q
      BY <2>1, <1>7 DEF DeadLettersAreFinal
    <3>. QED
      BY <2>1, <3>1, <1>1, <1>6 DEF TypeOK
  <2>2. CASE k # j
    <3>1. k \in ToSet(queue[Dlq[q]])
      <4>1. CASE q = home[j]
        <5>1. ToSet(queue'[Dlq[home[j]]]) = ToSet(queue[Dlq[home[j]]]) \cup {j}
          BY <1>1, BuryIs
        <5>. QED
          BY <4>1, <5>1, <2>2
      <4>2. CASE q # home[j]
        BY <4>2, <1>7
      <4>. QED
        BY <4>1, <4>2
    <3>2. k \in Jobs
      BY <3>1, <1>2, NamesApart
    <3>3. /\ home[k] = q
          /\ 0 < attempts[k] /\ maxRetries[k] <= attempts[k]
          /\ status[k] \notin {"absent", "PENDING"}
          /\ k \notin ToSet(queue[q])
      BY <3>1 DEF DeadLettersAreFinal, Listed
    <3>4. attempts'[k] = attempts[k] /\ status'[k] = status[k]
      BY <2>2, <3>2, <1>1 DEF TypeOK
    <3>. QED
      BY <3>3, <3>4, <1>6
  <2>. QED
    BY <2>1, <2>2
<1>11. ExhaustedIsFiled'
  <2>. SUFFICES ASSUME NEW k \in Jobs, 0 < attempts'[k]
                PROVE  Known(k)' /\ (maxRetries[k] <= attempts'[k] => k \in ToSet(queue'[Dlq[home[k]]]))
    BY <1>1 DEF ExhaustedIsFiled, Listed
  <2>1. CASE k = j
    BY <2>1, <1>1, <1>3, BuryIs
  <2>2. CASE k # j
    <3>1. attempts'[k] = attempts[k]
      BY <2>2, <1>1 DEF TypeOK
    <3>2. Known(k) /\ (maxRetries[k] <= attempts[k] => k \in ToSet(queue[Dlq[home[k]]]))
      BY <3>1 DEF ExhaustedIsFiled, Listed
    <3>3. home[k] \in Queues
      BY DEF TypeOK
    <3>4. CASE home[k] = home[j]
      BY <3>1, <3>2, <3>4, <1>1, <1>3, BuryIs
    <3>5. CASE home[k] # home[j]
      BY <3>1, <3>2, <3>3, <3>5, <1>3, <1>7
    <3>. QED
      BY <3>4, <3>5
  <2>. QED
    BY <2>1, <2>2
<1>. QED
  BY <1>5, <1>8, <1>9, <1>10, <1>11

LEMMA NextIInv == IInv /\ [Next]_vars => IInv'
<1> SUFFICES ASSUME IInv, [Next]_vars PROVE IInv'
  OBVIOUS
<1>1. ASSUME NEW j \in Jobs, NEW q \in Queues, NEW r \in Retries, NEW t \in 0..MaxTime,
             Enqueue(j, q, r, t)
      PROVE  IInv'
  BY <1>1, EnqueueIInv
<1>2. ASSUME NEW c \in Callers, NEW n \in Names, Dequeue(c, n)
      PROVE  IInv'
  BY <1>2, DequeueIInv
<1>3. ASSUME NEW c \in Callers, NEW j \in Jobs, Report(c, j)
      PROVE  IInv'
  <2>1. CASE Ack(c, j)
    BY <2>1, StatusIInv DEF Ack
  <2>2. CASE NackRetry(c, j)
    BY <2>2, NackRetryIInv
  <2>3. CASE NackDead(c, j)
    BY <2>3, NackDeadIInv
  <2>4. CASE NackFail(c, j)
    BY <2>4, StatusIInv DEF NackFail
  <2>. QED
    BY <1>3, <2>1, <2>2, <2>3, <2>4 DEF Report
<1>4. CASE Tick
  <2>1. UNCHANGED <<queue, status, attempts, maxRetries, home, due, held>>
    BY <1>4 DEF Tick, job
  <2>2. TypeOK'
    BY <1>4, <2>1, ConstantsOK DEF Tick, IInv, TypeOK
  <2>. QED
    BY <2>1, <2>2 DEF IInv, WaitsOnce, HeldByOne, DeadLettersAreFinal, ExhaustedIsFiled, Known, Listed
<1>5. CASE UNCHANGED vars
  BY <1>5 DEF vars, job, IInv, TypeOK, WaitsOnce, HeldByOne, DeadLettersAreFinal,
              ExhaustedIsFiled, Known, Listed
<1>. QED
  BY <1>1, <1>2, <1>3, <1>4, <1>5 DEF Next

LEMMA InductiveInvariant == Spec => []IInv
  BY InitIInv, NextIInv, PTL DEF Spec

\* The state always has the types of the adapter's fields.
THEOREM TypeCorrect == Spec => []TypeOK
  BY InductiveInvariant, PTL DEF IInv

\* Taking a job locks it, whoever else acks, nacks or polls: dequeue never
\* gives one job to two callers.
THEOREM Exclusive == Spec => [](WaitsOnce /\ HeldByOne)
  BY InductiveInvariant, PTL DEF IInv

\* The dead-letter lists hold exactly the accepted jobs that used up their
\* retries, and none of them can be handed out again.
THEOREM DeadLetters == Spec => []DeadLettersAreExact
  BY InductiveInvariant, PTL DEF IInv, DeadLettersAreExact

(* Refinement of JobDelivery. *)

\* A report that leaves every job's stage alone finishes the reporter's work,
\* or is a report on somebody else's job and changes nothing.
LEMMA ReportIsFinish ==
  ASSUME IInv, NEW c \in Callers, NEW j \in Jobs, Release(c, j),
         \A k \in Jobs : Stage(k)' = Stage(k)
  PROVE  [Delivery!Next]_Delivery!vars
<1>1. UNCHANGED [k \in Jobs |-> Stage(k)]
  OBVIOUS
<1>2. CASE held[c] = j
  <2>1. held' = [held EXCEPT ![c] = Nobody] /\ held[c] # Nobody
    BY <1>2, ConstantsOK DEF Release
  <2>2. Delivery!Finish(c)
    BY <1>1, <2>1 DEF Delivery!Finish
  <2>. QED
    BY <2>2 DEF Delivery!Next
<1>3. CASE held[c] # j
  <2>1. held' = held
    BY <1>3 DEF Release, IInv, TypeOK
  <2>. QED
    BY <1>1, <2>1 DEF Delivery!vars
<1>. QED
  BY <1>2, <1>3

LEMMA EnqueueIsAccept ==
  ASSUME IInv, NEW j \in Jobs, NEW q \in Queues, NEW r \in Retries, NEW t \in 0..MaxTime,
         Enqueue(j, q, r, t)
  PROVE  Delivery!Accept(j)
<1>1. /\ ToSet(queue'[q]) = ToSet(queue[q]) \cup {j}
      /\ \A n \in Names : n # q => queue'[n] = queue[n]
  BY AppendSet, NamesApart DEF Enqueue, IInv, TypeOK
<1>2. j \notin ToSet(queue'[Dlq[q]])
  BY <1>1, NamesApart DEF Enqueue, Known, IInv, DeadLettersAreFinal
<1>3. home' = [home EXCEPT ![j] = q] /\ status' = [status EXCEPT ![j] = "PENDING"] /\ ~Known(j)
  BY DEF Enqueue
<1>4. Stage(j) = "fresh" /\ Stage(j)' = "waiting"
  BY <1>1, <1>2, <1>3 DEF Stage, Known, Listed, IInv, TypeOK
<1>5. \A k \in Jobs \ {j} : Stage(k)' = Stage(k)
  <2>. SUFFICES ASSUME NEW k \in Jobs \ {j} PROVE Stage(k)' = Stage(k)
    OBVIOUS
  <2>1. home'[k] = home[k] /\ status'[k] = status[k] /\ home[k] \in Queues
    BY <1>3 DEF IInv, TypeOK
  <2>2. queue'[Dlq[home[k]]] = queue[Dlq[home[k]]]
    BY <1>1, <2>1, NamesApart
  <2>3. k \in ToSet(queue'[home[k]]) <=> k \in ToSet(queue[home[k]])
    BY <1>1, <2>1, NamesApart
  <2>. QED
    BY <2>1, <2>2, <2>3 DEF Stage, Known, Listed
<1>6. [k \in Jobs |-> Stage(k)]' = [[k \in Jobs |-> Stage(k)] EXCEPT ![j] = "waiting"]
  BY <1>4, <1>5
<1>7. held' = held
  BY DEF Enqueue
<1>. QED
  BY <1>4, <1>6, <1>7 DEF Delivery!Accept, Delivery!Moves

LEMMA DequeueIsTake ==
  ASSUME IInv, NEW c \in Callers, NEW n \in Names, Dequeue(c, n)
  PROVE  \E j \in Jobs : Delivery!Take(c, j)
<1>1. PICK j \in ToSet(queue[n]) :
        /\ j \in Jobs
        /\ ToSet(queue'[n]) = ToSet(queue[n]) \ {j}
        /\ \A m \in Names : m # n => queue'[m] = queue[m]
        /\ held' = [held EXCEPT ![c] = j]
  BY DequeueIsFromQueue
<1>2. n \in Queues /\ held[c] = Nobody
  BY DequeueIsFromQueue
<1>3. UNCHANGED <<status, home>>
  <2>1. UNCHANGED <<status, job>>
    BY DEF Dequeue
  <2>. QED
    BY <2>1 DEF job
<1>4. Known(j) /\ home[j] = n
  BY <1>1, <1>2 DEF IInv, WaitsOnce
<1>5. \A q \in Queues : queue'[Dlq[q]] = queue[Dlq[q]]
  BY <1>1, <1>2, NamesApart
<1>6. j \notin ToSet(queue[Dlq[n]])
  BY <1>1, <1>2 DEF IInv, DeadLettersAreFinal, Listed
<1>7. Stage(j) = "waiting" /\ Stage(j)' = "out"
  BY <1>1, <1>2, <1>3, <1>4, <1>5, <1>6 DEF Stage, Known, Listed
<1>8. \A k \in Jobs \ {j} : Stage(k)' = Stage(k)
  <2>. SUFFICES ASSUME NEW k \in Jobs \ {j} PROVE Stage(k)' = Stage(k)
    OBVIOUS
  <2>1. home[k] \in Queues
    BY DEF IInv, TypeOK
  <2>2. k \in ToSet(queue'[home[k]]) <=> k \in ToSet(queue[home[k]])
    BY <1>1, <2>1, NamesApart
  <2>. QED
    BY <1>3, <1>5, <2>1, <2>2 DEF Stage, Known, Listed
<1>9. [k \in Jobs |-> Stage(k)]' = [[k \in Jobs |-> Stage(k)] EXCEPT ![j] = "out"]
  BY <1>7, <1>8
<1>10. Delivery!Take(c, j)
  BY <1>1, <1>2, <1>7, <1>9 DEF Delivery!Take, Delivery!Moves
<1>. QED
  BY <1>1, <1>10

LEMMA NackDeadIsBury ==
  ASSUME IInv, NEW c \in Callers, NEW j \in Jobs, NackDead(c, j)
  PROVE  Delivery!Bury(c, j)
<1>1. /\ Bury(j) /\ Release(c, j) /\ Known(j) /\ UNCHANGED home
      /\ status' = [status EXCEPT ![j] = "DEAD"]
  BY DEF NackDead
<1>2. \A k \in Jobs : Known(k)' <=> Known(k)
  BY <1>1 DEF Known, IInv, TypeOK
<1>3. \A k \in Jobs : home[k] \in Queues
  BY DEF IInv, TypeOK
<1>4. \A k \in Jobs \ {j} :
        /\ k \in ToSet(queue'[home[k]]) <=> k \in ToSet(queue[home[k]])
        /\ k \in ToSet(queue'[Dlq[home[k]]]) <=> k \in ToSet(queue[Dlq[home[k]]])
  <2>. SUFFICES ASSUME NEW k \in Jobs \ {j}
                PROVE  /\ k \in ToSet(queue'[home[k]]) <=> k \in ToSet(queue[home[k]])
                       /\ k \in ToSet(queue'[Dlq[home[k]]]) <=> k \in ToSet(queue[Dlq[home[k]]])
    OBVIOUS
  <2>1. CASE home[k] = home[j]
    <3>1. /\ ToSet(queue'[home[j]]) = ToSet(queue[home[j]]) \ {j}
          /\ ToSet(queue'[Dlq[home[j]]]) = ToSet(queue[Dlq[home[j]]]) \cup {j}
      BY <1>1, BuryIs
    <3>. QED
      BY <2>1, <3>1
  <2>2. CASE home[k] # home[j]
    <3>1. queue'[home[k]] = queue[home[k]] /\ queue'[Dlq[home[k]]] = queue[Dlq[home[k]]]
      BY <2>2, <1>1, <1>3, BuryIs, NamesApart
    <3>. QED
      BY <3>1
  <2>. QED
    BY <2>1, <2>2
<1>5. \A k \in Jobs \ {j} : Stage(k)' = Stage(k)
  BY <1>1, <1>2, <1>4 DEF Stage, Listed
<1>6. Stage(j) # "fresh" /\ Stage(j)' = "dead"
  <2>1. ToSet(queue'[Dlq[home[j]]]) = ToSet(queue[Dlq[home[j]]]) \cup {j}
    BY <1>1, BuryIs
  <2>. QED
    BY <2>1, <1>1, <1>2 DEF Stage, Listed
<1>7. [k \in Jobs |-> Stage(k)]' = [[k \in Jobs |-> Stage(k)] EXCEPT ![j] = "dead"]
  BY <1>5, <1>6
<1>. QED
  BY <1>1, <1>6, <1>7 DEF Delivery!Bury, Delivery!Moves, Delivery!LetsGo, Release

LEMMA StepIsDelivery ==
  ASSUME IInv, [Next]_vars
  PROVE  [Delivery!Next]_Delivery!vars
<1>1. ASSUME NEW j \in Jobs, NEW q \in Queues, NEW r \in Retries, NEW t \in 0..MaxTime,
             Enqueue(j, q, r, t)
      PROVE  Delivery!Next
  BY <1>1, EnqueueIsAccept DEF Delivery!Next
<1>2. ASSUME NEW c \in Callers, NEW n \in Names, Dequeue(c, n)
      PROVE  Delivery!Next
  BY <1>2, DequeueIsTake DEF Delivery!Next
<1>3. ASSUME NEW c \in Callers, NEW j \in Jobs, Report(c, j)
      PROVE  [Delivery!Next]_Delivery!vars
  <2>1. CASE Ack(c, j) \/ NackRetry(c, j) \/ NackFail(c, j)
    <3>1. /\ UNCHANGED queue /\ Release(c, j) /\ Known(j)
          /\ \E s \in Statuses : status' = [status EXCEPT ![j] = s]
      BY <2>1 DEF Ack, NackRetry, NackFail, Statuses
    <3>2. UNCHANGED home
      BY <2>1 DEF Ack, NackRetry, NackFail, job
    <3>3. \A k \in Jobs : Stage(k)' = Stage(k)
      BY <3>1, <3>2 DEF Stage, Known, Listed, Statuses, IInv, TypeOK
    <3>. QED
      BY <3>1, <3>3, ReportIsFinish
  <2>2. CASE NackDead(c, j)
    BY <2>2, NackDeadIsBury DEF Delivery!Next
  <2>. QED
    BY <1>3, <2>1, <2>2 DEF Report
<1>4. CASE Tick \/ UNCHANGED vars
  <2>1. UNCHANGED <<queue, status, home, held>>
    BY <1>4 DEF Tick, vars, job
  <2>. QED
    BY <2>1 DEF Delivery!vars, Stage, Known, Listed
<1>. QED
  BY <1>1, <1>2, <1>3, <1>4 DEF Next

\* Every step of the adapter is a step of the delivery protocol or leaves it
\* alone: whatever the callers report, a job is taken only while it waits and
\* a dead letter is never taken.
THEOREM Implements == Spec => ImplementsDelivery
<1>1. Init => Delivery!Init
  BY ConstantsOK DEF Init, Delivery!Init, Stage, Known
<1>. QED
  BY <1>1, StepIsDelivery, InductiveInvariant, PTL DEF Spec, ImplementsDelivery, Delivery!Spec
=============================================================================
