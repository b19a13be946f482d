------------------------------ MODULE TaskQueue ------------------------------
(***************************************************************************)
(* The in-memory task queue (MemoryTaskQueueAdapter): one list per queue   *)
(* name, one more list per queue for its dead letters, and an index of all *)
(* jobs ever accepted.  No method awaits, so each call is one action.      *)
(* Callers know jobs by id and may ack or nack any of them at any time,    *)
(* taken or not: the adapter's own tests do.                               *)
(*                                                                         *)
(* The Job objects are shared by the lists and the index; their fields are *)
(* the functions status, attempts, maxRetries, home and due.               *)
(***************************************************************************)
EXTENDS Naturals, Sequences, SequencesExt

CONSTANTS
  Jobs,         \* job ids (uuid4, never drawn twice)
  Queues,       \* names the producers enqueue on
  Dlq,          \* Dlq[q]: q + dlq_suffix
  Callers,      \* coroutines that take jobs and report on them
  Retries,      \* values of max_retries in use
  Nobody,       \* "holds no job"
  MaxTime,      \* bound: the clock stops here
  MaxAttempts   \* bound: nack(requeue) is not called beyond this count

Names == Queues \cup {Dlq[q] : q \in Queues}

\* A producer's queue name never ends in the suffix, so no dead-letter list
\* is also a work queue.
ASSUME ConstantsOK ==
  /\ Queues # {}
  /\ Dlq \in [Queues -> Names]
  /\ \A q \in Queues : Dlq[q] \notin Queues
  /\ \A p, q \in Queues : Dlq[p] = Dlq[q] => p = q
  /\ Retries \subseteq Nat
  /\ Nobody \notin Jobs
  /\ MaxTime \in Nat
  /\ MaxAttempts \in Nat

VARIABLES
  queue,       \* _queues: name -> list of jobs
  status,      \* Job.status, or "absent" for an id not in _jobs_by_id
  attempts,    \* Job.attempts
  maxRetries,  \* Job.max_retries
  home,        \* Job.queue
  due,         \* Job.execute_at (0 when None)
  now,         \* datetime.now(UTC)
  held         \* the job each caller took and has not reported on yet

job  == <<attempts, maxRetries, home, due>>
vars == <<queue, status, job, now, held>>

Statuses == {"PENDING", "COMPLETED", "FAILED", "DEAD"}

TypeOK ==
  /\ queue \in [Names -> Seq(Jobs)]
  /\ status \in [Jobs -> Statuses \cup {"absent"}]
  /\ attempts \in [Jobs -> Nat]
  /\ maxRetries \in [Jobs -> Nat]
  /\ home \in [Jobs -> Queues]
  /\ due \in [Jobs -> 0..MaxTime]
  /\ now \in 0..MaxTime
  /\ held \in [Callers -> Jobs \cup {Nobody}]

Init ==
  /\ queue = [n \in Names |-> <<>>]
  /\ status = [j \in Jobs |-> "absent"]
  /\ attempts = [j \in Jobs |-> 0]
  /\ maxRetries = [j \in Jobs |-> 0]
  /\ home = [j \in Jobs |-> CHOOSE q \in Queues : TRUE]
  /\ due = [j \in Jobs |-> 0]
  /\ now = 0
  /\ held = [c \in Callers |-> Nobody]

-----------------------------------------------------------------------------
Known(j)  == status[j] # "absent"
Listed(j, n) == j \in ToSet(queue[n])
Ready(j)  == status[j] = "PENDING" /\ due[j] <= now

\* Caller c, if it holds j, is done with it.
Release(c, j) == held' = [held EXCEPT ![c] = IF @ = j THEN Nobody ELSE @]

\* enqueue (t = 0) and schedule: a new PENDING job at the end of the list.
Enqueue(j, q, r, t) ==
  /\ ~Known(j)
  /\ queue' = [queue EXCEPT ![q] = Append(@, j)]
  /\ status' = [status EXCEPT ![j] = "PENDING"]
  /\ maxRetries' = [maxRetries EXCEPT ![j] = r]
  /\ home' = [home EXCEPT ![j] = q]
  /\ due' = [due EXCEPT ![j] = t]
  /\ UNCHANGED <<attempts, now, held>>

\* Mutants of Dequeue: the job is returned but not deleted; the job is found
\* further down but the head of the list is deleted; only the head is looked at.
DequeueKeeps(c, n) ==
  /\ held[c] = Nobody
  /\ \E j \in ToSet(queue[n]) : Ready(j) /\ held' = [held EXCEPT ![c] = j]
  /\ UNCHANGED <<queue, status, job, now>>

DequeueDropsHead(c, n) ==
  /\ held[c] = Nobody
  /\ \E i \in DOMAIN queue[n] :
       /\ Ready(queue[n][i])
       /\ \A k \in 1..(i - 1) : ~Ready(queue[n][k])
       /\ queue' = [queue EXCEPT ![n] = Tail(@)]
       /\ held' = [held EXCEPT ![c] = queue[n][i]]
  /\ UNCHANGED <<status, job, now>>

DequeueHead(c, n) ==
  /\ held[c] = Nobody
  /\ queue[n] # <<>>
  /\ Ready(Head(queue[n]))
  /\ queue' = [queue EXCEPT ![n] = Tail(@)]
  /\ held' = [held EXCEPT ![c] = Head(queue[n])]
  /\ UNCHANGED <<status, job, now>>

\* dequeue: delete and return the first ready job; its status stays PENDING.
Dequeue(c, n) ==
  /\ held[c] = Nobody
  /\ \E i \in DOMAIN queue[n] :
       /\ Ready(queue[n][i])
       /\ \A k \in 1..(i - 1) : ~Ready(queue[n][k])
       /\ queue' = [queue EXCEPT ![n] = RemoveAt(@, i)]
       /\ held' = [held EXCEPT ![c] = queue[n][i]]
  /\ UNCHANGED <<status, job, now>>

\* ack: COMPLETED, whatever the status was.
Ack(c, j) ==
  /\ Known(j)
  /\ status' = [status EXCEPT ![j] = "COMPLETED"]
  /\ Release(c, j)
  /\ UNCHANGED <<queue, job, now>>

\* Mutant of Bury: the job stays in the main list.
BuryCopies(j) == queue' = [queue EXCEPT ![Dlq[home[j]]] = Append(@, j)]

\* _move_to_dlq, on the lists: out of the main list if it is there, then at
\* the end of the dead-letter list.
Bury(j) ==
  queue' = [queue EXCEPT ![home[j]] = RemoveFirst(@, j),
                         ![Dlq[home[j]]] = Append(@, j)]

\* Mutant of NackRetry: the count goes down.
NackRetryDown(c, j) ==
  /\ Known(j)
  /\ attempts[j] + 1 < maxRetries[j]
  /\ attempts' = [attempts EXCEPT ![j] = @ - 1]
  /\ status' = [status EXCEPT ![j] = "PENDING"]
  /\ Release(c, j)
  /\ UNCHANGED <<queue, maxRetries, home, due, now>>

\* nack(requeue=True), attempts left: PENDING again, the lists untouched.
NackRetry(c, j) ==
  /\ Known(j)
  /\ attempts[j] < MaxAttempts
  /\ attempts[j] + 1 < maxRetries[j]
  /\ attempts' = [attempts EXCEPT ![j] = @ + 1]
  /\ status' = [status EXCEPT ![j] = "PENDING"]
  /\ Release(c, j)
  /\ UNCHANGED <<queue, maxRetries, home, due, now>>

\* nack(requeue=True), attempts exhausted: to the dead letters.
NackDead(c, j) ==
  /\ Known(j)
  /\ attempts[j] < MaxAttempts
  /\ attempts[j] + 1 >= maxRetries[j]
  /\ attempts' = [attempts EXCEPT ![j] = @ + 1]
  /\ Bury(j)
  /\ status' = [status EXCEPT ![j] = "DEAD"]
  /\ Release(c, j)
  /\ UNCHANGED <<maxRetries, home, due, now>>

\* nack(requeue=False).
NackFail(c, j) ==
  /\ Known(j)
  /\ status' = [status EXCEPT ![j] = "FAILED"]
  /\ Release(c, j)
  /\ UNCHANGED <<queue, job, now>>

Report(c, j) == Ack(c, j) \/ NackRetry(c, j) \/ NackDead(c, j) \/ NackFail(c, j)

Tick ==
  /\ now < MaxTime
  /\ now' = now + 1
  /\ UNCHANGED <<queue, status, job, held>>

Next ==
  \/ \E j \in Jobs, q \in Queues, r \in Retries, t \in 0..MaxTime : Enqueue(j, q, r, t)
  \/ \E c \in Callers, n \in Names : Dequeue(c, n)
  \/ \E c \in Callers, j \in Jobs : Report(c, j)
  \/ Tick

Spec == Init /\ [][Next]_vars

\* Workers keep polling every queue and report on what they took; the clock
\* runs.  Nothing else is owed: producers and cancellers may stop at any time.
Fairness ==
  /\ \A n \in Queues : WF_vars(\E c \in Callers : Dequeue(c, n))
  /\ \A c \in Callers : WF_vars(\E j \in Jobs : held[c] = j /\ Report(c, j))
  /\ WF_vars(Tick)

FairSpec == Spec /\ Fairness

-----------------------------------------------------------------------------
(* Properties. *)

\* A job waits at most once in the list of its own queue and nowhere else
\* among the work queues, and nothing unaccepted waits.
WaitsOnce ==
  \A q \in Queues :
    /\ IsInjective(queue[q])
    /\ \A j \in ToSet(queue[q]) : Known(j) /\ home[j] = q

\* Taking a job locks it: a job a caller holds is in no work queue and no
\* other caller holds it (a dequeue never hands out the same job twice).
HeldByOne ==
  \A c \in Callers : held[c] # Nobody =>
    /\ Known(held[c])
    /\ \A q \in Queues : ~Listed(held[c], q)
    /\ \A d \in Callers : held[d] = held[c] => d = c

\* Dead letters are exhausted jobs of that queue, are in no work queue and
\* are never PENDING, so no later call can hand one out again.
DeadLettersAreFinal ==
  \A q \in Queues : \A j \in ToSet(queue[Dlq[q]]) :
    /\ home[j] = q
    /\ 0 < attempts[j] /\ maxRetries[j] <= attempts[j]
    /\ status[j] \notin {"absent", "PENDING"}
    /\ ~Listed(j, q)

\* Conversely only accepted jobs have attempts, and one that used up its
\* retries is filed in its dead letters, whoever reported it and how often.
ExhaustedIsFiled ==
  \A j \in Jobs : 0 < attempts[j] =>
    /\ Known(j)
    /\ maxRetries[j] <= attempts[j] => Listed(j, Dlq[home[j]])

\* The dead letters of a queue are its exhausted jobs, all of them and no other.
DeadLettersAreExact == DeadLettersAreFinal /\ ExhaustedIsFiled

\* The adapter implements the delivery a task queue promises: a job leaves
\* its work queue only into the hands of the caller that gets it or to the
\* dead letters, which no other call loses or overtakes, and a dead letter
\* stays one.  (A nacked job may be put back; this adapter never does.)
Stage(j) ==
  IF ~Known(j) THEN "fresh"
  ELSE IF Listed(j, Dlq[home[j]]) THEN "dead"
  ELSE IF Listed(j, home[j]) THEN "waiting" ELSE "out"

Delivery == INSTANCE JobDelivery WITH stage <- [j \in Jobs |-> Stage(j)], owner <- held

ImplementsDelivery == Delivery!Spec

\* Workers that keep polling drain a queue: a ready job is handed out or
\* reported on, whatever scheduled, finished or dead jobs sit before it.
ReadyIsServed ==
  \A j \in Jobs : Ready(j) /\ Listed(j, home[j]) ~> ~(Ready(j) /\ Listed(j, home[j]))

\* nack(requeue=True) is documented as a requeue for retry: a PENDING job is
\* in its queue or in a caller's hands.
PendingIsReachable ==
  \A j \in Jobs : status[j] = "PENDING" =>
    Listed(j, home[j]) \/ \E c \in Callers : held[c] = j
=============================================================================
