------------------------------- MODULE SaqQueue -------------------------------
(***************************************************************************)
(* SaQAdapter on the jobs of one queue, by coroutines of one process, next *)
(* to other processes.  SAQ and Redis are external: every call to them is  *)
(* an await, at which the other coroutines run.  What get_dlq_jobs         *)
(* iterates is the very set that nack adds to, and it ends by putting a    *)
(* new one in its place; `own` says whether the set a listing iterates is  *)
(* still the registered one.                                               *)
(***************************************************************************)
EXTENDS Naturals, FiniteSets

CONSTANTS
  Jobs,       \* job keys
  Reporters,  \* coroutines that call ack, nack or get_job
  Listers,    \* coroutines that call get_dlq_jobs
  NoJob       \* the job of an idle reporter

Statuses == {"queued", "scheduled", "active", "complete", "failed", "aborted"}
Verdicts == {"ack", "retry", "abort", "get"}

VARIABLES
  saqStatus,  \* Redis: the status of each job, "none" if it has no such key any
              \* more and "unborn" if it never had
  known,      \* _job_queue_map: the jobs whose queue this process knows
  registry,   \* _dlq[dlq_key]
  report,     \* per reporter: its job, its verdict and where it is
  listing     \* per lister: what is left to fetch, what was found, the object

vars == <<saqStatus, known, registry, report, listing>>

Quiet == [at |-> "idle", job |-> NoJob, verdict |-> "ack", grown |-> FALSE]
NoListing == [on |-> FALSE, todo |-> {}, found |-> {}, own |-> FALSE, grown |-> FALSE]

TypeOK ==
  /\ saqStatus \in [Jobs -> Statuses \cup {"none", "unborn"}]
  /\ known \subseteq Jobs
  /\ registry \subseteq Jobs
  /\ report \in [Reporters -> [at : {"idle", "find", "tell"},
                               job : Jobs \cup {NoJob}, verdict : Verdicts,
                               grown : BOOLEAN]]
  /\ listing \in [Listers -> [on : BOOLEAN, todo : SUBSET Jobs, found : SUBSET Jobs,
                              own : BOOLEAN, grown : BOOLEAN]]

Init ==
  /\ saqStatus = [j \in Jobs |-> "unborn"]
  /\ known = {}
  /\ registry = {}
  /\ report = [c \in Reporters |-> Quiet]
  /\ listing = [l \in Listers |-> NoListing]

\* The process that enqueues or dequeues a job knows its queue; if it is
\* another one, this process does not.
Track(j) == known' \in {known, known \cup {j}}

\* enqueue() and schedule(); what cannot be serialised raises before.
Enqueue(j) ==
  /\ saqStatus[j] = "unborn"
  /\ \E s \in {"queued", "scheduled"} : saqStatus' = [saqStatus EXCEPT ![j] = s]
  /\ Track(j)
  /\ UNCHANGED <<registry, report, listing>>

\* SAQ queues a scheduled job when it is due,
Due(j) ==
  /\ saqStatus[j] = "scheduled"
  /\ saqStatus' = [saqStatus EXCEPT ![j] = "queued"]
  /\ UNCHANGED <<known, registry, report, listing>>

\* and hands a queued one to dequeue().
Dequeue(j) ==
  /\ saqStatus[j] = "queued"
  /\ saqStatus' = [saqStatus EXCEPT ![j] = "active"]
  /\ Track(j)
  /\ UNCHANGED <<registry, report, listing>>

\* A call names a queue this process has not used yet: the dict that a search
\* for a job of an unknown queue iterates grows.
OpenQueue ==
  /\ report' = [c \in Reporters |->
       IF report[c].at = "find" /\ report[c].job \notin known
       THEN [report[c] EXCEPT !.grown = TRUE] ELSE report[c]]
  /\ UNCHANGED <<saqStatus, known, registry, listing>>

\* Redis drops a job that has ended, after its TTL.
Expire(j) ==
  /\ saqStatus[j] \in {"complete", "failed", "aborted"}
  /\ saqStatus' = [saqStatus EXCEPT ![j] = "none"]
  /\ UNCHANGED <<known, registry, report, listing>>

\* ack(), nack() or get_job() is called and awaits find_job_in_queues.
Report(c, j, v) ==
  /\ report[c].at = "idle"
  /\ report' = [report EXCEPT ![c] = [Quiet EXCEPT !.at = "find", !.job = j, !.verdict = v]]
  /\ UNCHANGED <<saqStatus, known, registry, listing>>

\* The job is found in the queue known or by trying every queue,
Find(c) ==
  /\ report[c].at = "find"
  /\ LET j == report[c].job
         found == saqStatus[j] \notin {"none", "unborn"}
     IN  /\ report' = [report EXCEPT ![c] =
              IF found /\ @.verdict # "get" THEN [@ EXCEPT !.at = "tell", !.grown = FALSE] ELSE Quiet]
         /\ known' = IF found THEN known \cup {j} ELSE known
  /\ UNCHANGED <<saqStatus, registry, listing>>

\* or the search ends in a RuntimeError, because the dict grew under it.
FindFails(c) ==
  /\ report[c].at = "find" /\ report[c].grown
  /\ report' = [report EXCEPT ![c] = Quiet]
  /\ UNCHANGED <<saqStatus, known, registry, listing>>

\* _register_dlq: the set grows under the listings that iterate it.
Register(j) ==
  /\ registry' = registry \cup {j}
  /\ listing' = [l \in Listers |->
       IF listing[l].on /\ listing[l].own /\ j \notin registry
       THEN [listing[l] EXCEPT !.grown = TRUE] ELSE listing[l]]

\* A job Redis dropped since it was found is not brought back.
Becomes(j, s) ==
  saqStatus' = [saqStatus EXCEPT ![j] = IF @ = "none" THEN @ ELSE s]

\* SAQ finishes, retries or aborts the job; a retry may find no attempt left.
\* nack() registers a job that ended dead.
Tell(c) ==
  /\ report[c].at = "tell"
  /\ LET j == report[c].job IN
       \E s \in CASE report[c].verdict = "ack"   -> {"complete"}
                  [] report[c].verdict = "retry" -> {"queued", "failed"}
                  [] OTHER                       -> {"aborted"} :
         /\ Becomes(j, s)
         /\ IF s \in {"failed", "aborted"} THEN Register(j)
                                           ELSE UNCHANGED <<registry, listing>>
  /\ report' = [report EXCEPT ![c] = Quiet]
  /\ UNCHANGED known

\* get_dlq_jobs is called; an empty registry is answered at once.
List(l) ==
  /\ ~listing[l].on
  /\ registry # {}
  /\ listing' = [listing EXCEPT ![l] =
       [on |-> TRUE, todo |-> registry, found |-> {}, own |-> TRUE, grown |-> FALSE]]
  /\ UNCHANGED <<saqStatus, known, registry, report>>

\* Mutant of Fetch: the jobs found are not kept.
FetchKeepsNone(l) ==
  /\ listing[l].on
  /\ \E j \in listing[l].todo :
       LET rest == listing[l].todo \ {j} IN
         IF listing[l].grown \/ rest # {}
         THEN /\ listing' = [listing EXCEPT ![l] =
                   IF listing[l].grown THEN NoListing ELSE [@ EXCEPT !.todo = rest]]
              /\ UNCHANGED registry
         ELSE /\ registry' = {}
              /\ listing' = [k \in Listers |->
                   IF k = l THEN NoListing ELSE [listing[k] EXCEPT !.own = FALSE]]
  /\ UNCHANGED <<saqStatus, known, report>>

\* The answer for one more job, and the step of the loop after it: a set that
\* grew is a RuntimeError, the end of the set replaces the registered object.
Fetch(l) ==
  /\ listing[l].on
  /\ \E j \in listing[l].todo :
       LET rest == listing[l].todo \ {j}
           found == listing[l].found \cup {k \in {j} : saqStatus[k] # "none"}
       IN IF listing[l].grown \/ rest # {}
          THEN /\ listing' = [listing EXCEPT ![l] =
                    IF listing[l].grown THEN NoListing
                    ELSE [@ EXCEPT !.todo = rest, !.found = found]]
               /\ UNCHANGED registry
          ELSE /\ registry' = found
               /\ listing' = [k \in Listers |->
                    IF k = l THEN NoListing ELSE [listing[k] EXCEPT !.own = FALSE]]
  /\ UNCHANGED <<saqStatus, known, report>>

Next ==
  \/ OpenQueue
  \/ \E j \in Jobs : Enqueue(j) \/ Due(j) \/ Dequeue(j) \/ Expire(j)
  \/ \E c \in Reporters :
       \/ \E j \in Jobs, v \in Verdicts : Report(c, j, v)
       \/ Find(c) \/ FindFails(c)
       \/ Tell(c)
  \/ \E l \in Listers : List(l) \/ Fetch(l)

Spec == Init /\ [][Next]_vars

-----------------------------------------------------------------------------
(* Properties. *)

\* "Retrieve all DEAD jobs in the DLQ": a dead letter leaves the registry only
\* after Redis has dropped the job; no listing loses one that nack registered.
DeadAreListed ==
  [][\A j \in registry \ registry' : saqStatus[j] = "none"]_vars
=============================================================================
