---------------------------- MODULE ServicesProofs ----------------------------
(***************************************************************************)
(* Proofs about Services, for every number of services, jobs, reporters,   *)
(* subscriptions, requests, rules, callers, channels and threads: each     *)
(* component has an inductive invariant, and a step of the composition is  *)
(* a step of one component that leaves the others alone.                   *)
(***************************************************************************)
EXTENDS Services, SeqLemmas

-----------------------------------------------------------------------------
(* Bootstrap, whose theorems are about its own specification.              *)

\* A manager past the one shutdown() is at is stopped, one before it is not
\* being stopped; nothing is being stopped before shutdown() runs.
Progress ==
  \A m \in Managers :
    /\ m > next => stop[m] \in {"stopped", "failed"}
    /\ m < next => stop[m] = "no"
    /\ main \in {"new", "startup", "waiting"} => stop[m] = "no"

\* No start() is in flight once the TaskGroup is left.
Joined ==
  \A m \in Managers :
    /\ main = "new" => start[m] = "none"
    /\ main # "new" => start[m] # "none"
    /\ main \notin {"new", "startup"} => ~InFlight(m)

IInv == TypeOK /\ Progress /\ Joined

LEMMA InitIInv == Init => IInv
<1> SUFFICES ASSUME Init PROVE IInv
  OBVIOUS
<1> USE ConstantsOK DEF ConstantsOK, Init, Managers
<1>1. TypeOK
  <2>1. start \in [Managers -> {"none", "new", "starting", "up", "failed", "cancelled"}]
    OBVIOUS
  <2>2. stop \in [Managers -> {"no", "stopping", "stopped", "failed"}]
    OBVIOUS
  <2>3. next \in 0..N
    OBVIOUS
  <2> QED
    BY <2>1, <2>2, <2>3 DEF TypeOK
<1>2. Progress
  BY DEF Progress
<1>3. Joined
  BY DEF Joined
<1> QED
  BY <1>1, <1>2, <1>3 DEF IInv

LEMMA StepIInv == IInv /\ [Next]_vars => IInv'
<1> SUFFICES ASSUME IInv, [Next]_vars PROVE IInv'
  OBVIOUS
<1> USE ConstantsOK DEF ConstantsOK, IInv, TypeOK, Progress, Joined, Managers, InFlight
<1>1. CASE Run
  BY <1>1 DEF Run, shutdown
<1>2. ASSUME NEW m \in Managers, BeginStart(m) PROVE IInv'
  BY <1>2 DEF BeginStart, shutdown
<1>3. ASSUME NEW m \in Managers, NEW ended \in {"up", "failed", "cancelled"},
             EndStart(m, ended)
      PROVE IInv'
  BY <1>3 DEF EndStart, shutdown
<1>4. CASE StartupEnds
  BY <1>4 DEF StartupEnds, Leave, startup, shutdown
<1>5. CASE Signal
  BY <1>5 DEF Signal, startup, shutdown
<1>6. CASE SecondSignal
  BY <1>6 DEF SecondSignal, startup, shutdown
<1>7. CASE Wake
  BY <1>7 DEF Wake, Leave, startup, shutdown
<1>8. CASE BeginStop
  BY <1>8 DEF BeginStop, startup
<1>9. ASSUME NEW ended \in {"stopped", "failed"}, EndStop(ended) PROVE IInv'
  BY <1>9 DEF EndStop, startup
<1>10. CASE ShutdownEnds
  BY <1>10 DEF ShutdownEnds, startup, shutdown
<1>11. CASE Cancel
  BY <1>11 DEF Cancel, Leave
<1>12. CASE UNCHANGED vars
  BY <1>12 DEF vars, startup, shutdown
<1> QED
  BY <1>1, <1>2, <1>3, <1>4, <1>5, <1>6, <1>7, <1>8, <1>9, <1>10, <1>11, <1>12 DEF Next

\* Every value is of its type in every reachable state.
THEOREM TypeCorrect == Spec => []TypeOK
<1>1. IInv => TypeOK
  BY DEF IInv
<1> QED
  BY InitIInv, StepIInv, <1>1, PTL DEF Spec

\* Managers are stopped when no start() is in flight, one at a time and in
\* reverse, cancelled runs included.
THEOREM Ordered == Spec => []StopsInOrder
<1>1. IInv => StopsInOrder
  BY ConstantsOK DEF ConstantsOK, IInv, TypeOK, Progress, Joined, StopsInOrder, Managers, InFlight
<1> QED
  BY InitIInv, StepIInv, <1>1, PTL DEF Spec

-----------------------------------------------------------------------------
\* A start() that raised an Exception aborts the group, an aborted group never
\* gets to wait, and only a whole shutdown() ends the run.
Clean ==
  /\ main = "startup" /\ ~aborting => \A m \in Managers : start[m] # "failed"
  /\ WaitsWhenUp
  /\ main = "done" => next = 0

LEMMA InitClean == Init => Clean
  BY DEF Init, Clean, WaitsWhenUp, Managers

LEMMA StepClean == ASSUME IInv, Clean, [Next]_vars PROVE Clean'
<1> USE ConstantsOK DEF ConstantsOK, IInv, TypeOK, Joined, Clean, WaitsWhenUp, Managers, InFlight
<1>1. CASE Run
  BY <1>1 DEF Run, shutdown
<1>2. ASSUME NEW m \in Managers, BeginStart(m) PROVE Clean'
  BY <1>2 DEF BeginStart, shutdown
<1>3. ASSUME NEW m \in Managers, NEW ended \in {"up", "failed", "cancelled"},
             EndStart(m, ended)
      PROVE Clean'
  BY <1>3 DEF EndStart, shutdown
<1>4. CASE StartupEnds
  BY <1>4 DEF StartupEnds, Leave, startup, shutdown
<1>5. CASE Signal
  BY <1>5 DEF Signal, startup, shutdown
<1>6. CASE SecondSignal
  BY <1>6 DEF SecondSignal, startup, shutdown
<1>7. CASE Wake
  BY <1>7 DEF Wake, Leave, startup, shutdown
<1>8. CASE BeginStop
  BY <1>8 DEF BeginStop, startup
<1>9. ASSUME NEW ended \in {"stopped", "failed"}, EndStop(ended) PROVE Clean'
  BY <1>9 DEF EndStop, startup
<1>10. CASE ShutdownEnds
  BY <1>10 DEF ShutdownEnds, startup, shutdown
<1>11. CASE Cancel
  BY <1>11 DEF Cancel, Leave
<1>12. CASE UNCHANGED vars
  BY <1>12 DEF vars, startup, shutdown
<1> QED
  BY <1>1, <1>2, <1>3, <1>4, <1>5, <1>6, <1>7, <1>8, <1>9, <1>10, <1>11, <1>12 DEF Next

\* run() waits only when no start() raised, and a run that ends by itself has
\* stopped every manager.
THEOREM Complete == Spec => [](WaitsWhenUp /\ EveryoneStopped)
<1>1. IInv /\ Clean /\ [Next]_vars => (IInv /\ Clean)'
  BY StepIInv, StepClean
<1>2. IInv /\ Clean => WaitsWhenUp /\ EveryoneStopped
  BY ConstantsOK DEF ConstantsOK, IInv, TypeOK, Progress, Clean, EveryoneStopped, Managers
<1> QED
  BY InitIInv, InitClean, <1>1, <1>2, PTL DEF Spec

-----------------------------------------------------------------------------
(* The other services.                                                     *)

\* The bounds, one by one.
LEMMA BoundsAre ==
  /\ MaxRedisEvents \in Nat /\ MaxBreaks \in Nat /\ MaxNatsEvents \in Nat /\ Rate \in Nat
  /\ NRules \in Nat /\ NChannels \in Nat /\ Throttle \in Nat /\ MaxTime \in Nat /\ MaxCalls \in Nat
BY ServicesOK

-----------------------------------------------------------------------------
(* Health: a call in progress has entered every answer it got, and nothing *)
(* else, under the answer's name; the last one of a name is what is shown. *)

Asked == 1..pos

Shown(s) == IF answered[s] = "raises" THEN "unhealthy" ELSE answered[s]

\* s answered last, of those that gave the same name so far.
LastService(s) == \A t \in Asked : s < t => H!Key(t) # H!Key(s)

HInv ==
  /\ H!TypeOK
  /\ pos <= NServices =>
       /\ \A s \in Asked : answered[s] # "none"
       /\ \A s \in Asked : LastService(s) => result[H!Key(s)] = Shown(s)
       /\ \A n \in H!Keys : result[n] # "none" => \E s \in Asked : LastService(s) /\ n = H!Key(s)

LEMMA HInit == H!Init => HInv
<1> SUFFICES ASSUME H!Init PROVE HInv
  OBVIOUS
<1>1. pos \in 0..(NServices + 1) /\ ~(pos <= NServices)
  BY ServicesOK DEF H!Init
<1>2. result \in [H!Keys -> (H!Conditions \ {"raises"}) \cup {"none"}]
  BY DEF H!Init, H!Empty
<1>. QED
  BY <1>1, <1>2 DEF H!Init, HInv, H!TypeOK, H!Conditions

LEMMA AnswerKeeps == ASSUME HInv, H!Answer PROVE HInv'
<1>0. PICK s \in 1..NServices : s = pos + 1
  BY ServicesOK DEF HInv, H!TypeOK, H!Answer
<1> DEFINE e == IF condition[s] = "raises" THEN Unknown ELSE name[s]
           c == IF condition[s] = "raises" THEN "unhealthy" ELSE condition[s]
<1>1. /\ pos \in 0..(NServices - 1) /\ pos <= NServices /\ s \in H!Services
      /\ pos' = s /\ s <= NServices
      /\ \A k \in 1..pos : k \in 1..NServices /\ k < s
      /\ 1..s = 1..pos \cup {s}
  BY <1>0, ServicesOK DEF HInv, H!TypeOK, H!Answer, H!Services
<1>2. /\ answered' = [answered EXCEPT ![s] = condition[s]]
      /\ result' = [result EXCEPT ![e] = c]
      /\ UNCHANGED <<name, condition, verdict>>
  BY <1>0 DEF H!Answer
<1>3. /\ condition[s] \in H!Conditions
      /\ c \in (H!Conditions \ {"raises"}) /\ c # "none"
      /\ e \in H!Keys
  BY <1>1 DEF HInv, H!TypeOK, H!Keys, H!Conditions
<1>4. H!TypeOK'
  <2>1. pos' \in 0..(NServices + 1)
    BY <1>1, ServicesOK
  <2>. HIDE DEF e, c
  <2>. QED
    BY <2>1, <1>1, <1>2, <1>3 DEF HInv, H!TypeOK
<1>5. /\ answered'[s] = condition[s] /\ \A k \in 1..pos : answered'[k] = answered[k]
      /\ result'[e] = c
      /\ \A n \in H!Keys : n # e => result'[n] = result[n]
  BY <1>1, <1>2, <1>3 DEF HInv, H!TypeOK
<1>6. H!Key(s)' = e /\ Shown(s)' = c /\ answered'[s] # "none"
  BY <1>2, <1>3, <1>5 DEF H!Key, Shown, H!Conditions
<1>7. \A k \in 1..pos : H!Key(k)' = H!Key(k) /\ Shown(k)' = Shown(k)
  BY <1>2, <1>5 DEF H!Key, Shown
<1>8. \A k \in 1..pos : H!Key(k) \in H!Keys
  BY <1>1 DEF H!Key, H!Keys, H!Services, HInv, H!TypeOK
<1>. HIDE DEF e, c
<1>9. LastService(s)'
  BY <1>1 DEF LastService, Asked
\* The answers under other names show as before, those under this one do not.
<1>10. ASSUME NEW k \in 1..pos PROVE LastService(k)' <=> LastService(k) /\ H!Key(k) # e
  <2>1. LastService(k)' <=> \A t \in 1..pos \cup {s} : k < t => H!Key(t)' # H!Key(k)'
    BY <1>1 DEF LastService, Asked
  <2>. QED
    BY <2>1, <1>1, <1>6, <1>7 DEF LastService, Asked
<1>11. ASSUME NEW k \in Asked' PROVE answered'[k] # "none"
  BY <1>1, <1>5, <1>6 DEF Asked, HInv
<1>12. ASSUME NEW k \in Asked', LastService(k)' PROVE result'[H!Key(k)'] = Shown(k)'
  <2>1. CASE k = s
    BY <2>1, <1>5, <1>6
  <2>2. CASE k \in 1..pos
    <3>1. LastService(k) /\ H!Key(k) # e
      BY <2>2, <1>10, <1>12
    <3>2. result[H!Key(k)] = Shown(k)
      BY <2>2, <3>1, <1>1 DEF HInv, Asked
    <3>. QED
      BY <2>2, <3>1, <3>2, <1>5, <1>7, <1>8
  <2>. QED
    BY <2>1, <2>2, <1>1 DEF Asked
<1>13. ASSUME NEW n \in H!Keys, result'[n] # "none"
       PROVE  \E k \in Asked' : LastService(k)' /\ n = H!Key(k)'
  <2>1. CASE n = e
    BY <2>1, <1>1, <1>6, <1>9 DEF Asked
  <2>2. CASE n # e
    <3>1. PICK k \in Asked : LastService(k) /\ n = H!Key(k)
      BY <2>2, <1>1, <1>5, <1>13 DEF HInv
    <3>2. k \in 1..pos /\ k \in Asked'
      BY <1>1 DEF Asked
    <3>. QED
      BY <3>1, <3>2, <2>2, <1>7, <1>10
  <2>. QED
    BY <2>1, <2>2
<1>. QED
  BY <1>4, <1>11, <1>12, <1>13 DEF HInv

LEMMA HStep == ASSUME HInv, H!Next \/ UNCHANGED healthVars PROVE HInv'
<1>1. CASE H!Call
  BY <1>1, ServicesOK DEF H!Call, H!Empty, HInv, H!TypeOK, H!Conditions, Asked
<1>2. CASE H!Answer
  BY <1>2, AnswerKeeps
<1>3. CASE H!Return
  <2>1. pos' = NServices + 1 /\ verdict' \in BOOLEAN /\ UNCHANGED <<name, condition, result, answered>>
    BY <1>3 DEF H!Return
  <2>2. pos' \in 0..(NServices + 1) /\ ~(pos' <= NServices)
    BY <2>1, ServicesOK
  <2>. QED
    BY <2>1, <2>2 DEF HInv, H!TypeOK
<1>4. CASE H!Change
  <2>1. condition' \in [H!Services -> H!Conditions] /\ UNCHANGED <<name, result, pos, verdict, answered>>
    BY <1>4 DEF H!Change, HInv, H!TypeOK
  <2>. QED
    BY <2>1 DEF HInv, H!TypeOK, Asked, LastService, Shown, H!Key
<1>5. CASE UNCHANGED healthVars
  BY <1>5 DEF healthVars, HInv, H!TypeOK, Asked, LastService, Shown, H!Key
<1>. QED
  BY <1>1, <1>2, <1>3, <1>4, <1>5 DEF H!Next

LEMMA VerdictIs ==
  ASSUME HInv, H!Return
  PROVE  verdict' <=> \A s \in H!Services : answered[s] = "healthy" \/ H!Overwritten(s)
<1>1. /\ pos <= NServices /\ Asked = H!Services
      /\ verdict' = \A n \in H!Keys : result[n] \in {"healthy", "none"}
  BY ServicesOK DEF H!Return, HInv, H!TypeOK, Asked, H!Services
<1>2. \A s \in H!Services : LastService(s) <=> ~H!Overwritten(s)
  BY <1>1 DEF LastService, H!Overwritten
<1>3. \A s \in H!Services : H!Key(s) \in H!Keys
  BY DEF H!Key, H!Keys, HInv, H!TypeOK
<1>4. ASSUME verdict', NEW s \in H!Services, ~H!Overwritten(s) PROVE answered[s] = "healthy"
  BY <1>1, <1>2, <1>3, <1>4 DEF HInv, Shown
<1>5. ASSUME \A s \in H!Services : answered[s] = "healthy" \/ H!Overwritten(s), NEW n \in H!Keys
      PROVE  result[n] \in {"healthy", "none"}
  BY <1>1, <1>2, <1>5 DEF HInv, Shown
<1>. QED
  BY <1>1, <1>4, <1>5

-----------------------------------------------------------------------------
(* SaqQueue: a reporter under way has a job, and the only listing under way *)
(* will put back every registered job that Redis still has.                *)

ReportType == [at : {"idle", "find", "tell"}, job : Jobs \cup {NoJob}, verdict : Q!Verdicts, grown : BOOLEAN]
ListingType == [on : BOOLEAN, todo : SUBSET Jobs, found : SUBSET Jobs, own : BOOLEAN, grown : BOOLEAN]
StatusType == [Jobs -> Q!Statuses \cup {"none", "unborn"}]

QInv ==
  /\ saqStatus \in StatusType
  /\ known \subseteq Jobs
  /\ registry \subseteq Jobs
  /\ report \in [Reporters -> ReportType]
  /\ \A c \in Reporters : report[c].at # "idle" => report[c].job \in Jobs
  /\ listing \in [Listers -> ListingType]

LEMMA QTypes == QInv => Q!TypeOK
BY DEF QInv, Q!TypeOK, StatusType, ReportType, ListingType

OneLister == \A k, l \in Listers : k = l

Listed ==
  \A l \in Listers : listing[l].on =>
    /\ listing[l].own
    /\ listing[l].grown \/
         \A j \in registry : j \in listing[l].todo \cup listing[l].found \/ saqStatus[j] = "none"

LEMMA QInit == Q!Init => QInv /\ Listed
<1> SUFFICES ASSUME Q!Init PROVE QInv /\ Listed
  OBVIOUS
<1>1. Q!Quiet \in ReportType /\ Q!NoListing \in ListingType
  BY DEF Q!Quiet, Q!NoListing, ReportType, ListingType, Q!Verdicts
<1>2. /\ saqStatus \in StatusType /\ known \subseteq Jobs /\ registry \subseteq Jobs
      /\ report \in [Reporters -> ReportType] /\ listing \in [Listers -> ListingType]
  BY <1>1 DEF Q!Init, StatusType
<1>3. \A c \in Reporters : report[c].at = "idle"
  BY DEF Q!Init, Q!Quiet
<1>4. \A l \in Listers : ~listing[l].on
  BY DEF Q!Init, Q!NoListing
<1>. QED
  BY <1>2, <1>3, <1>4 DEF QInv, Listed

\* What a reporter or a lister becomes is of its type.
LEMMA QuietIs == Q!Quiet \in ReportType /\ Q!Quiet.at = "idle"
BY DEF Q!Quiet, ReportType, Q!Verdicts

LEMMA ReportIs ==
  ASSUME NEW r \in ReportType, NEW j \in Jobs, NEW v \in Q!Verdicts
  PROVE  /\ [r EXCEPT !.at = "tell", !.grown = FALSE] \in ReportType
         /\ [r EXCEPT !.at = "tell", !.grown = FALSE].job = r.job
         /\ [Q!Quiet EXCEPT !.at = "find", !.job = j, !.verdict = v] \in ReportType
         /\ [Q!Quiet EXCEPT !.at = "find", !.job = j, !.verdict = v].job = j
BY DEF Q!Quiet, ReportType, Q!Verdicts

LEMMA ListingIs ==
  ASSUME NEW l \in ListingType, NEW rest \in SUBSET Jobs, NEW found \in SUBSET Jobs
  PROVE  /\ Q!NoListing \in ListingType /\ ~Q!NoListing.on
         /\ [l EXCEPT !.grown = TRUE] \in ListingType
         /\ [l EXCEPT !.own = FALSE] \in ListingType
         /\ [l EXCEPT !.todo = rest, !.found = found] \in ListingType
         /\ [on |-> TRUE, todo |-> rest, found |-> {}, own |-> TRUE, grown |-> FALSE] \in ListingType
BY DEF Q!NoListing, ListingType

\* The calls of ack, nack and get_job.
LEMMA ReporterStep ==
  ASSUME QInv, NEW c \in Reporters,
         \/ \E j \in Jobs, v \in Q!Verdicts : Q!Report(c, j, v)
         \/ Q!Find(c) \/ Q!FindFails(c)
  PROVE  QInv' /\ UNCHANGED <<saqStatus, registry, listing>>
<1>1. /\ report[c] \in ReportType /\ report \in [Reporters -> ReportType]
      /\ \A d \in Reporters : report[d].at # "idle" => report[d].job \in Jobs
      /\ known \subseteq Jobs
  BY DEF QInv
<1>2. UNCHANGED <<saqStatus, registry, listing>>
  BY DEF Q!Report, Q!Find, Q!FindFails
<1>3. known' \subseteq Jobs /\ \E r \in ReportType :
        report' = [report EXCEPT ![c] = r] /\ (r.at # "idle" => r.job \in Jobs)
  <2>1. ASSUME NEW j \in Jobs, NEW v \in Q!Verdicts, Q!Report(c, j, v) PROVE <1>3
    <3> DEFINE r == [Q!Quiet EXCEPT !.at = "find", !.job = j, !.verdict = v]
    <3>1. r \in ReportType /\ r.job \in Jobs
      BY <1>1, ReportIs
    <3>2. report' = [report EXCEPT ![c] = r] /\ known' = known
      BY <2>1 DEF Q!Report
    <3>. HIDE DEF r
    <3>. QED
      BY <3>1, <3>2, <1>1
  <2>2. CASE Q!Find(c)
    <3> DEFINE j == report[c].job
               found == saqStatus[j] \notin {"none", "unborn"}
               r == IF found /\ report[c].verdict # "get"
                    THEN [report[c] EXCEPT !.at = "tell", !.grown = FALSE] ELSE Q!Quiet
    <3>1. j \in Jobs
      BY <2>2, <1>1 DEF Q!Find
    <3>2. r \in ReportType /\ (r.at # "idle" => r.job \in Jobs)
      BY <3>1, <1>1, ReportIs, QuietIs DEF Q!Verdicts
    <3>3. report' = [report EXCEPT ![c] = r]
      BY <2>2, <1>1 DEF Q!Find
    <3>4. known' \subseteq Jobs
      BY <2>2, <3>1, <1>1 DEF Q!Find
    <3>. HIDE DEF r
    <3>. QED
      BY <3>2, <3>3, <3>4
  <2>3. CASE Q!FindFails(c)
    BY <2>3, <1>1, QuietIs DEF Q!FindFails
  <2>. QED
    BY <2>1, <2>2, <2>3
<1>4. report' \in [Reporters -> ReportType] /\ \A d \in Reporters : report'[d].at # "idle" => report'[d].job \in Jobs
  BY <1>1, <1>3
<1>5. saqStatus' \in StatusType /\ registry' \subseteq Jobs /\ listing' \in [Listers -> ListingType]
  BY <1>2 DEF QInv
<1>. QED
  BY <1>2, <1>3, <1>4, <1>5 DEF QInv

\* What happens to jobs.
LEMMA JobStep ==
  ASSUME QInv, NEW j \in Jobs, Q!Enqueue(j) \/ Q!Due(j) \/ Q!Dequeue(j) \/ Q!Expire(j)
  PROVE  QInv' /\ UNCHANGED <<registry, listing>>
         /\ \A k \in Jobs : saqStatus[k] = "none" => saqStatus'[k] = "none"
<1>1. UNCHANGED <<registry, report, listing>>
  BY DEF Q!Enqueue, Q!Due, Q!Dequeue, Q!Expire
<1>2. PICK s \in Q!Statuses \cup {"none"} : saqStatus' = [saqStatus EXCEPT ![j] = s] /\ (saqStatus[j] = "none" => s = "none")
  BY DEF Q!Enqueue, Q!Due, Q!Dequeue, Q!Expire, Q!Statuses
<1>3. known' \subseteq Jobs
  BY DEF Q!Enqueue, Q!Due, Q!Dequeue, Q!Expire, Q!Track, QInv
<1>4. saqStatus \in StatusType /\ saqStatus' \in StatusType
  BY <1>2 DEF StatusType, QInv
<1>5. \A k \in Jobs : saqStatus[k] = "none" => saqStatus'[k] = "none"
  BY <1>2, <1>4 DEF StatusType
<1>6. QInv'
  BY <1>1, <1>3, <1>4 DEF QInv
<1>. QED
  BY <1>1, <1>5, <1>6

LEMMA OpenQueueStep ==
  ASSUME QInv, Q!OpenQueue
  PROVE  QInv' /\ UNCHANGED <<saqStatus, registry, listing>>
<1>1. UNCHANGED <<saqStatus, known, registry, listing>>
  BY DEF Q!OpenQueue
<1>2. ASSUME NEW c \in Reporters
      PROVE  report'[c] \in ReportType /\ (report'[c].at # "idle" => report'[c].job \in Jobs)
  <2>1. report[c] \in ReportType /\ (report[c].at # "idle" => report[c].job \in Jobs)
    BY DEF QInv
  <2>2. [report[c] EXCEPT !.grown = TRUE] \in ReportType
        /\ [report[c] EXCEPT !.grown = TRUE].at = report[c].at
        /\ [report[c] EXCEPT !.grown = TRUE].job = report[c].job
    BY <2>1 DEF ReportType
  <2>. QED
    BY <2>1, <2>2 DEF Q!OpenQueue
<1>3. report' \in [Reporters -> ReportType]
  BY <1>2 DEF Q!OpenQueue
<1>. QED
  BY <1>1, <1>2, <1>3 DEF QInv

\* A verdict is told to SAQ; a dead job is registered.
LEMMA TellStep ==
  ASSUME QInv, NEW c \in Reporters, Q!Tell(c)
  PROVE  /\ QInv'
         /\ \A k \in Jobs : saqStatus[k] = "none" => saqStatus'[k] = "none"
         /\ UNCHANGED <<registry, listing>> \/ \E j \in Jobs : Q!Register(j)
<1>1. /\ report[c] \in ReportType /\ report[c].job \in Jobs /\ report' = [report EXCEPT ![c] = Q!Quiet]
      /\ UNCHANGED known
  BY DEF Q!Tell, QInv
<1>2. PICK s \in Q!Statuses :
        /\ Q!Becomes(report[c].job, s)
        /\ Q!Register(report[c].job) \/ UNCHANGED <<registry, listing>>
  <2>1. report[c].verdict \in {"ack", "retry", "abort", "get"}
    BY <1>1 DEF ReportType, Q!Verdicts
  <2>. QED
    BY <2>1 DEF Q!Tell, Q!Statuses
<1>3. saqStatus' \in StatusType /\ \A k \in Jobs : saqStatus[k] = "none" => saqStatus'[k] = "none"
  BY <1>1, <1>2 DEF Q!Becomes, StatusType, QInv
<1>4. report' \in [Reporters -> ReportType] /\ \A d \in Reporters : report'[d].at # "idle" => report'[d].job \in Jobs
  BY <1>1, QuietIs DEF QInv
<1>5. registry' \subseteq Jobs /\ listing' \in [Listers -> ListingType]
  <2>1. CASE Q!Register(report[c].job)
    <3>1. \A l \in Listers : listing[l] \in ListingType /\ [listing[l] EXCEPT !.grown = TRUE] \in ListingType
      BY DEF ListingType, QInv
    <3>. QED
      BY <2>1, <3>1, <1>1 DEF Q!Register, QInv
  <2>. QED
    BY <2>1, <1>2 DEF QInv
<1>. QED
  BY <1>1, <1>2, <1>3, <1>4, <1>5 DEF QInv

LEMMA ListStep ==
  ASSUME QInv, NEW l \in Listers, Q!List(l)
  PROVE  QInv'
<1>1. [on |-> TRUE, todo |-> registry, found |-> {}, own |-> TRUE, grown |-> FALSE] \in ListingType
  BY DEF ListingType, QInv
<1>. QED
  BY <1>1 DEF Q!List, QInv

LEMMA FetchStep ==
  ASSUME QInv, NEW l \in Listers, Q!Fetch(l)
  PROVE  QInv'
<1>1. listing[l] \in ListingType /\ \A k \in Listers : listing[k] \in ListingType
  BY DEF QInv
<1>2. PICK j \in listing[l].todo :
       LET rest == listing[l].todo \ {j}
           found == listing[l].found \cup {k \in {j} : saqStatus[k] # "none"}
       IN IF listing[l].grown \/ rest # {}
          THEN /\ listing' = [listing EXCEPT ![l] =
                    IF listing[l].grown THEN Q!NoListing
                    ELSE [@ EXCEPT !.todo = rest, !.found = found]]
               /\ UNCHANGED registry
          ELSE /\ registry' = found
               /\ listing' = [k \in Listers |->
                    IF k = l THEN Q!NoListing ELSE [listing[k] EXCEPT !.own = FALSE]]
  BY DEF Q!Fetch
<1> DEFINE rest == listing[l].todo \ {j}
           found == listing[l].found \cup {k \in {j} : saqStatus[k] # "none"}
<1>3. rest \in SUBSET Jobs /\ found \in SUBSET Jobs
  BY <1>1 DEF ListingType
<1>4. /\ Q!NoListing \in ListingType
      /\ [listing[l] EXCEPT !.todo = rest, !.found = found] \in ListingType
      /\ \A k \in Listers : [listing[k] EXCEPT !.own = FALSE] \in ListingType
  BY <1>1, <1>3, ListingIs
<1>. HIDE DEF rest, found
<1>5. registry' \subseteq Jobs /\ listing' \in [Listers -> ListingType]
  <2>1. CASE listing[l].grown \/ rest # {}
    BY <2>1, <1>2, <1>4 DEF rest, found, QInv
  <2>2. CASE ~(listing[l].grown \/ rest # {})
    BY <2>2, <1>2, <1>3, <1>4 DEF rest, found, QInv
  <2>. QED
    BY <2>1, <2>2
<1>6. UNCHANGED <<saqStatus, known, report>>
  BY DEF Q!Fetch
<1>. QED
  BY <1>5, <1>6 DEF QInv

LEMMA QStep == ASSUME QInv, Q!Next \/ UNCHANGED saqVars PROVE QInv'
<1>1. CASE UNCHANGED saqVars
  BY <1>1 DEF saqVars, QInv
<1>. QED
  BY <1>1, ReporterStep, JobStep, OpenQueueStep, TellStep, ListStep, FetchStep DEF Q!Next

\* What Redis dropped stays dropped: a listing still covers what it covered.
LEMMA ListedKept ==
  ASSUME QInv, Listed, UNCHANGED <<registry, listing>>,
         \A j \in Jobs : saqStatus[j] = "none" => saqStatus'[j] = "none"
  PROVE  Listed'
BY DEF Listed, QInv

\* A job that is registered while the set is iterated makes the listing fail.
LEMMA ListedGrows ==
  ASSUME QInv, Listed, NEW j \in Jobs, Q!Register(j),
         \A k \in Jobs : saqStatus[k] = "none" => saqStatus'[k] = "none"
  PROVE  Listed' /\ registry \subseteq registry'
<1>1. registry' = registry \cup {j} /\ registry \subseteq Jobs
  BY DEF Q!Register, QInv
<1>2. ASSUME NEW l \in Listers, listing'[l].on
      PROVE  /\ listing'[l].own
             /\ listing'[l].grown \/
                  \A k \in registry' : k \in listing'[l].todo \cup listing'[l].found \/ saqStatus'[k] = "none"
  <2>0. listing[l] \in ListingType
    BY DEF QInv
  <2>1. CASE listing[l].on /\ listing[l].own /\ j \notin registry
    <3>1. listing'[l] = [listing[l] EXCEPT !.grown = TRUE]
      BY <2>1 DEF Q!Register
    <3>. QED
      BY <2>0, <2>1, <3>1 DEF ListingType
  <2>2. CASE ~(listing[l].on /\ listing[l].own /\ j \notin registry)
    <3>1. listing'[l] = listing[l]
      BY <2>2 DEF Q!Register
    <3>2. listing[l].on /\ listing[l].own /\ registry' = registry
      BY <1>1, <1>2, <2>2, <3>1 DEF Listed
    <3>. QED
      BY <1>1, <3>1, <3>2 DEF Listed
  <2>. QED
    BY <2>1, <2>2
<1>. QED
  BY <1>1, <1>2 DEF Listed

LEMMA ListedFetched ==
  ASSUME QInv, Listed, OneLister, NEW l \in Listers, Q!Fetch(l)
  PROVE  Listed' /\ \A j \in registry \ registry' : saqStatus[j] = "none"
<1>1. /\ listing[l] \in ListingType /\ listing \in [Listers -> ListingType]
      /\ listing[l].on /\ saqStatus' = saqStatus
      /\ \A k \in Listers : k = l
      /\ ~Q!NoListing.on
  BY DEF QInv, Q!Fetch, OneLister, Q!NoListing
<1>2. PICK j \in listing[l].todo :
       LET rest == listing[l].todo \ {j}
           found == listing[l].found \cup {k \in {j} : saqStatus[k] # "none"}
       IN IF listing[l].grown \/ rest # {}
          THEN /\ listing' = [listing EXCEPT ![l] =
                    IF listing[l].grown THEN Q!NoListing
                    ELSE [@ EXCEPT !.todo = rest, !.found = found]]
               /\ UNCHANGED registry
          ELSE /\ registry' = found
               /\ listing' = [k \in Listers |->
                    IF k = l THEN Q!NoListing ELSE [listing[k] EXCEPT !.own = FALSE]]
  BY DEF Q!Fetch
<1> DEFINE rest == listing[l].todo \ {j}
           found == listing[l].found \cup {k \in {j} : saqStatus[k] # "none"}
<1>3. listing[l].own /\ (listing[l].grown \/ \A k \in registry : k \in rest \cup found \/ saqStatus[k] = "none")
  <2>1. listing[l].own /\ (listing[l].grown \/
          \A k \in registry : k \in listing[l].todo \cup listing[l].found \/ saqStatus[k] = "none")
    BY <1>1 DEF Listed
  <2>. QED
    BY <2>1
<1>4. /\ [listing[l] EXCEPT !.todo = rest, !.found = found].on
      /\ [listing[l] EXCEPT !.todo = rest, !.found = found].own = listing[l].own
      /\ [listing[l] EXCEPT !.todo = rest, !.found = found].todo = rest
      /\ [listing[l] EXCEPT !.todo = rest, !.found = found].found = found
  BY <1>1 DEF ListingType
<1>5. \/ listing[l].grown /\ listing'[l] = Q!NoListing /\ registry' = registry
      \/ /\ ~listing[l].grown /\ registry' = registry
         /\ listing'[l] = [listing[l] EXCEPT !.todo = rest, !.found = found]
      \/ ~listing[l].grown /\ rest = {} /\ registry' = found /\ listing'[l] = Q!NoListing
  BY <1>1, <1>2
<1>. HIDE DEF rest, found
<1>6. \A k \in registry \ registry' : saqStatus[k] = "none"
  BY <1>3, <1>5
<1>7. ~listing'[l].on \/
        (/\ listing'[l].own
         /\ \A k \in registry' : k \in listing'[l].todo \cup listing'[l].found \/ saqStatus'[k] = "none")
  BY <1>1, <1>3, <1>4, <1>5
<1>. QED
  BY <1>1, <1>6, <1>7 DEF Listed

LEMMA ListedStep ==
  ASSUME QInv, Listed, OneLister, Q!Next \/ UNCHANGED saqVars
  PROVE  Listed' /\ \A j \in registry \ registry' : saqStatus[j] = "none"
<1>1. CASE UNCHANGED saqVars
  BY <1>1, ListedKept DEF saqVars
<1>2. CASE Q!OpenQueue
  BY <1>2, OpenQueueStep, ListedKept
<1>3. ASSUME NEW j \in Jobs, Q!Enqueue(j) \/ Q!Due(j) \/ Q!Dequeue(j) \/ Q!Expire(j)
      PROVE  Listed' /\ \A k \in registry \ registry' : saqStatus[k] = "none"
  BY <1>3, JobStep, ListedKept
<1>4. ASSUME NEW c \in Reporters,
             \/ \E j \in Jobs, v \in Q!Verdicts : Q!Report(c, j, v)
             \/ Q!Find(c) \/ Q!FindFails(c)
      PROVE  Listed' /\ \A k \in registry \ registry' : saqStatus[k] = "none"
  BY <1>4, ReporterStep, ListedKept
<1>5. ASSUME NEW c \in Reporters, Q!Tell(c)
      PROVE  Listed' /\ \A k \in registry \ registry' : saqStatus[k] = "none"
  <2>1. /\ \A k \in Jobs : saqStatus[k] = "none" => saqStatus'[k] = "none"
        /\ UNCHANGED <<registry, listing>> \/ \E j \in Jobs : Q!Register(j)
    BY <1>5, TellStep
  <2>. QED
    BY <2>1, ListedKept, ListedGrows
<1>6. ASSUME NEW l \in Listers, Q!List(l)
      PROVE  Listed' /\ \A k \in registry \ registry' : saqStatus[k] = "none"
  <2>1. UNCHANGED registry /\ \A k \in Listers : k = l
    BY <1>6 DEF Q!List, OneLister
  <2>2. listing'[l] = [on |-> TRUE, todo |-> registry, found |-> {}, own |-> TRUE, grown |-> FALSE]
    BY <1>6 DEF Q!List, QInv
  <2>. QED
    BY <2>1, <2>2 DEF Listed
<1>7. ASSUME NEW l \in Listers, Q!Fetch(l)
      PROVE  Listed' /\ \A k \in registry \ registry' : saqStatus[k] = "none"
  BY <1>7, ListedFetched
<1>. QED
  BY <1>1, <1>2, <1>3, <1>4, <1>5, <1>6, <1>7 DEF Q!Next

-----------------------------------------------------------------------------
(* RedisBus: what the handler was called with and then what waits on the   *)
(* connection are events in publication order, and as long as no connection *)
(* broke the two hold everything published since subscribe() returned.     *)

BInv ==
  /\ B!TypeOK
  /\ \A s \in RedisSubs :
       /\ Increasing(calls[s]) /\ Increasing(buffer[s])
       /\ \A x \in ToSet(calls[s]) : x <= sent /\ \A y \in ToSet(buffer[s]) : x < y
       /\ \A y \in ToSet(buffer[s]) : y <= sent
       /\ phase[s] = "live" /\ breaks[s] = 0 =>
            linked[s] /\ \A e \in (since[s] + 1)..sent : e \in ToSet(calls[s]) \cup ToSet(buffer[s])

LEMMA BInit == B!Init => BInv
<1> SUFFICES ASSUME B!Init PROVE BInv
  OBVIOUS
<1>1. B!TypeOK
  BY ServicesOK, EmptyIs DEF B!Init, B!TypeOK
<1>2. ToSet(<<>>) = {} /\ Increasing(<<>>)
  BY EmptyIs DEF Increasing
<1>. QED
  BY <1>1, <1>2 DEF B!Init, BInv

\* The sequences of a subscription are sequences of numbers.
LEMMA BSeqs ==
  ASSUME BInv, NEW s \in RedisSubs
  PROVE  /\ calls[s] \in Seq(B!Events) /\ buffer[s] \in Seq(B!Events)
         /\ calls[s] \in Seq(Nat) /\ buffer[s] \in Seq(Nat)
         /\ ToSet(calls[s]) \subseteq Nat /\ ToSet(buffer[s]) \subseteq Nat
<1>1. calls[s] \in Seq(B!Events) /\ buffer[s] \in Seq(B!Events) /\ B!Events \subseteq Nat
  BY ServicesOK DEF BInv, B!TypeOK, B!Events
<1>. QED
  BY <1>1, SeqSubset

LEMMA BPublish == ASSUME BInv, B!Publish PROVE BInv'
<1>1. /\ sent \in Nat /\ sent + 1 \in B!Events /\ sent' = sent + 1 /\ sent' \in 0..MaxRedisEvents
      /\ UNCHANGED <<phase, linked, listener, calls, since, breaks>>
  BY ServicesOK DEF B!Publish, BInv, B!TypeOK, B!Events
<1>2. ASSUME NEW s \in RedisSubs
      PROVE  /\ buffer'[s] = IF linked[s] THEN Append(buffer[s], sent + 1) ELSE buffer[s]
             /\ buffer'[s] \in Seq(B!Events)
             /\ ToSet(buffer'[s]) = ToSet(buffer[s]) \cup {e \in {sent + 1} : linked[s]}
             /\ Increasing(buffer'[s])
  <2>1. buffer'[s] = IF linked[s] THEN Append(buffer[s], sent + 1) ELSE buffer[s]
    BY DEF B!Publish
  <2>2. /\ Append(buffer[s], sent + 1) \in Seq(B!Events)
        /\ ToSet(Append(buffer[s], sent + 1)) = ToSet(buffer[s]) \cup {sent + 1}
    BY <1>1, BSeqs, AppendSet
  <2>3. Increasing(Append(buffer[s], sent + 1))
    <3>1. \A y \in ToSet(buffer[s]) : y <= sent /\ y \in Nat
      BY BSeqs DEF BInv
    <3>2. sent + 1 \in Nat /\ \A y \in ToSet(buffer[s]) : y < sent + 1
      BY <1>1, <3>1
    <3>. QED
      BY <3>2, BSeqs, AppendIncreasing DEF BInv
  <2>. QED
    BY <2>1, <2>2, <2>3, BSeqs DEF BInv
<1>3. buffer' \in [RedisSubs -> Seq(B!Events)]
  BY <1>2 DEF B!Publish
<1>4. B!TypeOK'
  BY <1>1, <1>3 DEF BInv, B!TypeOK
<1>5. ASSUME NEW s \in RedisSubs
      PROVE  /\ \A x \in ToSet(calls[s]) : x <= sent + 1 /\ \A y \in ToSet(buffer'[s]) : x < y
             /\ \A y \in ToSet(buffer'[s]) : y <= sent + 1
             /\ phase[s] = "live" /\ breaks[s] = 0 =>
                  linked[s] /\ \A e \in (since[s] + 1)..(sent + 1) : e \in ToSet(calls[s]) \cup ToSet(buffer'[s])
  <2>1. /\ \A x \in ToSet(calls[s]) : x \in Nat /\ x <= sent /\ \A y \in ToSet(buffer[s]) : x < y
        /\ \A y \in ToSet(buffer[s]) : y \in Nat /\ y <= sent
        /\ since[s] \in Nat
    BY BSeqs DEF BInv, B!TypeOK
  <2>2. phase[s] = "live" /\ breaks[s] = 0 =>
          linked[s] /\ \A e \in (since[s] + 1)..sent : e \in ToSet(calls[s]) \cup ToSet(buffer[s])
    BY DEF BInv
  <2>3. ASSUME phase[s] = "live", breaks[s] = 0, NEW e \in (since[s] + 1)..(sent + 1)
        PROVE  e \in ToSet(calls[s]) \cup ToSet(buffer'[s])
    <3>1. e \in (since[s] + 1)..sent \/ e = sent + 1
      BY <1>1, <2>1
    <3>. QED
      BY <3>1, <2>2, <2>3, <1>2
  <2>4. /\ \A x \in ToSet(calls[s]) : x <= sent + 1 /\ x < sent + 1
        /\ \A y \in ToSet(buffer[s]) : y <= sent + 1
        /\ sent + 1 <= sent + 1
    BY <1>1, <2>1
  <2>. QED
    BY <2>1, <2>2, <2>3, <2>4, <1>2
<1>6. \A s \in RedisSubs : Increasing(calls[s])
  BY DEF BInv
<1>. QED
  BY <1>1, <1>2, <1>4, <1>5, <1>6 DEF BInv

LEMMA BTake == ASSUME BInv, NEW t \in RedisSubs, B!Take(t) PROVE BInv'
<1>1. /\ buffer[t] # <<>>
      /\ calls' = [calls EXCEPT ![t] = Append(calls[t], Head(buffer[t]))]
      /\ buffer' = [buffer EXCEPT ![t] = Tail(buffer[t])]
      /\ listener' = [listener EXCEPT ![t] = "handle"]
      /\ UNCHANGED <<sent, phase, linked, since, breaks>>
      /\ calls \in [RedisSubs -> Seq(B!Events)] /\ buffer \in [RedisSubs -> Seq(B!Events)]
  BY DEF B!Take, BInv, B!TypeOK
<1>2. PICK e \in B!Events : e = Head(buffer[t])
  BY <1>1, BSeqs, TailSet
<1>3. PICK b \in Seq(B!Events) : b = Tail(buffer[t])
  BY <1>1, BSeqs, TailSet
<1>4. PICK c \in Seq(B!Events) : c = Append(calls[t], Head(buffer[t]))
  BY <1>1, <1>2, BSeqs, AppendSet
<1>5. ToSet(buffer[t]) = {e} \cup ToSet(b) /\ ToSet(c) = ToSet(calls[t]) \cup {e}
  BY <1>1, <1>2, <1>3, <1>4, BSeqs, TailSet, AppendSet
<1>6. /\ \A x \in ToSet(calls[t]) : x \in Nat /\ x <= sent /\ \A y \in ToSet(buffer[t]) : x < y
      /\ \A y \in ToSet(buffer[t]) : y \in Nat /\ y <= sent
      /\ Increasing(calls[t]) /\ Increasing(buffer[t])
  BY BSeqs DEF BInv
<1>7. Increasing(b) /\ \A x \in ToSet(b) : e < x
  BY <1>1, <1>2, <1>3, <1>6, BSeqs, TailIncreasing
<1>8. Increasing(c)
  BY <1>2, <1>4, <1>5, <1>6, BSeqs, AppendIncreasing
<1>9. /\ calls'[t] = c /\ buffer'[t] = b
      /\ \A s \in RedisSubs : s # t => calls'[s] = calls[s] /\ buffer'[s] = buffer[s]
      /\ calls' \in [RedisSubs -> Seq(B!Events)] /\ buffer' \in [RedisSubs -> Seq(B!Events)]
  BY <1>1, <1>3, <1>4
<1>10. B!TypeOK'
  BY <1>1, <1>9 DEF BInv, B!TypeOK
<1>11. ASSUME NEW s \in RedisSubs
       PROVE  /\ Increasing(calls'[s]) /\ Increasing(buffer'[s])
              /\ \A x \in ToSet(calls'[s]) : x <= sent /\ \A y \in ToSet(buffer'[s]) : x < y
              /\ \A y \in ToSet(buffer'[s]) : y <= sent
              /\ ToSet(calls'[s]) \cup ToSet(buffer'[s]) = ToSet(calls[s]) \cup ToSet(buffer[s])
  <2>1. CASE s = t
    BY <2>1, <1>5, <1>6, <1>7, <1>8, <1>9
  <2>2. CASE s # t
    BY <2>2, <1>9 DEF BInv
  <2>. QED
    BY <2>1, <2>2
<1>. QED
  BY <1>1, <1>10, <1>11 DEF BInv

\* The steps that hand nothing over: a connection keeps what it holds, or is
\* gone, with what it held.
LEMMA BQuiet ==
  ASSUME BInv, B!TypeOK', UNCHANGED <<sent, calls>>,
         \A s \in RedisSubs :
           /\ buffer'[s] \in {buffer[s], <<>>}
           /\ phase'[s] = "live" /\ breaks'[s] = 0 =>
                /\ linked'[s]
                /\ \/ since'[s] = sent
                   \/ phase[s] = "live" /\ breaks[s] = 0 /\ since'[s] = since[s] /\ buffer'[s] = buffer[s]
  PROVE  BInv'
<1>1. ToSet(<<>>) = {} /\ Increasing(<<>>)
  BY EmptyIs DEF Increasing
<1>2. ASSUME NEW s \in RedisSubs
      PROVE  /\ Increasing(calls[s]) /\ Increasing(buffer'[s])
             /\ \A x \in ToSet(calls[s]) : x <= sent /\ \A y \in ToSet(buffer'[s]) : x < y
             /\ \A y \in ToSet(buffer'[s]) : y <= sent
  BY <1>1 DEF BInv
<1>3. ASSUME NEW s \in RedisSubs, phase'[s] = "live", breaks'[s] = 0
      PROVE  linked'[s] /\ \A e \in (since'[s] + 1)..sent : e \in ToSet(calls[s]) \cup ToSet(buffer'[s])
  <2>1. sent \in Nat
    BY ServicesOK DEF BInv, B!TypeOK
  <2>2. CASE since'[s] = sent
    BY <1>3, <2>1, <2>2
  <2>3. CASE phase[s] = "live" /\ breaks[s] = 0 /\ since'[s] = since[s] /\ buffer'[s] = buffer[s]
    BY <1>3, <2>3 DEF BInv
  <2>. QED
    BY <1>3, <2>2, <2>3
<1>. QED
  BY <1>2, <1>3 DEF BInv

LEMMA BStep == ASSUME BInv, B!Next \/ UNCHANGED redisBusVars PROVE BInv'
<1>1. CASE UNCHANGED redisBusVars
  BY <1>1 DEF redisBusVars, BInv, B!TypeOK
<1>2. CASE B!Publish
  BY <1>2, BPublish
<1>3. ASSUME NEW s \in RedisSubs, B!Take(s) PROVE BInv'
  BY <1>3, BTake
<1>. DEFINE Rest(s) ==
       \/ B!Open(s) \/ B!Link(s) \/ B!Subscribed(s) \/ B!Handled(s) \/ B!Fail(s) \/ B!Resubscribe(s)
       \/ B!Break(s) \/ B!Unsubscribe(s) \/ B!ListenerEnds(s) \/ B!Close(s)
<1>4. ASSUME NEW t \in RedisSubs, Rest(t) PROVE BInv'
  <2>1. UNCHANGED <<sent, calls>>
    BY <1>4 DEF B!Open, B!Link, B!Subscribed, B!Handled, B!Fail, B!Resubscribe, B!Break, B!Unsubscribe,
                B!ListenerEnds, B!Close
  <2>2. B!TypeOK
    BY DEF BInv
  <2>3. <<>> \in Seq(B!Events)
    OBVIOUS
  <2>4. B!TypeOK'
    <3>1. CASE B!Open(t) \/ B!Link(t) \/ B!Unsubscribe(t)
      BY <2>2, <3>1 DEF B!TypeOK, B!Open, B!Link, B!Unsubscribe
    <3>2. CASE B!Handled(t) \/ B!Fail(t) \/ B!ListenerEnds(t)
      BY <2>2, <3>2 DEF B!TypeOK, B!Handled, B!Fail, B!ListenerEnds
    <3>3. CASE B!Subscribed(t)
      BY <2>2, <3>3 DEF B!TypeOK, B!Subscribed
    <3>4. CASE B!Resubscribe(t)
      BY <2>2, <3>4 DEF B!TypeOK, B!Resubscribe
    <3>5. CASE B!Break(t)
      <4>1. breaks[t] + 1 \in 0..MaxBreaks
        BY <2>2, <3>5, ServicesOK DEF B!TypeOK, B!Break
      <4>. QED
        BY <2>2, <2>3, <3>5, <4>1 DEF B!TypeOK, B!Break
    <3>6. CASE B!Close(t)
      BY <2>2, <2>3, <3>6 DEF B!TypeOK, B!Close
    <3>. QED
      BY <1>4, <3>1, <3>2, <3>3, <3>4, <3>5, <3>6
  <2>5. ASSUME NEW s \in RedisSubs
        PROVE  /\ buffer'[s] \in {buffer[s], <<>>}
               /\ phase'[s] = "live" /\ breaks'[s] = 0 =>
                    /\ linked'[s]
                    /\ \/ since'[s] = sent
                       \/ phase[s] = "live" /\ breaks[s] = 0 /\ since'[s] = since[s] /\ buffer'[s] = buffer[s]
    <3>1. phase[s] = "live" /\ breaks[s] = 0 => linked[s]
      BY DEF BInv
    <3>2. CASE B!Open(t) \/ B!Link(t) \/ B!Unsubscribe(t)
      BY <2>2, <3>1, <3>2 DEF B!TypeOK, B!Open, B!Link, B!Unsubscribe
    <3>3. CASE B!Handled(t) \/ B!Fail(t) \/ B!ListenerEnds(t)
      BY <2>2, <3>1, <3>3 DEF B!TypeOK, B!Handled, B!Fail, B!ListenerEnds
    <3>4. CASE B!Subscribed(t)
      BY <2>2, <3>1, <3>4 DEF B!TypeOK, B!Subscribed
    <3>5. CASE B!Resubscribe(t)
      BY <2>2, <3>1, <3>5 DEF B!TypeOK, B!Resubscribe
    <3>6. CASE B!Break(t)
      <4>1. breaks[t] + 1 # 0
        BY <2>2, BoundsAre DEF B!TypeOK
      <4>. QED
        BY <2>2, <3>1, <3>6, <4>1 DEF B!TypeOK, B!Break
    <3>7. CASE B!Close(t)
      BY <2>2, <3>1, <3>7 DEF B!TypeOK, B!Close
    <3>. QED
      BY <1>4, <3>2, <3>3, <3>4, <3>5, <3>6, <3>7
  <2>. QED
    BY <2>1, <2>4, <2>5, BQuiet
<1>. QED
  BY <1>1, <1>2, <1>3, <1>4 DEF B!Next

LEMMA BKeeps == BInv => B!CalledInOrder /\ B!NothingMissed
<1> SUFFICES ASSUME BInv PROVE B!CalledInOrder /\ B!NothingMissed
  OBVIOUS
<1>0. \A s : B!ToSet(s) = ToSet(s)
  BY DEF B!ToSet, ToSet
<1>1. B!CalledInOrder
  BY DEF BInv, B!CalledInOrder, Increasing
<1>2. \A s \in RedisSubs : ToSet(calls[s] \o buffer[s]) = ToSet(calls[s]) \cup ToSet(buffer[s])
  BY BSeqs, ConcatSet
<1>3. B!NothingMissed
  BY <1>0, <1>2 DEF BInv, B!NothingMissed
<1>. QED
  BY <1>1, <1>3

-----------------------------------------------------------------------------
(* NatsBus: the event a listener is about to acknowledge is one a handler  *)
(* of its durable consumer is done with.                                   *)

TInv ==
  /\ T!TypeOK
  /\ \A s \in NatsSubs :
       /\ natsListener[s] \in {"handle", "ack"} => taken[s] \in T!Events
       /\ natsListener[s] = "ack" => taken[s] \in handled[Durable[s]]
  /\ T!AckedAreHandled

LEMMA TInit == T!Init => TInv
BY ServicesOK DEF T!Init, TInv, T!TypeOK, T!AckedAreHandled

\* The steps that change no more than where a subscription is.
LEMMA TMoves ==
  ASSUME TInv, NEW s \in NatsSubs,
         \/ T!Subscribe(s) \/ T!Subscribed(s) \/ T!Unsubscribe(s) \/ T!Pull(s) \/ T!Fail(s) \/ T!Wake(s)
  PROVE  TInv'
<1>1. Durable[s] \in T!Durables
  BY DEF T!Durables
<1>2. CASE T!Subscribe(s)
  BY <1>1, <1>2 DEF T!Subscribe, TInv, T!TypeOK, T!AckedAreHandled
<1>3. CASE T!Subscribed(s)
  BY <1>3 DEF T!Subscribed, T!jetstream, TInv, T!TypeOK, T!AckedAreHandled
<1>4. CASE T!Unsubscribe(s)
  BY <1>4 DEF T!Unsubscribe, T!jetstream, TInv, T!TypeOK, T!AckedAreHandled
<1>5. CASE T!Pull(s)
  BY <1>1, <1>5 DEF T!Pull, T!Runs, TInv, T!TypeOK, T!AckedAreHandled
<1>6. CASE T!Fail(s)
  BY <1>6 DEF T!Fail, T!jetstream, TInv, T!TypeOK, T!AckedAreHandled
<1>7. CASE T!Wake(s)
  BY <1>7 DEF T!Wake, T!Runs, T!jetstream, TInv, T!TypeOK, T!AckedAreHandled
<1>. QED
  BY <1>2, <1>3, <1>4, <1>5, <1>6, <1>7

LEMMA TTake == ASSUME TInv, NEW s \in NatsSubs, T!Take(s) PROVE TInv'
<1>1. PICK e \in (1..natsSent) \ (acked[Durable[s]] \union out[Durable[s]]) :
        /\ out' = [out EXCEPT ![Durable[s]] = @ \union {e}]
        /\ taken' = [taken EXCEPT ![s] = e]
  BY DEF T!Take
<1>2. e \in T!Events /\ Durable[s] \in T!Durables
  BY <1>1, ServicesOK DEF TInv, T!TypeOK, T!Events, T!Durables
<1>3. /\ natsListener' = [natsListener EXCEPT ![s] = "handle"]
      /\ UNCHANGED <<natsSent, natsPhase, durables, acked, up, handled>>
  BY DEF T!Take
<1>4. T!TypeOK'
  BY <1>1, <1>2, <1>3 DEF TInv, T!TypeOK
<1>. QED
  BY <1>1, <1>2, <1>3, <1>4 DEF TInv, T!TypeOK, T!AckedAreHandled

LEMMA THandled == ASSUME TInv, NEW s \in NatsSubs, T!Handled(s) PROVE TInv'
<1>1. PICK e \in T!Events : e = taken[s]
  BY DEF T!Handled, T!Runs, TInv
<1>2. PICK d \in T!Durables : d = Durable[s]
  BY DEF T!Durables
<1>3. /\ handled' = [handled EXCEPT ![d] = handled[d] \union {e}]
      /\ natsListener' = [natsListener EXCEPT ![s] = "ack"]
      /\ UNCHANGED <<natsSent, durables, out, acked, natsPhase, taken, up>>
  BY <1>1, <1>2 DEF T!Handled, T!jetstream
<1>4. T!TypeOK'
  BY <1>1, <1>2, <1>3 DEF TInv, T!TypeOK
<1>5. handled'[d] = handled[d] \union {e} /\ \A c \in T!Durables : handled[c] \subseteq handled'[c]
  BY <1>2, <1>3 DEF TInv, T!TypeOK
<1>6. \A t \in NatsSubs : Durable[t] \in T!Durables
  BY DEF T!Durables
<1>. QED
  BY <1>1, <1>2, <1>3, <1>4, <1>5, <1>6 DEF TInv, T!TypeOK, T!AckedAreHandled

LEMMA TAck == ASSUME TInv, NEW s \in NatsSubs, T!Ack(s) PROVE TInv'
<1>1. PICK d \in T!Durables : d = Durable[s]
  BY DEF T!Durables
<1>2. taken[s] \in T!Events /\ taken[s] \in handled[d]
  BY <1>1 DEF T!Ack, T!Runs, TInv
<1>3. /\ acked' = [acked EXCEPT ![d] = IF d \in durables THEN acked[d] \union {taken[s]} ELSE acked[d]]
      /\ natsListener' = [natsListener EXCEPT ![s] = "poll"]
      /\ taken' = [taken EXCEPT ![s] = 0]
      /\ UNCHANGED <<natsSent, natsPhase, durables, out, up, handled>>
  BY <1>1 DEF T!Ack
<1>4. T!TypeOK'
  BY <1>1, <1>2, <1>3 DEF TInv, T!TypeOK
<1>. QED
  BY <1>1, <1>2, <1>3, <1>4 DEF TInv, T!TypeOK, T!AckedAreHandled

LEMMA TDelete == ASSUME TInv, NEW s \in NatsSubs, T!DeleteConsumer(s) PROVE TInv'
<1>1. PICK d \in T!Durables : d = Durable[s]
  BY DEF T!Durables
<1>2. /\ natsPhase' = [natsPhase EXCEPT ![s] = "closed"]
      /\ natsListener' = [natsListener EXCEPT ![s] = "ended"]
      /\ taken' = [taken EXCEPT ![s] = 0]
      /\ \/ /\ durables' = durables \ {d}
            /\ acked' = [acked EXCEPT ![d] = {}]
            /\ out' = [out EXCEPT ![d] = {}]
         \/ UNCHANGED <<durables, acked, out>>
      /\ UNCHANGED <<natsSent, up, handled>>
  BY <1>1 DEF T!DeleteConsumer
<1>3. T!TypeOK'
  BY <1>1, <1>2 DEF TInv, T!TypeOK
<1>. QED
  BY <1>1, <1>2, <1>3 DEF TInv, T!TypeOK, T!AckedAreHandled

LEMMA TStep == ASSUME TInv, T!Next \/ UNCHANGED natsBusVars PROVE TInv'
<1>1. CASE UNCHANGED natsBusVars
  BY <1>1 DEF natsBusVars, TInv, T!TypeOK, T!AckedAreHandled
<1>2. CASE T!Publish
  BY <1>2, ServicesOK DEF T!Publish, TInv, T!TypeOK, T!AckedAreHandled
<1>3. CASE T!Stop
  BY <1>3 DEF T!Stop, T!jetstream, TInv, T!TypeOK, T!AckedAreHandled
<1>4. ASSUME NEW d \in T!Durables, NEW e \in T!Events, T!AckWaitOver(d, e) PROVE TInv'
  BY <1>4 DEF T!AckWaitOver, TInv, T!TypeOK, T!AckedAreHandled
<1>. QED
  BY <1>1, <1>2, <1>3, <1>4, TMoves, TTake, THandled, TAck, TDelete DEF T!Next

-----------------------------------------------------------------------------
(* BusServer: a request that a gate was closed to is at its end, and what  *)
(* reached the bus came past every gate.                                   *)

WInv ==
  /\ W!TypeOK
  /\ \A r \in denied : step[r] = "refused"
  /\ \A r \in published \cup cut : step[r] = "answered"
  /\ W!SubscriptionsAreHandled

LEMMA WInit == W!Init => WInv
BY ServicesOK DEF W!Init, WInv, W!TypeOK, W!SubscriptionsAreHandled, W!Steps, W!Requests

\* The gates: a request goes on, or it is refused for good.
LEMMA WGates ==
  ASSUME WInv, NEW r \in W!Requests,
         \/ W!Authenticate(r) \/ W!CheckLicence(r) \/ W!RateLimit(r) \/ W!ParseBody(r) \/ W!CheckPermission(r)
  PROVE  WInv'
<1>1. step[r] \in {"auth", "licence", "rate", "body", "permission"}
  BY DEF W!Authenticate, W!CheckLicence, W!RateLimit, W!ParseBody, W!CheckPermission, W!Goes, W!Refused
<1>2. PICK to \in W!Steps :
        /\ step' = [step EXCEPT ![r] = to]
        /\ denied' = denied \/ (denied' = denied \union {r} /\ to = "refused")
  BY DEF W!Authenticate, W!CheckLicence, W!RateLimit, W!ParseBody, W!CheckPermission, W!Goes, W!Refused,
         W!Steps, W!Ended
<1>3. /\ opinion' = opinion /\ left' \in 0..Rate /\ open' \subseteq Sockets
      /\ UNCHANGED <<subscribed, published, cut>>
  BY ServicesOK DEF W!Authenticate, W!CheckLicence, W!RateLimit, W!ParseBody, W!CheckPermission, WInv, W!TypeOK
<1>4. W!TypeOK'
  BY <1>2, <1>3 DEF WInv, W!TypeOK
<1>. QED
  BY <1>1, <1>2, <1>3, <1>4 DEF WInv, W!TypeOK, W!SubscriptionsAreHandled, W!Requests

LEMMA WStep == ASSUME WInv, W!Next \/ UNCHANGED serverVars PROVE WInv'
<1>. USE DEF WInv, W!TypeOK, W!SubscriptionsAreHandled
<1>0. Posts \subseteq W!Requests /\ Sockets \subseteq W!Requests
  BY DEF W!Requests
<1>1. CASE UNCHANGED serverVars
  BY <1>1 DEF serverVars
<1>2. ASSUME NEW m \in W!Managers, NEW answer \in {"yes", "no", "unreachable"}, W!Opine(m, answer) PROVE WInv'
  BY <1>2 DEF W!Opine
<1>3. ASSUME NEW r \in Posts, W!Publish(r) PROVE WInv'
  BY <1>0, <1>3 DEF W!Publish, W!Goes, W!Steps, W!Ended
<1>4. ASSUME NEW r \in Sockets, W!Subscribe(r) PROVE WInv'
  BY <1>0, <1>4 DEF W!Subscribe, W!Goes, W!Steps, W!Ended
<1>5. ASSUME NEW r \in Sockets, W!Disconnect(r) PROVE WInv'
  BY <1>5 DEF W!Disconnect
<1>6. ASSUME NEW r \in Sockets, W!ReadEnds(r) \/ W!Cancel(r) PROVE WInv'
  BY <1>0, <1>6 DEF W!ReadEnds, W!Cancel, W!Goes, W!Steps, W!Ended
<1>7. ASSUME NEW r \in Sockets, W!Unsubscribe(r) PROVE WInv'
  BY <1>0, <1>7 DEF W!Unsubscribe, W!Goes, W!Steps, W!Ended
<1>. QED
  BY <1>0, <1>1, <1>2, <1>3, <1>4, <1>5, <1>6, <1>7, WGates DEF W!Next

LEMMA WKeeps == WInv => W!SubscriptionsAreHandled /\ W!RefusedGoesNowhere
BY DEF WInv, W!SubscriptionsAreHandled, W!RefusedGoesNowhere

-----------------------------------------------------------------------------
(* RedisCache: the types, which are inductive.                             *)

RInv == R!TypeOK

LEMMA RInit == R!Init => RInv
<1> SUFFICES ASSUME R!Init PROVE RInv
  OBVIOUS
<1>1. connected \in BOOLEAN /\ cached \in BOOLEAN
  BY Zenon DEF R!Init
<1>2. 0 \in 0..MaxCalls /\ "idle" \in R!Places
  BY ServicesOK DEF R!Places
<1>. QED
  BY <1>1, <1>2 DEF R!Init, RInv, R!TypeOK

LEMMA RStep == ASSUME RInv, R!Next \/ UNCHANGED redisCacheVars PROVE RInv'
<1>. USE DEF RInv, R!TypeOK, R!Places
<1>1. CASE UNCHANGED redisCacheVars
  BY <1>1 DEF redisCacheVars
<1>2. CASE R!Set \/ R!Delete \/ R!Expire
  BY <1>2 DEF R!Set, R!Delete, R!Expire
<1>3. ASSUME NEW t \in Threads, R!Call(t) PROVE RInv'
  <2>1. made[t] + 1 \in 0..MaxCalls
    BY <1>3, ServicesOK DEF R!Call
  <2>. QED
    BY <1>3, <2>1 DEF R!Call, R!Goto
<1>4. ASSUME NEW t \in Threads, R!CheckLock(t) \/ R!MakeLock(t) \/ R!FetchLock(t) PROVE RInv'
  BY <1>4 DEF R!CheckLock, R!MakeLock, R!FetchLock, R!Goto
<1>5. ASSUME NEW t \in Threads, R!Acquire(t) PROVE RInv'
  BY <1>5 DEF R!Acquire, R!Goto
<1>6. ASSUME NEW t \in Threads, R!Look(t) \/ R!Compute(t) \/ R!Store(t) PROVE RInv'
  BY <1>6 DEF R!Look, R!Compute, R!Store, R!CommandFails, R!Leave, R!Goto
<1>. QED
  BY <1>1, <1>2, <1>3, <1>4, <1>5, <1>6 DEF R!Next, R!Step

-----------------------------------------------------------------------------
(* AlertDispatch: begun is what _last_fired says; the alert under way was  *)
(* tried on the channels before this one, the alert before on all of them,  *)
(* every other one on all or none.                                         *)

AInv ==
  /\ A!TypeOK
  /\ begun = lastFired
  /\ \A r \in A!Rules, c \in A!Channels : <<r, c>> \in tried => r \notin todo
  /\ channel # 0 => alert \in A!Rules \ todo
  /\ channel = 0 /\ alert # 0 => \A c \in A!Channels : <<alert, c>> \in tried
  /\ \A r \in A!Rules, c \in A!Channels :
       IF channel # 0 /\ r = alert THEN <<r, c>> \in tried <=> c < channel
                                  ELSE \A d \in A!Channels : <<r, c>> \in tried => <<r, d>> \in tried

LEMMA AOperators ==
  /\ \A s : A!ToSet(s) = ToSet(s) /\ (A!IsInjective(s) <=> IsInjective(s))
  /\ \A s, e : A!RemoveFirst(s, e) = RemoveFirst(s, e)
<1>1. \A s : A!ToSet(s) = ToSet(s) /\ (A!IsInjective(s) <=> IsInjective(s))
  BY DEF A!ToSet, ToSet, A!IsInjective, IsInjective
<1>2. \A s, e : A!RemoveFirst(s, e) = RemoveFirst(s, e)
  BY DEF A!RemoveFirst, RemoveFirst, A!RemoveAt, RemoveAt, A!SelectInSeq, SelectInSeq, A!Min, Min
<1>. QED
  BY <1>1, <1>2

LEMMA AInit == A!Init => AInv
BY ServicesOK, AOperators, EmptyIs DEF A!Init, AInv, A!TypeOK, A!Never

\* Whoever gets the lock begins with no alert.
LEMMA AGrant ==
  ASSUME AInv, NEW l \in Seq(Callers), IsInjective(l), A!Grant(l),
         alertEvent' \in [Callers -> SUBSET A!Rules], UNCHANGED <<now, registered, wanted, lastFired, begun>>
  PROVE  AInv'
<1>1. registered \in 0..NRules /\ 1..registered \subseteq A!Rules
  BY ServicesOK DEF AInv, A!TypeOK, A!Rules
<1>2. /\ line' = l /\ todo' \subseteq A!Rules /\ channel' = 0 /\ alert' = 0 /\ tried' = {}
      /\ 0 \in 0..NRules /\ 0 \in 0..NChannels
  BY <1>1, ServicesOK DEF A!Grant
<1>3. A!IsInjective(l)
  BY AOperators
<1>4. A!TypeOK'
  BY <1>2, <1>3 DEF AInv, A!TypeOK
<1>. QED
  BY <1>2, <1>4 DEF AInv

LEMMA AFire ==
  ASSUME AInv, A!Fire
  PROVE  AInv' /\ \A r \in A!Rules : begun'[r] # begun[r] /\ begun[r] # A!Never => begun'[r] - begun[r] >= Throttle
<1>1. PICK r \in A!Due :
        /\ lastFired' = [lastFired EXCEPT ![r] = now]
        /\ begun' = [begun EXCEPT ![r] = now]
        /\ alert' = r
        /\ todo' = {q \in todo : q > r}
  BY DEF A!Fire
<1>2. /\ channel = 0 /\ channel' = (IF A!Channels = {} THEN 0 ELSE 1)
      /\ UNCHANGED <<now, registered, wanted, line, alertEvent, tried>>
  BY DEF A!Fire
<1>3. r \in todo /\ r \in A!Rules /\ ~A!Throttled(r) /\ todo \subseteq A!Rules
  BY <1>1 DEF A!Due, AInv, A!TypeOK
<1>4. /\ r \in 0..NRules /\ channel' \in 0..NChannels
      /\ r \notin todo' /\ todo' \subseteq todo
      /\ \A c \in A!Channels : channel' = 1 /\ ~(c < channel')
  BY <1>1, <1>2, <1>3, ServicesOK DEF A!Rules, A!Channels
<1>5. A!TypeOK'
  BY <1>1, <1>2, <1>3, <1>4 DEF AInv, A!TypeOK
<1>6. begun' = lastFired'
  BY <1>1 DEF AInv
<1>7. \A q \in A!Rules, c \in A!Channels :
        /\ <<q, c>> \in tried => q \notin todo
        /\ \A d \in A!Channels : <<q, c>> \in tried => <<q, d>> \in tried
  BY <1>2 DEF AInv
<1>8. \A c \in A!Channels : <<r, c>> \notin tried
  BY <1>3, <1>7
<1>9. AInv'
  BY <1>1, <1>2, <1>3, <1>4, <1>5, <1>6, <1>7, <1>8 DEF AInv
<1>10. ASSUME NEW q \in A!Rules, begun'[q] # begun[q], begun[q] # A!Never
       PROVE  begun'[q] - begun[q] >= Throttle
  <2>1. q = r /\ begun[r] = lastFired[r] /\ begun'[r] = now
    BY <1>1, <1>10 DEF AInv, A!TypeOK
  <2>2. now \in Int /\ lastFired[r] \in Int /\ Throttle \in Int
    BY <1>3, ServicesOK DEF AInv, A!TypeOK, A!Never
  <2>. QED
    BY <1>3, <1>10, <2>1, <2>2 DEF A!Throttled
<1>. QED
  BY <1>9, <1>10

LEMMA ASend == ASSUME AInv, A!Send PROVE AInv'
<1>1. /\ channel # 0 /\ tried' = tried \cup {<<alert, channel>>}
      /\ channel' = (IF channel < NChannels THEN channel + 1 ELSE 0)
      /\ UNCHANGED <<now, registered, wanted, lastFired, line, alertEvent, todo, alert, begun>>
  BY DEF A!Send
<1>2. /\ channel \in A!Channels /\ channel' \in 0..NChannels /\ alert \in A!Rules /\ alert \notin todo
      /\ channel' # 0 => channel' = channel + 1
      /\ channel' = 0 => channel = NChannels
      /\ \A c \in A!Channels : c \in 1..NChannels
  BY <1>1, ServicesOK DEF AInv, A!TypeOK, A!Channels
<1>3. A!TypeOK'
  BY <1>1, <1>2 DEF AInv, A!TypeOK
<1>4. \A c \in A!Channels : <<alert, c>> \in tried' <=> c <= channel
  <2>1. \A c \in A!Channels : <<alert, c>> \in tried <=> c < channel
    BY <1>1, <1>2 DEF AInv
  <2>. QED
    BY <1>1, <1>2, <2>1, ServicesOK
<1>5. \A r \in A!Rules, c, d \in A!Channels : r # alert /\ <<r, c>> \in tried' => <<r, d>> \in tried'
  BY <1>1 DEF AInv
<1>6. \A c \in A!Channels : IF channel' # 0 THEN c <= channel <=> c < channel' ELSE c <= channel
  BY <1>1, <1>2, ServicesOK
<1>7. \A r \in A!Rules, c \in A!Channels : <<r, c>> \in tried' => r \notin todo
  BY <1>1, <1>2 DEF AInv
<1>. QED
  BY <1>1, <1>2, <1>3, <1>4, <1>5, <1>6, <1>7 DEF AInv

LEMMA AStep ==
  ASSUME AInv, A!Next \/ UNCHANGED alertVars
  PROVE  /\ AInv'
         /\ \A r \in A!Rules : begun'[r] # begun[r] /\ begun[r] # A!Never => begun'[r] - begun[r] >= Throttle
<1>0. /\ line \in Seq(Callers) /\ IsInjective(line) /\ alertEvent \in [Callers -> SUBSET A!Rules]
      /\ <<>> \in Seq(Callers) /\ ToSet(<<>>) = {} /\ IsInjective(<<>>)
  BY AOperators, EmptyIs DEF AInv, A!TypeOK
<1>1. CASE UNCHANGED alertVars
  BY <1>1 DEF alertVars, AInv, A!TypeOK, A!Throttled
<1>2. CASE A!Register \/ A!Tick
  <2>1. registered' \in 0..NRules /\ now' \in 0..MaxTime
    <3>1. registered \in 0..NRules /\ now \in 0..MaxTime
      BY DEF AInv, A!TypeOK
    <3>. QED
      BY <1>2, <3>1, BoundsAre DEF A!Register, A!Tick
  <2>3. wanted' \in [A!Rules -> SUBSET A!Channels]
    <3>1. wanted \in [A!Rules -> SUBSET A!Channels] /\ Selections \subseteq SUBSET A!Channels
      BY ServicesOK DEF AInv, A!TypeOK, A!Channels
    <3>2. wanted' = wanted \/ \E r : \E w \in Selections : wanted' = [wanted EXCEPT ![r] = w]
      BY <1>2 DEF A!Register, A!Tick
    <3>. QED
      BY <3>1, <3>2
  <2>2. UNCHANGED <<lastFired, line, alertEvent, todo, channel, alert, begun, tried>>
    BY <1>2 DEF A!Register, A!Tick
  <2>. QED
    BY <2>1, <2>2, <2>3 DEF AInv, A!TypeOK
<1>3. CASE A!Fire
  BY <1>3, AFire
<1>4. CASE A!Send
  BY <1>4, ASend DEF A!Send
<1>5. ASSUME NEW c \in Callers, NEW m \in SUBSET A!Rules, A!Evaluate(c, m) PROVE AInv' /\ begun' = begun
  <2>1. alertEvent' \in [Callers -> SUBSET A!Rules] /\ UNCHANGED <<now, registered, wanted, lastFired, begun>>
    BY <1>0, <1>5 DEF A!Evaluate
  <2>2. CASE line = <<>>
    <3>1. <<c>> = Append(<<>>, c) /\ <<c>> \in Seq(Callers) /\ IsInjective(<<c>>)
      BY <1>0, AppendSet DEF IsInjective
    <3>. QED
      BY <1>5, <2>1, <2>2, <3>1, AGrant DEF A!Evaluate
  <2>3. CASE line # <<>>
    <3>1. line' = Append(line, c) /\ UNCHANGED <<todo, channel, alert, tried>> /\ c \notin ToSet(line)
      BY <1>5, <2>3, AOperators DEF A!Evaluate
    <3>2. line' \in Seq(Callers) /\ A!IsInjective(line')
      BY <1>0, <3>1, AppendSet, AOperators
    <3>. QED
      BY <2>1, <3>1, <3>2 DEF AInv, A!TypeOK
  <2>. QED
    BY <2>1, <2>2, <2>3
<1>6. CASE A!Finish
  <2>1. Tail(line) \in Seq(Callers) /\ IsInjective(Tail(line))
    BY <1>0, <1>6, TailSet DEF A!Finish
  <2>2. AInv'
    BY <1>0, <1>6, <2>1, AGrant DEF A!Finish
  <2>. QED
    BY <1>6, <2>2 DEF A!Finish
<1>7. ASSUME NEW c \in Callers, A!Cancel(c) PROVE AInv' /\ begun' = begun
  <2>0. c \in ToSet(line) /\ UNCHANGED <<now, registered, wanted, lastFired, alertEvent, begun>>
    BY <1>7, AOperators DEF A!Cancel
  <2>1. CASE c = Head(line)
    <3>1. line # <<>>
      BY <1>0, <2>0
    <3>2. Tail(line) \in Seq(Callers) /\ IsInjective(Tail(line))
      BY <1>0, <3>1, TailSet
    <3>. QED
      BY <1>0, <1>7, <2>0, <2>1, <3>2, AGrant DEF A!Cancel
  <2>2. CASE c # Head(line)
    <3>1. line' = RemoveFirst(line, c) /\ UNCHANGED <<todo, channel, alert, tried>>
      BY <1>7, <2>2, AOperators DEF A!Cancel
    <3>2. line' \in Seq(Callers) /\ A!IsInjective(line')
      BY <1>0, <3>1, RemoveFirstSet, AOperators
    <3>. QED
      BY <2>0, <3>1, <3>2 DEF AInv, A!TypeOK
  <2>. QED
    BY <2>1, <2>2
<1>. QED
  BY <1>1, <1>2, <1>3, <1>4, <1>5, <1>6, <1>7 DEF A!Next

LEMMA AKeeps == AInv => A!EveryChannelTried
<1> SUFFICES ASSUME AInv, channel = 0, alert # 0, NEW c \in wanted[alert]
             PROVE  <<alert, c>> \in tried
  BY DEF A!EveryChannelTried
<1>1. alert \in A!Rules
  BY ServicesOK DEF AInv, A!TypeOK, A!Rules
<1>2. c \in A!Channels
  BY <1>1 DEF AInv, A!TypeOK
<1>. QED
  BY <1>2 DEF AInv

-----------------------------------------------------------------------------
(* The composition. *)

InvAll == IInv /\ HInv /\ QInv /\ BInv /\ TInv /\ WInv /\ AInv /\ RInv

LEMMA InvAllInit == InitAll => InvAll
BY InitIInv, HInit, QInit, BInit, TInit, WInit, AInit, RInit DEF InitAll, InvAll

\* A step is one of the component a behaviour is about.
LEMMA Components ==
  ASSUME [NextAny]_allVars
  PROVE  /\ [Next]_vars
         /\ H!Next \/ UNCHANGED healthVars
         /\ Q!Next \/ UNCHANGED saqVars
         /\ B!Next \/ UNCHANGED redisBusVars
         /\ T!Next \/ UNCHANGED natsBusVars
         /\ W!Next \/ UNCHANGED serverVars
         /\ A!Next \/ UNCHANGED alertVars
         /\ R!Next \/ UNCHANGED redisCacheVars
BY Zenon DEF NextAny, allVars, Idle, bootstrapVars

LEMMA InvAllStep == InvAll /\ [NextAny]_allVars => InvAll'
<1> SUFFICES ASSUME InvAll, [NextAny]_allVars PROVE InvAll'
  OBVIOUS
<1>. QED
  BY Components, StepIInv, HStep, QStep, BStep, TStep, WStep, AStep, RStep DEF InvAll

LEMMA InvAllHolds == SpecAll => []InvAll
BY InvAllInit, InvAllStep, PTL DEF SpecAll

-----------------------------------------------------------------------------
\* Every component's variables keep their types.
THEOREM TypesCorrect == SpecAll => []TypesOK
<1>1. InvAll => TypesOK
  BY QTypes DEF InvAll, TypesOK, IInv, HInv, BInv, TInv, WInv, AInv, RInv
<1>. QED
  BY <1>1, InvAllHolds, PTL

\* RedisBusAdapter calls a handler in publication order, at most once per event
\* and, while the connection holds, without a gap, over every break and new
\* subscription; NatsBusAdapter acknowledges only what a handler is done with.
THEOREM EventsKept == SpecAll => []EventsAreKept
<1>1. InvAll => EventsAreKept
  BY BKeeps DEF InvAll, TInv, EventsAreKept
<1>. QED
  BY <1>1, InvAllHolds, PTL

\* BusServer: every subscription has a handler that will end it, and nothing
\* passes a closed gate.
THEOREM GatesKept == SpecAll => []GatesHold
<1>1. InvAll => GatesHold
  BY WKeeps DEF InvAll, GatesHold
<1>. QED
  BY <1>1, InvAllHolds, PTL

\* LifecycleManager.is_system_healthy(): for any number of services and any
\* names they report, the verdict is that every answer of the call which no
\* later answer of the same name overwrote was "healthy".
THEOREM VerdictCovers == SpecAll => VerdictCoversKept
<1>1. InvAll /\ [NextAny]_allVars
        => [H!Return => (verdict' <=>
              \A s \in H!Services : answered[s] = "healthy" \/ H!Overwritten(s))]_(H!vars)
  BY VerdictIs DEF InvAll
<1>. QED
  BY <1>1, InvAllHolds, PTL DEF SpecAll, VerdictCoversKept, H!VerdictCoversKept

\* get_dlq_jobs loses no dead letter, as long as one listing runs at a time.
THEOREM DeadLettersListed == OneLister => (SpecAll => DeadAreListed)
<1>. SUFFICES ASSUME OneLister PROVE SpecAll => DeadAreListed
  OBVIOUS
<1>1. InitAll => Listed
  BY QInit DEF InitAll
<1>2. InvAll /\ Listed /\ [NextAny]_allVars => Listed'
  BY Components, ListedStep DEF InvAll
<1>3. InvAll /\ Listed /\ [NextAny]_allVars
        => [\A j \in registry \ registry' : saqStatus[j] = "none"]_(Q!vars)
  BY Components, ListedStep DEF InvAll
<1>. QED
  BY <1>1, <1>2, <1>3, InvAllHolds, PTL DEF SpecAll, DeadAreListed, Q!DeadAreListed

\* Two alerts of one rule begin a throttle interval apart, however many
\* evaluations run, wait or are cancelled, and an alert that was not cancelled
\* has been tried on every channel its rule names.
THEOREM AlertsSent == SpecAll => AlertsAreSent
<1>1. InvAll => A!EveryChannelTried
  BY AKeeps DEF InvAll
<1>2. InvAll /\ [NextAny]_allVars
        => [\A r \in A!Rules : begun'[r] # begun[r] /\ begun[r] # A!Never
              => begun'[r] - begun[r] >= Throttle]_(A!vars)
  BY Components, AStep DEF InvAll
<1>. QED
  BY <1>1, <1>2, InvAllHolds, PTL DEF SpecAll, AlertsAreSent, A!ThrottleHolds
=============================================================================
