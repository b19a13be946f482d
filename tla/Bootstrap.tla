------------------------------ MODULE Bootstrap ------------------------------
(***************************************************************************)
(* BootstrapOrchestrator.run(): start every manager in one TaskGroup, wait *)
(* for a signal, stop the managers one by one in reverse.  The managers'   *)
(* start() and stop() are external; a start() that is cancelled may still  *)
(* succeed or fail.  The state of the TaskGroup is asyncio's.              *)
(***************************************************************************)
EXTENDS Naturals

CONSTANT N  \* managers, 1..N in registration order

ASSUME ConstantsOK == N \in Nat \ {0}

Managers == 1..N

VARIABLES
  main,        \* where run() is
  start,       \* each start() task
  aborting,    \* the TaskGroup has cancelled the tasks that were not done
  stop,        \* each stop() call
  next,        \* the manager shutdown() is at
  event,       \* _shutdown_event
  handlers     \* run()'s signal handlers are installed

startup  == <<start, aborting>>
shutdown == <<stop, next>>
vars     == <<main, start, aborting, stop, next, event, handlers>>

TypeOK ==
  /\ main \in {"new", "startup", "waiting", "shutdown", "done", "interrupted", "killed"}
  /\ start \in [Managers -> {"none", "new", "starting", "up", "failed", "cancelled"}]
  /\ aborting \in BOOLEAN
  /\ stop \in [Managers -> {"no", "stopping", "stopped", "failed"}]
  /\ next \in 0..N
  /\ event \in BOOLEAN
  /\ handlers \in BOOLEAN

Init ==
  /\ main = "new"
  /\ start = [m \in Managers |-> "none"]
  /\ aborting = FALSE
  /\ stop = [m \in Managers |-> "no"]
  /\ next = N
  /\ event = FALSE
  /\ handlers = FALSE

-----------------------------------------------------------------------------
Run ==
  /\ main = "new"
  /\ main' = "startup"
  /\ handlers' = TRUE
  /\ start' = [m \in Managers |-> "new"]
  /\ UNCHANGED <<aborting, shutdown, event>>

\* The loop runs the new tasks in the order of their creation; one that was
\* cancelled first never calls start().
BeginStart(m) ==
  /\ start[m] = "new"
  /\ \A k \in 1..(m - 1) : start[k] # "new"
  /\ start' = [start EXCEPT ![m] = IF aborting THEN "cancelled" ELSE "starting"]
  /\ UNCHANGED <<main, aborting, shutdown, event, handlers>>

\* A start() that raises makes the group cancel all others; CancelledError,
\* whoever raised it, only ends its own task.
EndStart(m, result) ==
  /\ start[m] = "starting"
  /\ start' = [start EXCEPT ![m] = result]
  /\ aborting' = (aborting \/ result = "failed")
  /\ UNCHANGED <<main, shutdown, event, handlers>>

\* The finally block: handlers off, then shutdown().
Leave == main' = "shutdown" /\ handlers' = FALSE

InFlight(m) == start[m] \in {"new", "starting"}

\* Mutant of StartupEnds: the other tasks are not waited for when one fails.
StartupEndsEarly ==
  /\ main = "startup"
  /\ aborting \/ \A m \in Managers : ~InFlight(m)
  /\ IF aborting THEN Leave ELSE main' = "waiting" /\ UNCHANGED handlers
  /\ UNCHANGED <<startup, shutdown, event>>

\* Mutant of StartupEnds: a signal that came before is forgotten.
StartupEndsForgets ==
  /\ main = "startup"
  /\ \A m \in Managers : ~InFlight(m)
  /\ event' = FALSE
  /\ IF aborting THEN Leave ELSE main' = "waiting" /\ UNCHANGED handlers
  /\ UNCHANGED <<startup, shutdown>>

\* The group is joined, and raises if it was aborted.
StartupEnds ==
  /\ main = "startup"
  /\ \A m \in Managers : ~InFlight(m)
  /\ IF aborting THEN Leave ELSE main' = "waiting" /\ UNCHANGED handlers
  /\ UNCHANGED <<startup, shutdown, event>>

\* SIGTERM or SIGINT while run() has its handlers.
Signal ==
  /\ handlers
  /\ event' = TRUE
  /\ UNCHANGED <<main, startup, shutdown, handlers>>

\* The same signals while shutdown() runs: the handlers are off, the default
\* action ends the process.
SecondSignal ==
  /\ main = "shutdown"
  /\ main' = "killed"
  /\ UNCHANGED <<startup, shutdown, event, handlers>>

Wake ==
  /\ main = "waiting"
  /\ event
  /\ Leave
  /\ UNCHANGED <<startup, shutdown, event>>

BeginStop ==
  /\ main = "shutdown"
  /\ next > 0
  /\ stop[next] = "no"
  /\ stop' = [stop EXCEPT ![next] = "stopping"]
  /\ UNCHANGED <<main, startup, next, event, handlers>>

\* Mutant of EndStop: a stop() that raises ends the loop.
EndStopFragile(result) ==
  /\ main = "shutdown"
  /\ next > 0
  /\ stop[next] = "stopping"
  /\ stop' = [stop EXCEPT ![next] = result]
  /\ next' = next - 1
  /\ main' = IF result = "failed" THEN "done" ELSE main
  /\ UNCHANGED <<startup, event, handlers>>

\* Any Exception is logged and the loop goes on.
EndStop(result) ==
  /\ main = "shutdown"
  /\ next > 0
  /\ stop[next] = "stopping"
  /\ stop' = [stop EXCEPT ![next] = result]
  /\ next' = next - 1
  /\ UNCHANGED <<main, startup, event, handlers>>

ShutdownEnds ==
  /\ main = "shutdown"
  /\ next = 0
  /\ event' = TRUE
  /\ main' = "done"
  /\ UNCHANGED <<startup, shutdown, handlers>>

\* run() is cancelled: in startup() the group cancels its tasks, in wait()
\* the finally block runs; in shutdown(), as when stop() raises it itself,
\* CancelledError is no Exception and leaves the loop.
Cancel ==
  /\ \/ main = "startup" /\ aborting' = TRUE /\ UNCHANGED <<main, stop, handlers>>
     \/ main = "waiting" /\ Leave /\ UNCHANGED <<aborting, stop>>
     \/ /\ main = "shutdown" /\ next > 0 /\ stop[next] = "stopping"
        /\ main' = "interrupted"
        /\ stop' = [stop EXCEPT ![next] = "failed"]
        /\ UNCHANGED <<aborting, handlers>>
  /\ UNCHANGED <<start, next, event>>

Next ==
  \/ Run
  \/ \E m \in Managers :
       \/ BeginStart(m)
       \/ \E result \in {"up", "failed", "cancelled"} : EndStart(m, result)
  \/ StartupEnds
  \/ Signal \/ SecondSignal
  \/ Wake
  \/ BeginStop
  \/ \E result \in {"stopped", "failed"} : EndStop(result)
  \/ ShutdownEnds
  \/ Cancel

Spec == Init /\ [][Next]_vars

\* The loop runs what is ready, and every start() and stop() ends.
Fairness ==
  /\ \A m \in Managers :
       /\ WF_vars(BeginStart(m))
       /\ WF_vars(\E result \in {"up", "failed", "cancelled"} : EndStart(m, result))
  /\ WF_vars(StartupEnds)
  /\ WF_vars(Wake)
  /\ WF_vars(BeginStop)
  /\ WF_vars(\E result \in {"stopped", "failed"} : EndStop(result))
  /\ WF_vars(ShutdownEnds)

FairSpec == Spec /\ Fairness

-----------------------------------------------------------------------------
(* Properties. *)

\* The managers are stopped only when no start() is in flight any more, one
\* at a time and the later ones first, however startup ended.
StopsInOrder ==
  \A m \in Managers : stop[m] # "no" =>
    /\ \A k \in Managers : ~InFlight(k)
    /\ \A k \in (m + 1)..N : stop[k] \in {"stopped", "failed"}

\* A run whose shutdown() is not itself interrupted has stopped every manager,
\* also after a failed or cancelled startup and with stops that raise.
EveryoneStopped ==
  main = "done" => \A m \in Managers : stop[m] \in {"stopped", "failed"}

\* run() waits for its signal only if every start() was joined and none of
\* them raised an Exception.
WaitsWhenUp == main = "waiting" => \A m \in Managers : start[m] \in {"up", "cancelled"}

\* Neither a signal, one that arrives while managers are still starting as
\* much as a later one, nor a failed start() is lost: the run ends.
ShutdownCompletes == event \/ aborting ~> main \in {"done", "interrupted", "killed"}

\* "Any exception raised by a stop() call is logged and then discarded - it
\* never prevents the remaining managers from shutting down".
StopErrorsAreIsolated ==
  main \in {"done", "interrupted"} => \A m \in Managers : stop[m] \in {"stopped", "failed"}
=============================================================================
