----------------------------- MODULE StateMachine -----------------------------
(***************************************************************************)
(* The workflow state machine (ProductionStateMachineAdapter; the          *)
(* in-memory adapter has the same loop without awaits).  Each run() is a   *)
(* coroutine that awaits only its handlers, so one action goes from a      *)
(* handler's outcome to the next handler call, or to the end of the run.   *)
(* All runs of an adapter share its status and its event log.              *)
(***************************************************************************)
EXTENDS Naturals, Sequences, FiniteSets

CONSTANTS
  States,
  Initial,    \* initial_state
  Handled,    \* states that have a handler
  Rules,      \* registered transitions
  Runs,       \* run() calls
  MaxIter,    \* max_iterations
  Strategies, \* values of on_error_strategy in use
  NoState     \* None

ASSUME ConstantsOK ==
  /\ Initial \in States
  /\ Handled \subseteq States
  /\ Rules \subseteq States \X States
  /\ MaxIter \in Nat \ {0}
  /\ Strategies \subseteq {"stop", "rollback", "retry"}
  /\ NoState \notin States

VARIABLES
  strict,   \* strict_mode
  strategy, \* on_error_strategy
  status,   \* _status
  events,   \* _events, from where the latest run began or reset() cleared it
  pc,       \* "new", "running" (awaits a handler), "returned", "raised" its own
            \* error, or "escaped": left by a hook's exception or cancelled
  cur,      \* run()'s current
  prev,     \* run()'s previous
  iter,     \* completed turns of run()'s loop
  origin,   \* history: the state the latest run was in there
  mixed     \* history: another run was under way when the latest one began

config  == <<strict, strategy>>
history == <<origin, mixed>>
vars    == <<config, status, events, pc, cur, prev, iter, history>>

Status == [state : States, running : BOOLEAN, terminated : BOOLEAN,
           count : Nat, failed : BOOLEAN]
Event  == [from : States, to : States, ok : BOOLEAN]

TypeOK ==
  /\ strict \in BOOLEAN
  /\ strategy \in Strategies
  /\ status \in Status
  /\ events \in Seq(Event)
  /\ pc \in [Runs -> {"new", "running", "returned", "raised", "escaped"}]
  /\ cur \in [Runs -> States]
  /\ prev \in [Runs -> States \cup {NoState}]
  /\ iter \in [Runs -> 0..(MaxIter - 1)]
  /\ origin \in States
  /\ mixed \in BOOLEAN

Fresh(s) == [state |-> s, running |-> FALSE, terminated |-> FALSE,
             count |-> 0, failed |-> FALSE]
\* Mutant of Settled: is_running is forgotten.
HalfSettled(st) == [st EXCEPT !.terminated = TRUE]

Settled(st) == [st EXCEPT !.running = FALSE, !.terminated = TRUE]

Init ==
  /\ strict \in BOOLEAN
  /\ strategy \in Strategies
  /\ status = Fresh(Initial)
  /\ events = <<>>
  /\ pc = [r \in Runs |-> "new"]
  /\ cur = [r \in Runs |-> Initial]
  /\ prev = [r \in Runs |-> NoState]
  /\ iter = [r \in Runs |-> 0]
  /\ origin = Initial
  /\ mixed = FALSE

-----------------------------------------------------------------------------
Active(r) == pc[r] = "running"

\* The run is over, and its local variables with it.
End(r, how) ==
  /\ pc' = [pc EXCEPT ![r] = how]
  /\ cur' = [cur EXCEPT ![r] = Initial]
  /\ prev' = [prev EXCEPT ![r] = NoState]
  /\ iter' = [iter EXCEPT ![r] = 0]

Log(r, t, ok) == events' = Append(events, [from |-> cur[r], to |-> t, ok |-> ok])

Again(r, s, p, n) ==
  /\ cur' = [cur EXCEPT ![r] = s]
  /\ prev' = [prev EXCEPT ![r] = p]
  /\ iter' = [iter EXCEPT ![r] = n]
  /\ UNCHANGED pc

\* Mutant of Turn: a turn after an error does not count.
TurnUncounted(r, s, p, st) ==
  IF iter[r] + 1 < MaxIter /\ s \in Handled
  THEN status' = st /\ Again(r, s, p, IF s = cur[r] THEN iter[r] ELSE iter[r] + 1)
  ELSE status' = Settled(st) /\ End(r, "returned")

\* The end of a turn of the loop in state s, with previous p and status st:
\* the next handler is called, or the loop is over.
Turn(r, s, p, st) ==
  IF iter[r] + 1 < MaxIter /\ s \in Handled
  THEN status' = st /\ Again(r, s, p, iter[r] + 1)
  ELSE status' = Settled(st) /\ End(r, "returned")

\* run() up to its first handler: the status is replaced.
Begin(r, s) ==
  /\ pc[r] = "new"
  /\ LET st == [Fresh(s) EXCEPT !.running = TRUE] IN
       \/ /\ s \in Handled
          /\ pc' = [pc EXCEPT ![r] = "running"]
          /\ cur' = [cur EXCEPT ![r] = s]
          /\ status' = st
          /\ UNCHANGED <<prev, iter>>
       \/ /\ s \notin Handled
          /\ End(r, "returned")
          /\ status' = Settled(st)
       \/ /\ End(r, "escaped")  \* on_enter raises
          /\ status' = st
  /\ events' = <<>>
  /\ origin' = s
  /\ mixed' = \E o \in Runs : Active(o)
  /\ UNCHANGED config

\* The handler returned t, and the rule's guard holds.  If the on_transition
\* or on_enter hook raises, what was done before it stays done.
Moved(r, t) ==
  LET st == [status EXCEPT !.state = t, !.count = @ + 1] IN
  /\ Active(r)
  /\ <<cur[r], t>> \in Rules
  /\ Log(r, t, TRUE)
  /\ \/ Turn(r, t, cur[r], st)
     \/ End(r, "escaped") /\ status' \in {status, st}
  /\ UNCHANGED <<config, history>>

\* The guard, the on_exit hook or the on_error hook raises, or the run is
\* cancelled: the run is over and its status stays as it was.
Escape(r) ==
  /\ Active(r)
  /\ End(r, "escaped")
  /\ UNCHANGED <<config, status, events, history>>

\* No rule, or a rule whose guard is false.
Refused(r, t) ==
  /\ Active(r)
  /\ LET invalid == <<cur[r], t>> \notin Rules IN
       IF invalid /\ strict
       THEN End(r, "raised") /\ status' = Settled(status)
       ELSE End(r, "returned") /\ status' = [Settled(status) EXCEPT !.failed = TRUE]
  /\ UNCHANGED <<config, events, history>>

\* Mutant of HandlerError: rollback takes the machine back.
HandlerErrorGoesBack(r) ==
  /\ Active(r)
  /\ prev[r] # NoState
  /\ Log(r, cur[r], FALSE)
  /\ Turn(r, prev[r], prev[r], [status EXCEPT !.failed = TRUE, !.state = prev[r]])
  /\ UNCHANGED <<config, history>>

\* The handler raised: _handle_error, then _apply_error_strategy.  Rollback
\* changes the status; the loop goes on in the same state.
HandlerError(r) ==
  /\ Active(r)
  /\ Log(r, cur[r], FALSE)
  /\ LET st == [status EXCEPT !.failed = TRUE] IN
       \/ /\ strategy = "retry"
          /\ Turn(r, cur[r], prev[r], st)
       \/ /\ strategy = "rollback" /\ prev[r] # NoState
          /\ Turn(r, cur[r], prev[r], [st EXCEPT !.state = prev[r]])
       \/ /\ strategy = "stop" \/ (strategy = "rollback" /\ prev[r] = NoState)
          /\ End(r, "returned")
          /\ status' = Settled(st)
  /\ UNCHANGED <<config, history>>

\* reset(), also while runs are under way: it does not stop them.
Reset ==
  /\ status' = Fresh(Initial)
  /\ events' = <<>>
  /\ \/ \E r \in Runs : Active(r) /\ origin' = cur[r]
     \/ (\A r \in Runs : ~Active(r)) /\ UNCHANGED origin
  /\ UNCHANGED <<config, pc, cur, prev, iter, mixed>>

Outcome(r) == HandlerError(r) \/ \E t \in States : Moved(r, t) \/ Refused(r, t)

Next ==
  \/ \E r \in Runs :
       \/ \E s \in States : Begin(r, s)
       \/ Outcome(r)
       \/ Escape(r)
  \/ Reset

Spec == Init /\ [][Next]_vars

\* Handlers return or raise in the end.
Fairness == \A r \in Runs : WF_vars(Outcome(r))

FairSpec == Spec /\ Fairness

-----------------------------------------------------------------------------
(* Properties. *)

\* The events logged since the run began, or since it was reset under way, lead
\* from where it was to where it is, each starting where the one before ended:
\* a transition goes along a rule, an error, whether retried or rolled back,
\* stays where it is, and the status counts exactly the transitions.
Moves == {i \in DOMAIN events : events[i].ok}

EndOfPath == IF events = <<>> THEN origin ELSE events[Len(events)].to

IsPath ==
  \A i \in DOMAIN events :
    /\ events[i].from = IF i = 1 THEN origin ELSE events[i - 1].to
    /\ events[i].ok => <<events[i].from, events[i].to>> \in Rules
    /\ ~events[i].ok => events[i].from = events[i].to

LogIsPath ==
  \A r \in Runs : Active(r) /\ ~mixed =>
    IsPath /\ cur[r] = EndOfPath /\ status.count = Cardinality(Moves)

\* However runs overlap, is_running outlives them only when one of them was
\* left by an exception that run() does not expect.
RunningIsActive == status.running => \E r \in Runs : pc[r] \in {"running", "escaped"}

\* "max_iterations prevents infinite loops": every run ends, also one whose
\* handler fails for ever under retry or rollback.
RunEnds == \A r \in Runs : Active(r) ~> ~Active(r)

\* "rollback (reverts to previous state)": the machine goes on in the state
\* the status shows.
RollbackReverts == \A r \in Runs : Active(r) /\ status.running => cur[r] = status.state
=============================================================================
