------------------------- MODULE MemoryStateMachine -------------------------
(***************************************************************************)
(* InMemoryStateMachineAdapter: the loop of the production adapter without *)
(* an await, so that a run is one step; its event log is that of all runs  *)
(* since the last reset.                                                   *)
(***************************************************************************)
EXTENDS Naturals, Sequences, FiniteSets

CONSTANTS
  States, Initial, Handled, Rules, \* as in StateMachine
  MaxIter,    \* max_iterations
  Strategies, \* values of on_error_strategy in use
  NoState,    \* None
  MaxRuns     \* bound: runs

VARIABLES
  strict,   \* strict_mode
  strategy, \* on_error_strategy
  status,   \* _status
  events,   \* _events
  ended,    \* how the last run ended: "none", "returned", "raised", "escaped"
  mark,     \* history: where in _events the last run began
  runs      \* history: runs so far

vars == <<strict, strategy, status, events, ended, mark, runs>>

Fresh(s) == [state |-> s, running |-> FALSE, terminated |-> FALSE, count |-> 0, failed |-> FALSE]

TypeOK ==
  /\ strict \in BOOLEAN /\ strategy \in Strategies
  /\ status \in [state : States, running : BOOLEAN, terminated : BOOLEAN, count : 0..MaxIter, failed : BOOLEAN]
  /\ events \in Seq([from : States, to : States, ok : BOOLEAN])
  /\ ended \in {"none", "returned", "raised", "escaped"}
  /\ mark \in 0..Len(events)
  /\ runs \in 0..MaxRuns

Init ==
  /\ strict \in BOOLEAN /\ strategy \in Strategies
  /\ status = Fresh(Initial)
  /\ events = <<>> /\ ended = "none" /\ mark = 0 /\ runs = 0

-----------------------------------------------------------------------------
(* A run under way: its current and previous state, the status, _events,   *)
(* and how it ended, if it did.                                            *)

Settled(st) == [st EXCEPT !.running = FALSE, !.terminated = TRUE]

End(m, how, st) == [m EXCEPT !.how = how, !.status = st]

Event(m, t, ok) == Append(m.log, [from |-> m.cur, to |-> t, ok |-> ok])

\* The handler raised, and the strategy decides.
HandlerError(m) ==
  LET failed == [m.status EXCEPT !.failed = TRUE]
      logged == [m EXCEPT !.log = Event(m, m.cur, FALSE)]
  IN  CASE strategy = "retry" -> [logged EXCEPT !.status = failed]
        [] strategy = "rollback" /\ m.prev # NoState -> [logged EXCEPT !.status = [failed EXCEPT !.state = m.prev]]
        [] OTHER -> End(logged, "returned", Settled(failed))

\* No rule: strict mode raises.
Refused(m) ==
  IF strict THEN End(m, "raised", Settled(m.status))
  ELSE End(m, "returned", [Settled(m.status) EXCEPT !.failed = TRUE])

\* Mutant of Moved: the event is logged after the move.
MovedLoggedLate(m, t) ==
  [m EXCEPT !.log = Append(@, [from |-> t, to |-> t, ok |-> TRUE]), !.prev = m.cur, !.cur = t,
            !.status = [m.status EXCEPT !.state = t, !.count = @ + 1]]

Moved(m, t) ==
  [m EXCEPT !.log = Event(m, t, TRUE), !.prev = m.cur, !.cur = t,
            !.status = [m.status EXCEPT !.state = t, !.count = @ + 1]]

\* One turn, by what happens in it: the handler raises; a guard, the on_exit or
\* the on_error hook does ("hook"); the handler returns t, and the guard blocks
\* it, the on_transition or the on_enter hook raises, or it "moves" there.
Turn(m, outcome) ==
  LET t == outcome[1]
      what == outcome[2]
  IN  IF m.how # "none" THEN m
      ELSE IF m.cur \notin Handled THEN End(m, "returned", Settled(m.status))
      ELSE IF what = "raise" THEN HandlerError(m)
      ELSE IF what = "hook" THEN End(m, "escaped", m.status)
      ELSE IF <<m.cur, t>> \notin Rules THEN Refused(m)
      ELSE CASE what = "blocked"    -> End(m, "returned", [Settled(m.status) EXCEPT !.failed = TRUE])
             [] what = "transition" -> End([m EXCEPT !.log = Event(m, t, TRUE)], "escaped", m.status)
             [] what = "enter"      -> End(Moved(m, t), "escaped", Moved(m, t).status)
             [] OTHER               -> Moved(m, t)

\* run(), with what each of its turns meets, unless the first on_enter raises.
Run(start, entered, outcomes) ==
  /\ runs < MaxRuns
  /\ LET begun == [cur |-> start, prev |-> NoState, log |-> events,
                   how |-> IF entered THEN "none" ELSE "escaped",
                   status |-> [Fresh(start) EXCEPT !.running = TRUE]]
         turned[n \in 0..Len(outcomes)] == IF n = 0 THEN begun ELSE Turn(turned[n - 1], outcomes[n])
         last == turned[Len(outcomes)]
         over == IF last.how = "none" THEN End(last, "returned", Settled(last.status)) ELSE last
     IN  /\ status' = over.status
         /\ events' = over.log
         /\ ended' = over.how
  /\ mark' = Len(events)
  /\ runs' = runs + 1
  /\ UNCHANGED <<strict, strategy>>

\* reset()
Reset ==
  /\ status' = Fresh(Initial)
  /\ events' = <<>> /\ mark' = 0 /\ ended' = "none"
  /\ UNCHANGED <<strict, strategy, runs>>

Outcomes ==
  {<<Initial, "raise">>, <<Initial, "hook">>} \union (States \X {"blocked", "transition", "enter", "moves"})

Next ==
  \/ Reset
  \/ \E s \in States : Run(s, FALSE, <<>>) \/ \E outcomes \in [1..MaxIter -> Outcomes] : Run(s, TRUE, outcomes)

Spec == Init /\ [][Next]_vars

-----------------------------------------------------------------------------
(* Properties *)

\* The moves of the last run, and how many of them there were up to the i-th event.
Moves == {i \in (mark + 1)..Len(events) : events[i].ok}
Rank(i) == Cardinality({j \in Moves : j <= i})

\* The double keeps the log of a run like the production adapter: its moves
\* make a path along the rules, over errors and retries, and the status counts
\* them, all but the last of a run that an on_transition hook left.
LogIsPath ==
  ended # "none" =>
    /\ status.count = Cardinality(Moves) \/ (ended = "escaped" /\ status.count + 1 = Cardinality(Moves))
    /\ Len(events) - mark <= MaxIter
    /\ \A i \in Moves :
         /\ <<events[i].from, events[i].to>> \in Rules
         /\ \A j \in Moves : Rank(j) + 1 = Rank(i) => events[i].from = events[j].to
         /\ strategy # "rollback" /\ Rank(i) = status.count => status.state = events[i].to

\* A run that ended is no longer shown as running, unless a hook raised.
RunningIsEscaped == status.running => ended = "escaped"
=============================================================================
