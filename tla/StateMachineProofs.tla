-------------------------- MODULE StateMachineProofs --------------------------
(***************************************************************************)
(* Proofs about StateMachine, for any number of runs, any states, handlers *)
(* and rules, and any limit of iterations.                                 *)
(***************************************************************************)
EXTENDS StateMachine, SeqLemmas, FiniteSetTheorems, TLAPS

\* Unless the latest run began while another was under way, it is the only one
\* that can be under way: only such a run finds the log and the status its own.
OneRun == ~mixed => \A r, o \in Runs : Active(r) /\ Active(o) => r = o

IInv == TypeOK /\ OneRun /\ LogIsPath /\ RunningIsActive

\* What a step of run r leaves to the others, and how its own state may end.
Own(r) ==
  /\ pc' \in [Runs -> {"new", "running", "returned", "raised", "escaped"}]
  /\ cur' \in [Runs -> States]
  /\ prev' \in [Runs -> States \cup {NoState}]
  /\ iter' \in [Runs -> 0..(MaxIter - 1)]
  /\ \A o \in Runs : o # r => pc'[o] = pc[o] /\ cur'[o] = cur[o]

-----------------------------------------------------------------------------
(* Operators the actions share. *)

LEMMA EndIs ==
  ASSUME TypeOK, NEW r \in Runs, NEW how \in {"returned", "raised", "escaped"}, End(r, how)
  PROVE  Own(r) /\ pc'[r] = how
<1>1. 0 \in 0..(MaxIter - 1) /\ Initial \in States
  BY ConstantsOK
<1>. QED
  BY <1>1 DEF End, Own, TypeOK

LEMMA SettledIs ==
  ASSUME NEW st \in Status
  PROVE  Settled(st) \in Status /\ ~Settled(st).running
BY DEF Status, Settled

LEMMA TurnIs ==
  ASSUME TypeOK, NEW r \in Runs, Active(r),
         NEW s \in States, NEW p \in States \cup {NoState}, NEW st \in Status, Turn(r, s, p, st)
  PROVE  /\ Own(r) /\ status' \in Status
         /\ \/ Active(r)' /\ cur'[r] = s /\ status' = st
            \/ pc'[r] = "returned" /\ ~status'.running
<1>1. CASE iter[r] + 1 < MaxIter /\ s \in Handled
  <2>1. status' = st /\ Again(r, s, p, iter[r] + 1)
    BY <1>1 DEF Turn
  <2>2. iter[r] + 1 \in 0..(MaxIter - 1)
    BY <1>1, ConstantsOK DEF TypeOK
  <2>. QED
    BY <2>1, <2>2 DEF Again, Own, TypeOK, Active
<1>2. CASE ~(iter[r] + 1 < MaxIter /\ s \in Handled)
  BY <1>2, EndIs, SettledIs DEF Turn
<1>. QED
  BY <1>1, <1>2

\* Appending an event that starts where the path ends makes a longer path.
LEMMA PathGrows ==
  ASSUME TypeOK, IsPath, NEW e \in Event, events' = Append(events, e), origin' = origin,
         e.from = EndOfPath,
         e.ok => <<e.from, e.to>> \in Rules, ~e.ok => e.from = e.to
  PROVE  /\ IsPath' /\ EndOfPath' = e.to
         /\ Cardinality(Moves') = IF e.ok THEN Cardinality(Moves) + 1 ELSE Cardinality(Moves)
<1> DEFINE n == Len(events)
<1>1. /\ n \in Nat /\ DOMAIN events = 1..n /\ DOMAIN events' = 1..(n + 1) /\ Len(events') = n + 1
      /\ \A i \in 1..n : events'[i] = events[i]
      /\ events'[n + 1] = e
      /\ events = <<>> <=> n = 0
      /\ events' # <<>>
  <2>1. events \in Seq(Event) /\ events' \in Seq(Event)
    BY AppendIs DEF TypeOK
  <2>2. /\ n \in Nat /\ DOMAIN events = 1..n /\ DOMAIN events' = 1..(n + 1) /\ Len(events') = n + 1
        /\ \A i \in 1..n : events'[i] = events[i]
        /\ events'[n + 1] = e
    BY AppendIs DEF TypeOK
  <2>3. n + 1 # 0
    BY <2>2
  <2>. QED
    BY <2>1, <2>2, <2>3, EmptySeq
<1>2. e.from = IF n = 0 THEN origin ELSE events[n].to
  BY <1>1 DEF EndOfPath
<1>. HIDE DEF n
<1>3. EndOfPath' = e.to
  BY <1>1 DEF EndOfPath
<1>4. IsPath'
  <2> SUFFICES ASSUME NEW i \in 1..(n + 1)
               PROVE  /\ events'[i].from = IF i = 1 THEN origin ELSE events'[i - 1].to
                      /\ events'[i].ok => <<events'[i].from, events'[i].to>> \in Rules
                      /\ ~events'[i].ok => events'[i].from = events'[i].to
    BY <1>1 DEF IsPath
  <2>1. CASE i \in 1..n
    <3>1. i = 1 \/ i - 1 \in 1..n
      BY <1>1, <2>1
    <3>. QED
      BY <2>1, <3>1, <1>1 DEF IsPath
  <2>2. CASE i = n + 1
    <3>1. CASE n = 0
      BY <2>2, <3>1, <1>1, <1>2
    <3>2. CASE n # 0
      <4>1. i # 1 /\ i - 1 = n /\ n \in 1..n
        BY <1>1, <2>2, <3>2
      <4>2. events'[i] = e /\ events'[i - 1] = events[n]
        BY <2>2, <4>1, <1>1
      <4>. QED
        BY <3>2, <4>1, <4>2, <1>2
    <3>. QED
      BY <3>1, <3>2
  <2>3. i \in 1..n \/ i = n + 1
    BY <1>1
  <2>. QED
    BY <2>1, <2>2, <2>3
<1>5. IsFiniteSet(Moves) /\ n + 1 \notin Moves
  <2>1. Moves \in SUBSET (1..n)
    BY <1>1 DEF Moves
  <2>2. IsFiniteSet(1..n)
    BY <1>1, FS_Interval
  <2>3. n + 1 \notin 1..n
    BY <1>1
  <2>4. IsFiniteSet(Moves)
    BY <2>1, <2>2, FS_Subset
  <2>. QED
    BY <2>1, <2>3, <2>4
<1>6. CASE e.ok
  <2>1. Moves' = Moves \cup {n + 1}
    BY <1>1, <1>6 DEF Moves
  <2>. QED
    BY <2>1, <1>3, <1>4, <1>5, <1>6, FS_AddElement
<1>7. CASE ~e.ok
  <2>1. Moves' = Moves
    BY <1>1, <1>7 DEF Moves
  <2>. QED
    BY <2>1, <1>3, <1>4, <1>7
<1>. QED
  BY <1>6, <1>7
-----------------------------------------------------------------------------
LEMMA InitIInv == Init => IInv
<1> SUFFICES ASSUME Init PROVE IInv
  OBVIOUS
<1>1. 0 \in 0..(MaxIter - 1) /\ Fresh(Initial) \in Status /\ events \in Seq(Event)
  BY ConstantsOK, EmptySeq DEF Init, Fresh, Status
<1>2. TypeOK
  BY <1>1, ConstantsOK DEF Init, TypeOK
<1>3. \A r \in Runs : ~Active(r)
  BY DEF Init, Active
<1>4. ~status.running
  BY DEF Init, Fresh
<1>. QED
  BY <1>2, <1>3, <1>4 DEF IInv, OneRun, LogIsPath, RunningIsActive

LEMMA BeginKeeps ==
  ASSUME IInv, NEW r \in Runs, NEW s \in States, Begin(r, s)
  PROVE  IInv'
<1> DEFINE st == [Fresh(s) EXCEPT !.running = TRUE]
<1>1. st \in Status /\ st.count = 0
  BY DEF Fresh, Status
<1>2. UNCHANGED config /\ events' = <<>> /\ origin' = s /\ mixed' \in BOOLEAN
  BY DEF Begin
<1>3. /\ Own(r) /\ status' \in Status
      /\ status'.running => pc'[r] \in {"running", "escaped"}
      /\ Active(r)' => cur'[r] = s /\ status'.count = 0
  <2>1. CASE pc' = [pc EXCEPT ![r] = "running"] /\ cur' = [cur EXCEPT ![r] = s]
             /\ status' = st /\ UNCHANGED <<prev, iter>>
    BY <2>1, <1>1 DEF IInv, TypeOK, Own
  <2>2. CASE End(r, "returned") /\ status' = Settled(st)
    BY <2>2, <1>1, EndIs, SettledIs DEF IInv, Active
  <2>3. CASE End(r, "escaped") /\ status' = st
    BY <2>3, <1>1, EndIs DEF IInv, Active
  <2>. QED
    BY <2>1, <2>2, <2>3 DEF Begin
<1>4. TypeOK'
  BY <1>2, <1>3, EmptySeq DEF IInv, TypeOK, Own, config
<1>5. OneRun'
  <2>1. ASSUME ~mixed' PROVE \A o \in Runs : o # r => ~Active(o)'
    BY <2>1, <1>3 DEF Begin, Own, Active
  <2>. QED
    BY <2>1 DEF OneRun
<1>6. LogIsPath'
  <2>1. Moves' = {} /\ Cardinality(Moves') = 0 /\ IsPath' /\ EndOfPath' = s
    BY <1>2, FS_EmptySet DEF Moves, IsPath, EndOfPath
  <2>2. ASSUME NEW o \in Runs, Active(o)', ~mixed' PROVE o = r
    BY <2>2, <1>3 DEF Begin, Own, Active
  <2>. QED
    BY <2>1, <2>2, <1>3 DEF LogIsPath
<1>7. RunningIsActive'
  BY <1>3 DEF RunningIsActive
<1>. QED
  BY <1>4, <1>5, <1>6, <1>7 DEF IInv

\* What Moved, HandlerError, Escape and Refused do to the log and the status.
StepOf(r) ==
  /\ Active(r) /\ Own(r) /\ UNCHANGED <<config, history>>
  /\ status' \in Status
  /\ status'.running => pc'[r] \in {"running", "escaped"}
  /\ \/ UNCHANGED events /\ ~Active(r)'
     \/ \E e \in Event :
          /\ events' = Append(events, e)
          /\ e.from = cur[r]
          /\ e.ok => <<e.from, e.to>> \in Rules
          /\ ~e.ok => e.from = e.to
          /\ Active(r)' => /\ cur'[r] = e.to
                           /\ status'.count = IF e.ok THEN status.count + 1 ELSE status.count

LEMMA StepOfKeeps ==
  ASSUME IInv, NEW r \in Runs, StepOf(r)
  PROVE  IInv'
<1>1. /\ Active(r) /\ Own(r) /\ UNCHANGED <<config, history>> /\ status' \in Status
      /\ status'.running => pc'[r] \in {"running", "escaped"}
  BY DEF StepOf
<1>2. events' \in Seq(Event)
  <2>1. events \in Seq(Event)
    BY DEF IInv, TypeOK
  <2>2. events' = events \/ \E e \in Event : events' = Append(events, e)
    BY DEF StepOf
  <2>. QED
    BY <2>1, <2>2, AppendIs
<1>3. TypeOK'
  BY <1>1, <1>2 DEF IInv, TypeOK, Own, config, history
<1>4. \A o \in Runs : Active(o)' => Active(o)
  BY <1>1 DEF Own, Active
<1>5. OneRun'
  BY <1>1, <1>4 DEF IInv, OneRun, history
<1>6. LogIsPath'
  <2> SUFFICES ASSUME NEW o \in Runs, Active(o)', ~mixed'
               PROVE  IsPath' /\ cur'[o] = EndOfPath' /\ status'.count = Cardinality(Moves')
    BY DEF LogIsPath
  <2>1. o = r /\ ~mixed /\ origin' = origin
    BY <1>1, <1>4 DEF IInv, OneRun, history
  <2>2. IsPath /\ cur[r] = EndOfPath /\ status.count = Cardinality(Moves)
    BY <2>1, <1>1 DEF IInv, LogIsPath
  <2>3. PICK e \in Event :
          /\ events' = Append(events, e)
          /\ e.from = cur[r]
          /\ e.ok => <<e.from, e.to>> \in Rules
          /\ ~e.ok => e.from = e.to
          /\ cur'[r] = e.to
          /\ status'.count = IF e.ok THEN status.count + 1 ELSE status.count
    BY <2>1 DEF StepOf
  <2>4. /\ IsPath' /\ EndOfPath' = e.to
        /\ Cardinality(Moves') = IF e.ok THEN Cardinality(Moves) + 1 ELSE Cardinality(Moves)
    BY <2>1, <2>2, <2>3, PathGrows DEF IInv
  <2>. QED
    BY <2>1, <2>2, <2>3, <2>4
<1>7. RunningIsActive'
  BY <1>1 DEF RunningIsActive
<1>. QED
  BY <1>3, <1>5, <1>6, <1>7 DEF IInv

LEMMA MovedIs ==
  ASSUME IInv, NEW r \in Runs, NEW t \in States, Moved(r, t)
  PROVE  StepOf(r)
<1> DEFINE st == [status EXCEPT !.state = t, !.count = @ + 1]
           e == [from |-> cur[r], to |-> t, ok |-> TRUE]
<1>1. TypeOK /\ status \in Status /\ cur[r] \in States /\ Active(r)
  BY DEF IInv, TypeOK, Moved
<1>2. st \in Status /\ st.count = status.count + 1 /\ e \in Event
  <2>1. status.count + 1 \in Nat
    BY <1>1 DEF Status
  <2>2. /\ DOMAIN st = {"state", "running", "terminated", "count", "failed"}
        /\ st.state = t /\ st.count = status.count + 1
    BY <1>1 DEF Status
  <2>3. st \in Status
    BY <2>1, <2>2, <1>1 DEF Status
  <2>. QED
    BY <2>2, <2>3, <1>1 DEF Event
<1>3. /\ events' = Append(events, e) /\ <<cur[r], t>> \in Rules
      /\ UNCHANGED <<config, history>>
  BY DEF Moved, Log
<1>4. /\ Own(r) /\ status' \in Status
      /\ status'.running => pc'[r] \in {"running", "escaped"}
      /\ Active(r)' => cur'[r] = t /\ status' = st
  <2>1. CASE Turn(r, t, cur[r], st)
    BY <2>1, <1>1, <1>2, TurnIs DEF Active
  <2>2. CASE End(r, "escaped") /\ status' \in {status, st}
    BY <2>2, <1>1, <1>2, EndIs DEF Active
  <2>. QED
    BY <2>1, <2>2 DEF Moved
<1>5. /\ e.from = cur[r] /\ e.to = t /\ e.ok
  OBVIOUS
<1>. HIDE DEF e, st
<1>. QED
  BY <1>1, <1>2, <1>3, <1>4, <1>5 DEF StepOf

LEMMA HandlerErrorIs ==
  ASSUME IInv, NEW r \in Runs, HandlerError(r)
  PROVE  StepOf(r)
<1> DEFINE st == [status EXCEPT !.failed = TRUE]
           back == [st EXCEPT !.state = prev[r]]
           e == [from |-> cur[r], to |-> cur[r], ok |-> FALSE]
<1>1. TypeOK /\ status \in Status /\ cur[r] \in States /\ prev[r] \in States \cup {NoState} /\ Active(r)
  BY DEF IInv, TypeOK, HandlerError
<1>2. e \in Event /\ st \in Status /\ st.count = status.count
  BY <1>1 DEF Status, Event
<1>3. prev[r] # NoState => back \in Status /\ back.count = status.count
  BY <1>1 DEF Status
<1>4. events' = Append(events, e) /\ UNCHANGED <<config, history>>
  BY DEF HandlerError, Log
<1>5. /\ Own(r) /\ status' \in Status
      /\ status'.running => pc'[r] \in {"running", "escaped"}
      /\ Active(r)' => cur'[r] = cur[r] /\ status'.count = status.count
  <2>1. CASE Turn(r, cur[r], prev[r], st)
    BY <2>1, <1>1, <1>2, TurnIs DEF Active
  <2>2. CASE prev[r] # NoState /\ Turn(r, cur[r], prev[r], back)
    BY <2>2, <1>1, <1>3, TurnIs DEF Active
  <2>3. CASE End(r, "returned") /\ status' = Settled(st)
    BY <2>3, <1>1, <1>2, EndIs, SettledIs DEF Active
  <2>. QED
    BY <2>1, <2>2, <2>3 DEF HandlerError
<1>6. /\ e.from = cur[r] /\ e.to = cur[r] /\ ~e.ok
  OBVIOUS
<1>. HIDE DEF e, st, back
<1>. QED
  BY <1>1, <1>2, <1>4, <1>5, <1>6 DEF StepOf

LEMMA EscapeIs ==
  ASSUME IInv, NEW r \in Runs, Escape(r)
  PROVE  StepOf(r)
<1>1. TypeOK /\ status \in Status
  BY DEF IInv, TypeOK
<1>. QED
  BY <1>1, EndIs DEF Escape, StepOf, Active

LEMMA RefusedIs ==
  ASSUME IInv, NEW r \in Runs, NEW t \in States, Refused(r, t)
  PROVE  StepOf(r)
<1>1. TypeOK /\ status \in Status
  BY DEF IInv, TypeOK
<1>2. Own(r) /\ pc'[r] \in {"raised", "returned"} /\ status' \in Status /\ ~status'.running
  <2>1. CASE End(r, "raised") /\ status' = Settled(status)
    BY <2>1, <1>1, EndIs, SettledIs
  <2>2. CASE End(r, "returned") /\ status' = [Settled(status) EXCEPT !.failed = TRUE]
    <3>1. status' \in Status /\ ~status'.running
      BY <2>2, <1>1 DEF Settled, Status
    <3>. QED
      BY <2>2, <3>1, <1>1, EndIs
  <2>. QED
    BY <2>1, <2>2 DEF Refused
<1>. QED
  BY <1>2 DEF Refused, StepOf, Active

LEMMA ResetKeeps ==
  ASSUME IInv, Reset
  PROVE  IInv'
<1>1. /\ status' = Fresh(Initial) /\ events' = <<>>
      /\ UNCHANGED <<config, pc, cur, prev, iter, mixed>>
  BY DEF Reset
<1>2. Fresh(Initial) \in Status /\ ~Fresh(Initial).running /\ Fresh(Initial).count = 0
  BY ConstantsOK DEF Fresh, Status
<1>3. origin' \in States /\ \A r \in Runs : Active(r) /\ ~mixed => origin' = cur[r]
  BY DEF Reset, IInv, TypeOK, OneRun
<1>4. TypeOK'
  BY <1>1, <1>2, <1>3, EmptySeq DEF IInv, TypeOK, config
<1>5. OneRun'
  BY <1>1 DEF IInv, OneRun, Active
<1>6. LogIsPath'
  <2>1. Cardinality(Moves') = 0 /\ IsPath' /\ EndOfPath' = origin'
    BY <1>1, FS_EmptySet DEF Moves, IsPath, EndOfPath
  <2>. QED
    BY <2>1, <1>1, <1>2, <1>3 DEF LogIsPath, Active
<1>7. RunningIsActive'
  BY <1>1, <1>2 DEF RunningIsActive
<1>. QED
  BY <1>4, <1>5, <1>6, <1>7 DEF IInv

LEMMA StepIInv == IInv /\ [Next]_vars => IInv'
<1> SUFFICES ASSUME IInv, [Next]_vars PROVE IInv'
  OBVIOUS
<1>1. ASSUME NEW r \in Runs, NEW s \in States, Begin(r, s) PROVE IInv'
  BY <1>1, BeginKeeps
<1>2. ASSUME NEW r \in Runs, Outcome(r) \/ Escape(r) PROVE IInv'
  <2>1. StepOf(r)
    BY <1>2, MovedIs, HandlerErrorIs, EscapeIs, RefusedIs DEF Outcome
  <2>. QED
    BY <2>1, StepOfKeeps
<1>3. CASE Reset
  BY <1>3, ResetKeeps
<1>4. CASE UNCHANGED vars
  BY <1>4 DEF vars, config, history, IInv, TypeOK, OneRun, LogIsPath, RunningIsActive,
              Active, IsPath, EndOfPath, Moves
<1>. QED
  BY <1>1, <1>2, <1>3, <1>4 DEF Next

LEMMA Invariant == Spec => []IInv
  BY InitIInv, StepIInv, PTL DEF Spec

-----------------------------------------------------------------------------
\* Every value is of its type in every reachable state; in particular no run
\* takes more turns than max_iterations, whatever fails in them.
THEOREM TypeCorrect == Spec => []TypeOK
<1>1. IInv => TypeOK
  BY DEF IInv
<1>. QED
  BY <1>1, Invariant, PTL

\* The log of a run that no other overlaps is a path along the rules from where
\* the run, or the reset under way, began to where the machine is, and the
\* status counts its transitions, through every error strategy.
THEOREM PathLogged == Spec => []LogIsPath
<1>1. IInv => LogIsPath
  BY DEF IInv
<1>. QED
  BY <1>1, Invariant, PTL

\* is_running outlives the runs only when one of them was left by an exception.
THEOREM RunningMeansActive == Spec => []RunningIsActive
<1>1. IInv => RunningIsActive
  BY DEF IInv
<1>. QED
  BY <1>1, Invariant, PTL
=============================================================================
