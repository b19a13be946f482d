--------------------------- MODULE CircuitBreaker ---------------------------
(***************************************************************************)
(* The per-host circuit breaker of ResilientHTTPAdapter, driven by         *)
(* concurrent request() coroutines.  The circuit is consulted once, when a *)
(* request enters; its result is recorded once, when it returns.  In       *)
(* between it awaits the network and the backoff sleeps, so other requests *)
(* to the same host come and go, and a caller may cancel it.               *)
(***************************************************************************)
EXTENDS Naturals, TLAPS

CONSTANTS
  Hosts,
  Requests,         \* request() coroutines, reused after they return
  Threshold,        \* _CIRCUIT_THRESHOLD
  RecoveryTimeout,  \* _RECOVERY_TIMEOUT, in ticks
  MaxRetries        \* RetryPolicy.max_retries

ConstantsOK ==
  /\ Hosts # {}
  /\ Threshold \in Nat \ {0}
  /\ RecoveryTimeout \in Nat \ {0}
  /\ MaxRetries \in Nat

VARIABLES
  circuit,   \* _circuits
  failures,  \* _failure_counts
  since,     \* monotonic() - _last_failure_time, capped at RecoveryTimeout
  session,   \* _session: "none", "open", or "closing" while stop() awaits
  pc,        \* where each request is
  host,      \* whom it talks to
  attempt,   \* its loop index
  openFor    \* history: ticks since the circuit last opened, same cap

breaker == <<circuit, failures, since, openFor>>
request == <<pc, host, attempt>>
vars    == <<circuit, failures, since, openFor, session, pc, host, attempt>>

CircuitState == {"CLOSED", "OPEN", "HALF_OPEN"}

\* Status codes by what request() does with them: 2xx; 3xx and 4xx but 429;
\* 5xx that is not retried; and 429, 502, 503, 504 or 0 (timeout, exception).
Results == {"ok", "client", "server", "retryable"}

TypeOK ==
  /\ circuit \in [Hosts -> CircuitState]
  /\ failures \in [Hosts -> Nat]
  /\ since \in [Hosts -> 0..RecoveryTimeout]
  /\ openFor \in [Hosts -> 0..RecoveryTimeout]
  /\ session \in {"none", "open", "closing"}
  /\ pc \in [Requests -> {"idle", "sending", "backoff"}]
  /\ host \in [Requests -> Hosts]
  /\ attempt \in [Requests -> 0..MaxRetries]

\* A request that never ran has no host: any will do.
AnyHost == CHOOSE h \in Hosts : TRUE

Init ==
  /\ circuit = [h \in Hosts |-> "CLOSED"]
  /\ failures = [h \in Hosts |-> 0]
  /\ since = [h \in Hosts |-> RecoveryTimeout]
  /\ openFor = [h \in Hosts |-> RecoveryTimeout]
  /\ session = "none"
  /\ pc = [r \in Requests |-> "idle"]
  /\ host = [r \in Requests |-> AnyHost]
  /\ attempt = [r \in Requests |-> 0]

-----------------------------------------------------------------------------
\* Mutant of MayAttempt: while a probe is out, nobody else gets in.
MayProbeOnce(h) ==
  \/ circuit[h] = "CLOSED"
  \/ circuit[h] = "OPEN" /\ since[h] >= RecoveryTimeout

\* _should_attempt
MayAttempt(h) == circuit[h] # "OPEN" \/ since[h] >= RecoveryTimeout

\* The history of openings.
Observe ==
  openFor' = [h \in Hosts |->
                IF circuit[h] # "OPEN" /\ circuit'[h] = "OPEN" THEN 0 ELSE openFor[h]]

\* request() up to the first await.  A refused request returns 503 and
\* changes nothing.
Enter(r, h) ==
  /\ pc[r] = "idle"
  /\ MayAttempt(h)
  /\ circuit' = [circuit EXCEPT ![h] = IF @ = "OPEN" THEN "HALF_OPEN" ELSE @]
  /\ pc' = [pc EXCEPT ![r] = "sending"]
  /\ host' = [host EXCEPT ![r] = h]
  /\ attempt' = [attempt EXCEPT ![r] = 0]
  /\ Observe
  /\ UNCHANGED <<failures, since, session>>

Trip(h) ==
  /\ circuit' = [circuit EXCEPT ![h] = "OPEN"]
  /\ since' = [since EXCEPT ![h] = 0]

\* Mutants of RecordSuccess: the count survives a successful probe; any success
\* closes the circuit.
RecordSuccessKeepsCount(h) ==
  /\ circuit' = [circuit EXCEPT ![h] = IF @ = "HALF_OPEN" THEN "CLOSED" ELSE @]
  /\ failures' = [failures EXCEPT ![h] = IF circuit[h] = "CLOSED" THEN 0 ELSE @]
  /\ UNCHANGED since

RecordSuccessCloses(h) ==
  /\ circuit' = [circuit EXCEPT ![h] = "CLOSED"]
  /\ failures' = [failures EXCEPT ![h] = 0]
  /\ UNCHANGED since

\* _record_result: a result that arrives while OPEN is ignored.
RecordSuccess(h) ==
  /\ circuit' = [circuit EXCEPT ![h] = IF @ = "HALF_OPEN" THEN "CLOSED" ELSE @]
  /\ failures' = [failures EXCEPT ![h] = IF circuit[h] = "OPEN" THEN @ ELSE 0]
  /\ UNCHANGED since

RecordFailure(h) ==
  \/ /\ circuit[h] = "CLOSED"
     /\ failures' = [failures EXCEPT ![h] = @ + 1]
     /\ IF failures[h] + 1 >= Threshold
        THEN Trip(h)
        ELSE UNCHANGED <<circuit, since>>
  \/ /\ circuit[h] = "HALF_OPEN"
     /\ Trip(h)
     /\ UNCHANGED failures
  \/ /\ circuit[h] = "OPEN"
     /\ UNCHANGED <<circuit, failures, since>>

Return(r) ==
  /\ pc' = [pc EXCEPT ![r] = "idle"]
  /\ UNCHANGED <<host, attempt>>

\* _execute_request's response.  Without an open session there is none:
\* the exception becomes status 0.
Response(r, res) ==
  /\ pc[r] = "sending"
  /\ session = "open" \/ res = "retryable"
  /\ UNCHANGED session

\* Mutant of LastAttempt: off by one.
PastLastAttempt(r) == attempt[r] > MaxRetries

LastAttempt(r) == attempt[r] = MaxRetries

Succeed(r) ==
  /\ Response(r, "ok")
  /\ RecordSuccess(host[r])
  /\ Observe
  /\ Return(r)

\* Not retried, or no attempts left: only a 2xx counts as a success.
Fail(r, res) ==
  /\ res # "ok"
  /\ Response(r, res)
  /\ res = "retryable" => LastAttempt(r)
  /\ RecordFailure(host[r])
  /\ Observe
  /\ Return(r)

\* A retryable result with attempts left is not recorded.
Retry(r) ==
  /\ Response(r, "retryable")
  /\ ~LastAttempt(r)
  /\ pc' = [pc EXCEPT ![r] = "backoff"]
  /\ attempt' = [attempt EXCEPT ![r] = @ + 1]
  /\ UNCHANGED <<breaker, host>>

\* The backoff sleep ends and the next attempt is sent.
Resend(r) ==
  /\ pc[r] = "backoff"
  /\ pc' = [pc EXCEPT ![r] = "sending"]
  /\ UNCHANGED <<breaker, session, host, attempt>>

\* The caller cancels the coroutine at an await: CancelledError is no
\* Exception, so nothing is recorded.
Cancel(r) ==
  /\ pc[r] # "idle"
  /\ Return(r)
  /\ UNCHANGED <<breaker, session>>

Start ==
  /\ session = "none"
  /\ session' = "open"
  /\ UNCHANGED <<breaker, request>>

Stop ==
  /\ session = "open"
  /\ session' = "closing"
  /\ UNCHANGED <<breaker, request>>

Stopped ==
  /\ session = "closing"
  /\ session' = "none"
  /\ UNCHANGED <<breaker, request>>

\* A tick of the monotonic clock.
Later(n) == IF n < RecoveryTimeout THEN n + 1 ELSE n

Tick ==
  /\ since' = [h \in Hosts |-> Later(since[h])]
  /\ openFor' = [h \in Hosts |-> Later(openFor[h])]
  /\ UNCHANGED <<circuit, failures, session, request>>

Step(r) ==
  \/ \E h \in Hosts : Enter(r, h)
  \/ Succeed(r)
  \/ \E res \in Results : Fail(r, res)
  \/ Retry(r)
  \/ Resend(r)
  \/ Cancel(r)

Next ==
  \/ \E r \in Requests : Step(r)
  \/ Start \/ Stop \/ Stopped
  \/ Tick

Spec == Init /\ [][Next]_vars

\* The clock runs, sleeps end, every attempt ends (aiohttp's total timeout
\* bounds it), and there is always another request for each host.
Fairness ==
  /\ WF_vars(Tick)
  /\ \A h \in Hosts : WF_vars(\E r \in Requests : Enter(r, h))
  /\ \A r \in Requests :
       /\ WF_vars(Resend(r))
       /\ WF_vars(Succeed(r) \/ Retry(r) \/ \E res \in Results : Fail(r, res))

FairSpec == Spec /\ Fairness

-----------------------------------------------------------------------------
(* Properties. *)

\* The circuit is CLOSED exactly while fewer than Threshold failures are
\* counted, whatever late results of overlapping requests arrive in OPEN or
\* HALF_OPEN; in particular a circuit that closes again starts from zero.
CountMatchesState ==
  \A h \in Hosts :
    IF circuit[h] = "CLOSED" THEN failures[h] < Threshold ELSE failures[h] = Threshold

\* The cool-down runs from the moment the circuit opened: results that arrive
\* late neither shorten nor prolong it, and a failed probe restarts it.
CooldownFromOpening == \A h \in Hosts : circuit[h] = "OPEN" => since[h] = openFor[h]

\* While OPEN, only the end of the cool-down ends it, and then into HALF_OPEN:
\* no late success closes the circuit.
OpenCoolsDown ==
  [][\A h \in Hosts : circuit[h] = "OPEN" /\ circuit'[h] # "OPEN" =>
       circuit'[h] = "HALF_OPEN" /\ openFor[h] = RecoveryTimeout]_vars

\* No mix of stragglers, cancelled probes and restarts wedges a circuit: once
\* requests stop failing and being cancelled, it closes for good.
Recovers ==
  <>[][\A r \in Requests : ~Cancel(r) /\ \A res \in Results : ~Fail(r, res)]_vars
    => \A h \in Hosts : <>[](circuit[h] = "CLOSED")

-----------------------------------------------------------------------------
(* Proofs, for any hosts, number of overlapping requests, threshold,       *)
(* recovery timeout and retry budget.                                      *)

IInv == TypeOK /\ CountMatchesState /\ CooldownFromOpening

LEMMA InitIInv == ASSUME ConstantsOK PROVE Init => IInv
<1> SUFFICES ASSUME Init PROVE IInv
  OBVIOUS
<1>1. AnyHost \in Hosts
  BY DEF ConstantsOK, AnyHost
<1>2. TypeOK
  <2>1. host \in [Requests -> Hosts]
    BY <1>1 DEF Init
  <2>. QED
    BY <2>1 DEF ConstantsOK, Init, TypeOK, CircuitState
<1>3. CountMatchesState
  <2>1. 0 < Threshold
    BY DEF ConstantsOK
  <2>2. ASSUME NEW h \in Hosts PROVE circuit[h] = "CLOSED" /\ failures[h] = 0
    BY DEF Init
  <2>. QED
    BY <2>1, <2>2 DEF CountMatchesState
<1>4. CooldownFromOpening
  BY DEF Init, CooldownFromOpening
<1>. QED
  BY <1>2, <1>3, <1>4 DEF IInv

\* The part of IInv that is about the circuits, for a step that changes only
\* host h's and observes it.
LEMMA RecordKeeps ==
  ASSUME ConstantsOK, IInv, NEW h \in Hosts, Observe, RecordSuccess(h) \/ RecordFailure(h)
  PROVE  /\ circuit' \in [Hosts -> CircuitState]
         /\ failures' \in [Hosts -> Nat]
         /\ since' \in [Hosts -> 0..RecoveryTimeout]
         /\ openFor' \in [Hosts -> 0..RecoveryTimeout]
         /\ CountMatchesState'
         /\ CooldownFromOpening'
<1> USE DEF ConstantsOK, IInv, TypeOK, CircuitState
<1>1. CASE RecordSuccess(h)
  BY <1>1 DEF RecordSuccess, Observe, CountMatchesState, CooldownFromOpening
<1>2. CASE RecordFailure(h)
  <2>1. CASE circuit[h] = "OPEN" /\ UNCHANGED <<circuit, failures, since>>
    BY <2>1 DEF Observe, CountMatchesState, CooldownFromOpening
  <2>2. CASE circuit[h] = "HALF_OPEN" /\ Trip(h) /\ UNCHANGED failures
    BY <2>2 DEF Trip, Observe, CountMatchesState, CooldownFromOpening
  <2>3. CASE /\ circuit[h] = "CLOSED"
             /\ failures' = [failures EXCEPT ![h] = @ + 1]
             /\ failures[h] + 1 >= Threshold
             /\ Trip(h)
    BY <2>3 DEF Trip, Observe, CountMatchesState, CooldownFromOpening
  <2>4. CASE /\ circuit[h] = "CLOSED"
             /\ failures' = [failures EXCEPT ![h] = @ + 1]
             /\ ~(failures[h] + 1 >= Threshold)
             /\ UNCHANGED <<circuit, since>>
    BY <2>4 DEF Observe, CountMatchesState, CooldownFromOpening
  <2>. QED
    BY <1>2, <2>1, <2>2, <2>3, <2>4 DEF RecordFailure
<1>. QED
  BY <1>1, <1>2

LEMMA NextIInv == ASSUME ConstantsOK PROVE IInv /\ [Next]_vars => IInv'
<1> SUFFICES ASSUME IInv, [Next]_vars PROVE IInv'
  OBVIOUS
<1> USE DEF ConstantsOK
<1>1. ASSUME NEW r \in Requests, NEW h \in Hosts, Enter(r, h)
      PROVE  IInv'
  BY <1>1 DEF Enter, Observe, IInv, TypeOK, CircuitState, CountMatchesState, CooldownFromOpening
<1>2. ASSUME NEW r \in Requests, Succeed(r) \/ \E res \in Results : Fail(r, res)
      PROVE  IInv'
  <2>1. host[r] \in Hosts
    BY DEF IInv, TypeOK
  <2>2. Observe /\ (RecordSuccess(host[r]) \/ RecordFailure(host[r]))
    BY <1>2 DEF Succeed, Fail
  <2>3. Return(r) /\ session' = session
    BY <1>2 DEF Succeed, Fail, Response
  <2>4. TypeOK'
    BY <2>1, <2>2, <2>3, RecordKeeps DEF IInv, TypeOK, Return
  <2>. QED
    BY <2>1, <2>2, <2>4, RecordKeeps DEF IInv
<1>3. ASSUME NEW r \in Requests, Retry(r) \/ Resend(r) \/ Cancel(r)
      PROVE  IInv'
  <2>1. UNCHANGED breaker
    BY <1>3 DEF Retry, Resend, Cancel
  <2>2. session' = session
    BY <1>3 DEF Retry, Resend, Cancel, Response
  <2>3. /\ pc' \in [Requests -> {"idle", "sending", "backoff"}]
        /\ host' = host
        /\ attempt' \in [Requests -> 0..MaxRetries]
    BY <1>3 DEF Retry, Resend, Cancel, Return, LastAttempt, IInv, TypeOK
  <2>. QED
    BY <2>1, <2>2, <2>3 DEF breaker, IInv, TypeOK, CountMatchesState, CooldownFromOpening
<1>4. CASE Start \/ Stop \/ Stopped
  BY <1>4 DEF Start, Stop, Stopped, breaker, request, IInv, TypeOK, CountMatchesState,
              CooldownFromOpening
<1>5. CASE Tick
  BY <1>5 DEF Tick, Later, request, IInv, TypeOK, CountMatchesState, CooldownFromOpening
<1>6. CASE UNCHANGED vars
  BY <1>6 DEF vars, IInv, TypeOK, CountMatchesState, CooldownFromOpening
<1>. QED
  BY <1>1, <1>2, <1>3, <1>4, <1>5, <1>6 DEF Next, Step

LEMMA InductiveInvariant == ASSUME ConstantsOK PROVE Spec => []IInv
  BY InitIInv, NextIInv, PTL DEF Spec

\* The state always has the types of the adapter's fields.
THEOREM TypeCorrect == ASSUME ConstantsOK PROVE Spec => []TypeOK
  BY InductiveInvariant, PTL DEF IInv

\* Overlapping requests and late results never desynchronise the failure count
\* from the circuit's state.
THEOREM CountMatches == ASSUME ConstantsOK PROVE Spec => []CountMatchesState
  BY InductiveInvariant, PTL DEF IInv

\* The cool-down of an OPEN circuit is measured from its opening.
THEOREM Cooldown == ASSUME ConstantsOK PROVE Spec => []CooldownFromOpening
  BY InductiveInvariant, PTL DEF IInv

\* Only the end of the cool-down leads out of OPEN, into HALF_OPEN.
THEOREM OnlyCooldownReopens == ASSUME ConstantsOK PROVE Spec => OpenCoolsDown
<1>1. ASSUME IInv, [Next]_vars
      PROVE  [\A h \in Hosts : circuit[h] = "OPEN" /\ circuit'[h] # "OPEN" =>
                circuit'[h] = "HALF_OPEN" /\ openFor[h] = RecoveryTimeout]_vars
  <2>. SUFFICES ASSUME Next, NEW h \in Hosts, circuit[h] = "OPEN", circuit'[h] # "OPEN"
                PROVE  circuit'[h] = "HALF_OPEN" /\ openFor[h] = RecoveryTimeout
    BY <1>1
  <2>1. ASSUME NEW r \in Requests, NEW k \in Hosts, Enter(r, k)
        PROVE  circuit'[h] = "HALF_OPEN" /\ openFor[h] = RecoveryTimeout
    BY <1>1, <2>1 DEF ConstantsOK, Enter, MayAttempt, IInv, TypeOK, CooldownFromOpening
  <2>2. ASSUME NEW k \in Hosts, RecordSuccess(k) \/ RecordFailure(k)
        PROVE  FALSE
    BY <1>1, <2>2 DEF RecordSuccess, RecordFailure, Trip, IInv, TypeOK, CircuitState
  <2>3. ASSUME NEW r \in Requests, Succeed(r) \/ \E res \in Results : Fail(r, res)
        PROVE  FALSE
    BY <1>1, <2>2, <2>3 DEF Succeed, Fail, IInv, TypeOK
  <2>4. ASSUME UNCHANGED circuit
        PROVE  FALSE
    BY <2>4
  <2>. QED
    BY <2>1, <2>3, <2>4 DEF Next, Step, Retry, Resend, Cancel, Start, Stop, Stopped, Tick, breaker
<1>. QED
  BY <1>1, InductiveInvariant, PTL DEF Spec, OpenCoolsDown
=============================================================================
