------------------------------ MODULE MockHttp ------------------------------
(***************************************************************************)
(* MockHTTPAdapter on one host and one URL: canned responses and a circuit *)
(* of its own, whose recovery is forced by the test and not by a clock.    *)
(* request() awaits nothing, so it is one action.                          *)
(***************************************************************************)
EXTENDS Naturals, Sequences

CONSTANTS
  Threshold,  \* _CIRCUIT_THRESHOLD
  MaxRetries, \* max_retries of the policy
  Scripts     \* response sequences: of "ok", "fatal" and "retryable"

VARIABLES
  circuit,  \* _circuits[host]
  failures, \* _failure_counts[host]
  forced,   \* host in _recovery_forced
  script,   \* the sequence set, or <<>>
  index,    \* _sequence_index
  answer,   \* the last response
  streak    \* history: requests that failed since one last succeeded

vars == <<circuit, failures, forced, script, index, answer, streak>>

Circuits == {"closed", "open", "half_open"}
Statuses == {"ok", "fatal", "retryable"}

TypeOK ==
  /\ circuit \in Circuits
  /\ failures \in 0..(Threshold + 1)
  /\ forced \in BOOLEAN
  /\ script \in Scripts \union {<<>>}
  /\ index \in 0..Len(script)
  /\ answer \in Statuses \union {"none", "timeout", "rejected"}
  /\ streak \in 0..Threshold

Init ==
  /\ circuit = "closed" /\ failures = 0 /\ forced = FALSE
  /\ script = <<>> /\ index = 0
  /\ answer = "none" /\ streak = 0

\* set_response_sequence
SetSequence(s) ==
  /\ script' = s /\ index' = 0
  /\ UNCHANGED <<circuit, failures, forced, answer, streak>>

\* force_recovery: the flag outlives the half-open circuit it comes with.
ForceRecovery ==
  /\ forced' = TRUE /\ circuit' = "half_open"
  /\ UNCHANGED <<failures, script, index, answer, streak>>

\* set_circuit_state leaves the count.  Bound: failures.
SetCircuit(c) ==
  /\ failures <= Threshold
  /\ circuit' = c
  /\ UNCHANGED <<failures, forced, script, index, answer, streak>>

\* _update_circuit, on a circuit that is not open, or open with a recovery forced.
UpdateCircuit(success) ==
  LET recovering == circuit = "open" /\ forced
      current == IF recovering THEN "half_open" ELSE circuit
  IN  /\ forced' = (forced /\ circuit # "open")
      /\ IF success
         THEN circuit' = "closed" /\ failures' = 0
         ELSE /\ failures' = IF current = "closed" THEN failures + 1 ELSE failures
              /\ circuit' = IF current = "closed" /\ failures + 1 < Threshold THEN "closed" ELSE "open"

\* _get_response, n requests after the next: past its end a sequence repeats
\* its last response; without one, the single response set.
Response(n, single) ==
  IF script = <<>> THEN single
  ELSE script[IF index + n < Len(script) THEN index + n + 1 ELSE Len(script)]

\* The attempts a request makes: up to the first that is not retried.
Attempts(single) ==
  CHOOSE n \in 0..MaxRetries :
    /\ n = MaxRetries \/ Response(n, single) # "retryable"
    /\ \A m \in 0..(n - 1) : Response(m, single) = "retryable"

Admitted == circuit # "open" \/ forced

Request(single) ==
  /\ Admitted
  /\ LET n == Attempts(single)
         result == Response(n, single)
     IN  /\ answer' = result
         /\ index' = IF index + n + 1 < Len(script) THEN index + n + 1 ELSE Len(script)
         /\ UpdateCircuit(result = "ok")
         /\ streak' = IF result = "ok" THEN 0 ELSE IF streak < Threshold THEN streak + 1 ELSE streak
  /\ UNCHANGED script

Reject ==
  /\ ~Admitted
  /\ answer' = "rejected"
  /\ UNCHANGED <<circuit, failures, forced, script, index, streak>>

\* A simulated timeout is no failure of the host.
TimeOut ==
  /\ Admitted
  /\ answer' = "timeout"
  /\ UNCHANGED <<circuit, failures, forced, script, index, streak>>

Next ==
  \/ \E c \in Circuits : SetCircuit(c)
  \/ ForceRecovery \/ Reject \/ TimeOut
  \/ \E s \in Scripts : SetSequence(s)
  \/ \E single \in Statuses : Request(single)

Spec == Init /\ [][Next]_vars

-----------------------------------------------------------------------------
(* Properties *)

\* Like the production breaker the double opens a closed circuit after no less
\* than Threshold failures since a request last succeeded, over forced
\* recoveries and retries, which count once.
OpensOnFailures ==
  [][\A single \in Statuses :
       Request(single) /\ circuit = "closed" /\ circuit' = "open" => streak' >= Threshold]_vars
=============================================================================
