----------------------------- MODULE MCCoroutines -----------------------------
(***************************************************************************)
(* Coroutines that overlap, for model checking: the runs of the state      *)
(* machine and the requests of the HTTP adapter, side by side.  A          *)
(* behaviour exercises one of them; the other stays as it is.              *)
(***************************************************************************)
EXTENDS StateMachine

CONSTANTS
  Parts,                                                  \* the components that are exercised
  Hosts, Requests, Threshold, RecoveryTimeout, MaxRetries, \* CircuitBreaker
  a, b, z

\* a and b work, z is final; a cycle, a way out, and pairs without a rule.
Cycle == {<<a, b>>, <<b, a>>, <<b, z>>}

VARIABLES
  part,
  circuit, failures, since, openFor, session, request, host, attempt

CB == INSTANCE CircuitBreaker WITH pc <- request

ASSUME BreakerOK == CB!ConstantsOK

breakerVars == <<circuit, failures, since, openFor, session, request, host, attempt>>

InitCoroutines ==
  /\ part \in Parts
  /\ part = "state machine" \/ (strict = FALSE /\ strategy = CHOOSE s \in Strategies : TRUE)
  /\ Init /\ CB!Init

\* Each run() is called once: the state machine may stop.
NextCoroutines ==
  /\ UNCHANGED part
  /\ \/ part = "state machine" /\ Next /\ UNCHANGED breakerVars
     \/ part = "state machine" /\ UNCHANGED <<vars, breakerVars>>
     \/ part = "circuit breaker" /\ CB!Next /\ UNCHANGED vars

SpecCoroutines == InitCoroutines /\ [][NextCoroutines]_<<part, vars, breakerVars>>

-----------------------------------------------------------------------------
(* Properties: those of the components, stated and explained there; what   *)
(* must eventually happen, under the component's own fairness.             *)

\* The variables of the state machine and of the circuits keep their types.
TypesOK == TypeOK /\ CB!TypeOK

\* ProductionStateMachineAdapter: every run ends, also one that fails for ever.
RunsEnd == part = "state machine" /\ Fairness => RunEnds

\* ResilientHTTPAdapter: a circuit is CLOSED while few failures are counted.
CountMatchesState == CB!CountMatchesState

\* ResilientHTTPAdapter: only the end of the cool-down leads out of OPEN.
OpenCoolsDown == CB!OpenCoolsDown

\* ResilientHTTPAdapter: once requests stop failing, a circuit closes for good.
Recovers == part = "circuit breaker" /\ CB!Fairness => CB!Recovers
=============================================================================
