-------------------------------- MODULE Health --------------------------------
(***************************************************************************)
(* LifecycleManager.is_system_healthy(): the registered services are asked *)
(* one after the other, each in an await, and their answers are kept in a  *)
(* dict by the service name each answer carries, which the service chooses *)
(* and nothing keeps apart from the others' names.  The services' health() *)
(* is external; their condition may change at any time.                    *)
(***************************************************************************)
EXTENDS Naturals

CONSTANTS
  N,        \* registered services, 1..N in registration order
  Names,    \* the names services report
  Unknown   \* the name given to a service whose health() raised

Services == 1..N
Keys == Names \cup {Unknown}
Conditions == {"healthy", "degraded", "unhealthy", "raises"}

VARIABLES
  name,       \* the name each service reports; never changes
  condition,  \* what each service would answer now
  result,     \* health_all()'s dict: the condition per name, "none" if absent
  pos,        \* the services asked so far; N + 1 when the verdict is returned
  verdict,    \* the last verdict
  answered    \* history: what each service answered

vars == <<name, condition, result, pos, verdict, answered>>

TypeOK ==
  /\ name \in [Services -> Names]
  /\ condition \in [Services -> Conditions]
  /\ result \in [Keys -> (Conditions \ {"raises"}) \cup {"none"}]
  /\ pos \in 0..(N + 1)
  /\ verdict \in BOOLEAN
  /\ answered \in [Services -> Conditions \cup {"none"}]

Empty == [n \in Keys |-> "none"]

Init ==
  /\ name \in [Services -> Names]
  /\ condition = [s \in Services |-> "healthy"]
  /\ result = Empty
  /\ pos = N + 1
  /\ verdict = FALSE
  /\ answered = [s \in Services |-> "none"]

\* A call of is_system_healthy.
Call ==
  /\ pos = N + 1
  /\ pos' = 0
  /\ result' = Empty
  /\ answered' = [s \in Services |-> "none"]
  /\ UNCHANGED <<name, condition, verdict>>

\* Mutants of Answer: a service that raises is left out, or entered as it is.
AnswerSkips ==
  /\ pos < N
  /\ LET s == pos + 1 IN
       /\ answered' = [answered EXCEPT ![s] = condition[s]]
       /\ result' = IF condition[s] = "raises" THEN result
                    ELSE [result EXCEPT ![name[s]] = condition[s]]
  /\ pos' = pos + 1
  /\ UNCHANGED <<name, condition, verdict>>

AnswerRaw ==
  /\ pos < N
  /\ LET s == pos + 1 IN
       /\ answered' = [answered EXCEPT ![s] = condition[s]]
       /\ result' = [result EXCEPT ![name[s]] = condition[s]]
  /\ pos' = pos + 1
  /\ UNCHANGED <<name, condition, verdict>>

\* The next service answers, or raises.
Answer ==
  /\ pos < N
  /\ LET s == pos + 1 IN
       /\ answered' = [answered EXCEPT ![s] = condition[s]]
       /\ result' = IF condition[s] = "raises"
                    THEN [result EXCEPT ![Unknown] = "unhealthy"]
                    ELSE [result EXCEPT ![name[s]] = condition[s]]
  /\ pos' = pos + 1
  /\ UNCHANGED <<name, condition, verdict>>

\* The verdict over the dict's values.
Return ==
  /\ pos = N
  /\ verdict' = \A n \in DOMAIN result : result[n] \in {"healthy", "none"}
  /\ pos' = N + 1
  /\ UNCHANGED <<name, condition, result, answered>>

Change ==
  /\ \E s \in Services, c \in Conditions : condition' = [condition EXCEPT ![s] = c]
  /\ UNCHANGED <<name, result, pos, verdict, answered>>

Next == Call \/ Answer \/ Return \/ Change

Spec == Init /\ [][Next]_vars

-----------------------------------------------------------------------------
(* Properties. *)

\* The name a service's answer is entered under, and whether a service asked
\* later in the call gave its answer under the same name.
Key(s) == IF answered[s] = "raises" THEN Unknown ELSE name[s]
Overwritten(s) == \E t \in Services : s < t /\ Key(t) = Key(s)

\* The verdict counts the answers of this call, all but those that another of
\* the same name overwrote: none is left over from an earlier call, none is
\* skipped, and an exception counts against the system.
VerdictCoversKept ==
  [][Return => (verdict' <=>
       \A s \in Services : answered[s] = "healthy" \/ Overwritten(s))]_vars

\* "Return True only if ALL registered services report healthy."
VerdictCoversAll ==
  [][Return => (verdict' => \A s \in Services : answered[s] = "healthy")]_vars
=============================================================================
