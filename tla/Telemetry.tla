------------------------------ MODULE Telemetry ------------------------------
(***************************************************************************)
(* What a log record says of the request it was written for: the ambient   *)
(* context of common/context.py, which every task has a copy of, set by    *)
(* the auth adapters and by OTelAdapter's spans, and the span stack of     *)
(* InMemoryObservabilityAdapter, which the tasks share.                    *)
(***************************************************************************)
EXTENDS Naturals, Containers

CONSTANTS
  Tasks,
  Tenants,
  Global,   \* the tenant before any
  MaxSpans  \* bound: spans started

VARIABLES
  otel,     \* the OpenTelemetry adapter; else the in-memory one
  context,  \* per task: tenant, trace and span; 0 for none
  snapshot, \* the last get_context_snapshot
  spans,    \* every span started: its trace, and whether it is open
  stack,    \* _active_span_stack: spans, by number
  active,   \* _active_trace_id; 0 for none
  record    \* the context of the last log record

vars == <<otel, context, snapshot, spans, stack, active, record>>

\* A trace has the number of the span it began with.
Context == [tenant : Tenants \union {Global}, trace : 0..MaxSpans, span : 0..MaxSpans]

TypeOK ==
  /\ otel \in BOOLEAN
  /\ context \in [Tasks -> Context]
  /\ snapshot \in Context /\ record \in Context
  /\ Len(spans) <= MaxSpans
  /\ \A i \in DOMAIN spans : spans[i] \in [trace : 1..MaxSpans, open : BOOLEAN]
  /\ Elements(stack) \subseteq DOMAIN spans
  /\ active \in 0..MaxSpans

Blank == [tenant |-> Global, trace |-> 0, span |-> 0]

Init ==
  /\ otel \in BOOLEAN
  /\ context = [t \in Tasks |-> Blank]
  /\ snapshot = Blank /\ record = Blank
  /\ spans = <<>> /\ stack = <<>> /\ active = 0

-----------------------------------------------------------------------------
\* validate_token: a token without a tenant leaves the one that was there.
Authenticate(t, tenant) ==
  /\ context' = [context EXCEPT ![t].tenant = IF tenant = Global THEN @ ELSE tenant]
  /\ UNCHANGED <<otel, snapshot, spans, stack, active, record>>

\* A task starts with a copy of the context of the one that creates it.
Spawn(t, child) ==
  /\ context' = [context EXCEPT ![child] = context[t]]
  /\ UNCHANGED <<otel, snapshot, spans, stack, active, record>>

\* get_context_snapshot and restore_context_snapshot
TakeSnapshot(t) ==
  /\ snapshot' = context[t]
  /\ UNCHANGED <<otel, context, spans, stack, active, record>>

RestoreSnapshot(t) ==
  /\ context' = [context EXCEPT ![t] = snapshot]
  /\ UNCHANGED <<otel, snapshot, spans, stack, active, record>>

\* Log records, and the error reports that are logged, carry the context.
Log(t) ==
  /\ record' = context[t]
  /\ UNCHANGED <<otel, context, snapshot, spans, stack, active>>

-----------------------------------------------------------------------------
Number == Len(spans) + 1

\* OTelAdapter.start_span makes no span the current one, so that each begins a
\* trace; without a tracer there is a trace id, and no span.
StartSpan(t) ==
  /\ otel /\ Number <= MaxSpans
  /\ \E traced \in BOOLEAN :
       /\ spans' = Append(spans, [trace |-> Number, open |-> traced])
       /\ context' = [context EXCEPT ![t].trace = Number, ![t].span = IF traced THEN Number ELSE @]
  /\ UNCHANGED <<otel, snapshot, stack, active, record>>

\* The span ends; nothing resets the context.
EndSpan(i) ==
  /\ otel /\ spans[i].open
  /\ spans' = [spans EXCEPT ![i].open = FALSE]
  /\ UNCHANGED <<otel, context, snapshot, stack, active, record>>

\* InMemoryObservabilityAdapter.start_span, by any task
Push ==
  /\ ~otel /\ Number <= MaxSpans
  /\ active' = IF active = 0 THEN Number ELSE active
  /\ spans' = Append(spans, [trace |-> active', open |-> TRUE])
  /\ stack' = Append(stack, Number)
  /\ UNCHANGED <<otel, context, snapshot, record>>

\* Mutant of OnSpanClose: the trace ends with any of its spans.
OnSpanCloseEager(i) ==
  /\ ~otel /\ spans[i].open
  /\ spans' = [spans EXCEPT ![i].open = FALSE]
  /\ stack' = IF stack # <<>> /\ Top(stack) = i THEN Popped(stack) ELSE stack
  /\ active' = 0
  /\ UNCHANGED <<otel, context, snapshot, record>>

\* _on_span_close: a span that is not on top, because tasks overlap, stays on
\* the stack for ever, and its trace with it.
OnSpanClose(i) ==
  /\ ~otel /\ spans[i].open
  /\ spans' = [spans EXCEPT ![i].open = FALSE]
  /\ stack' = IF stack # <<>> /\ Top(stack) = i THEN Popped(stack) ELSE stack
  /\ active' = IF stack' = <<>> THEN 0 ELSE active
  /\ UNCHANGED <<otel, context, snapshot, record>>

Clear ==
  /\ ~otel
  /\ stack' = <<>> /\ active' = 0
  /\ UNCHANGED <<otel, context, snapshot, spans, record>>

Next ==
  \/ Push \/ Clear
  \/ \E i \in DOMAIN spans : EndSpan(i) \/ OnSpanClose(i)
  \/ \E t \in Tasks :
       \/ TakeSnapshot(t) \/ RestoreSnapshot(t) \/ Log(t) \/ StartSpan(t)
       \/ \E tenant \in Tenants \union {Global} : Authenticate(t, tenant)
       \/ \E child \in Tasks : Spawn(t, child)

Spec == Init /\ [][Next]_vars

-----------------------------------------------------------------------------
(* Properties *)

\* However tasks overlap, the spans on the in-memory stack are of one trace,
\* the active one: a span that is started belongs with those around it.
StackIsOneTrace ==
  /\ \A i \in Elements(stack) : spans[i].trace = active
  /\ stack # <<>> <=> active # 0
=============================================================================
