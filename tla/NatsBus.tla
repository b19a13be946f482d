------------------------------- MODULE NatsBus -------------------------------
(***************************************************************************)
(* NatsBusAdapter on one event type.  The subscriptions of one subscriber  *)
(* id share a durable consumer, which JetStream, external, keeps: it hands *)
(* out each event until it is acknowledged.  Connection and JetStream      *)
(* context are given to the adapter; it opens none.                        *)
(***************************************************************************)
EXTENDS Naturals, Sequences, FiniteSets

CONSTANTS
  Subs,       \* subscriptions
  Durable,    \* their durable consumers, by subscriber id
  MaxEvents   \* bound: events published

VARIABLES
  sent,     \* events in the stream, 1..sent
  phase,    \* "none", "opening", "live", "closing" or "closed", per subscription
  listener, \* "none", "opening", "poll", "handle", "ack", "asleep" or "ended"
  taken,    \* the event the listener holds, or 0
  durables, \* the durable consumers that exist
  out,      \* events handed out and not acknowledged, per durable
  acked,    \* events acknowledged, per durable
  up,       \* the adapter is started
  handled   \* history: the events a handler of the durable is done with

vars == <<sent, phase, listener, taken, durables, out, acked, up, handled>>

Events == 1..MaxEvents
Durables == {Durable[s] : s \in Subs}

TypeOK ==
  /\ sent \in 0..MaxEvents
  /\ phase \in [Subs -> {"none", "opening", "live", "closing", "closed"}]
  /\ listener \in [Subs -> {"none", "opening", "poll", "handle", "ack", "asleep", "ended"}]
  /\ taken \in [Subs -> {0} \union Events]
  /\ durables \subseteq Durables
  /\ out \in [Durables -> SUBSET Events] /\ acked \in [Durables -> SUBSET Events]
  /\ up \in BOOLEAN
  /\ handled \in [Durables -> SUBSET Events]

Init ==
  /\ sent = 0
  /\ phase = [s \in Subs |-> "none"] /\ listener = [s \in Subs |-> "none"]
  /\ taken = [s \in Subs |-> 0]
  /\ durables = {}
  /\ out = [d \in Durables |-> {}] /\ acked = [d \in Durables |-> {}]
  /\ up = TRUE
  /\ handled = [d \in Durables |-> {}]

jetstream == <<sent, durables, out, acked>>

\* publish(): awaits the stream's acknowledgement.
Publish ==
  /\ up /\ sent < MaxEvents
  /\ sent' = sent + 1
  /\ UNCHANGED <<phase, listener, taken, durables, out, acked, up, handled>>

\* subscribe() adds stream and consumer, which may fail and is suppressed,
Subscribe(s) ==
  /\ up /\ phase[s] = "none"
  /\ phase' = [phase EXCEPT ![s] = "opening"]
  /\ durables' \in {durables, durables \union {Durable[s]}}
  /\ UNCHANGED <<sent, listener, taken, out, acked, up, handled>>

\* enters the subscription and starts its listener.
Subscribed(s) ==
  /\ phase[s] = "opening"
  /\ phase' = [phase EXCEPT ![s] = "live"]
  /\ listener' = [listener EXCEPT ![s] = "opening"]
  /\ UNCHANGED <<jetstream, taken, up, handled>>

\* The listener is not being cancelled.
Runs(s, at) == phase[s] = "live" /\ listener[s] = at

\* pull_subscribe makes a consumer that is missing.
Pull(s) ==
  /\ Runs(s, "opening")
  /\ listener' = [listener EXCEPT ![s] = "poll"]
  /\ durables' = durables \union {Durable[s]}
  /\ UNCHANGED <<sent, phase, taken, out, acked, up, handled>>

\* Any call of JetStream may fail, and one of a consumer that is gone does.
Fail(s) ==
  /\ listener[s] \in {"opening", "poll", "ack"} /\ phase[s] = "live"
  /\ listener' = [listener EXCEPT ![s] = "asleep"]
  /\ taken' = [taken EXCEPT ![s] = 0]
  /\ UNCHANGED <<jetstream, phase, up, handled>>

Wake(s) ==
  /\ Runs(s, "asleep")
  /\ listener' = [listener EXCEPT ![s] = "opening"]
  /\ UNCHANGED <<jetstream, phase, taken, up, handled>>

\* The next event is handed to one listener of the durable.
Take(s) ==
  /\ Runs(s, "poll") /\ Durable[s] \in durables
  /\ \E e \in (1..sent) \ (acked[Durable[s]] \union out[Durable[s]]) :
       /\ out' = [out EXCEPT ![Durable[s]] = @ \union {e}]
       /\ taken' = [taken EXCEPT ![s] = e]
  /\ listener' = [listener EXCEPT ![s] = "handle"]
  /\ UNCHANGED <<sent, phase, durables, acked, up, handled>>

\* What is not acknowledged in time is handed out again.
AckWaitOver(d, e) ==
  /\ e \in out[d]
  /\ out' = [out EXCEPT ![d] = @ \ {e}]
  /\ UNCHANGED <<sent, phase, listener, taken, durables, acked, up, handled>>

\* Mutant of Handled: the event is acknowledged when the handler is called.
HandledAckedFirst(s) ==
  /\ Runs(s, "handle")
  /\ acked' = [acked EXCEPT ![Durable[s]] = @ \union {taken[s]}]
  /\ listener' = [listener EXCEPT ![s] = "ack"]
  /\ UNCHANGED <<sent, phase, taken, durables, out, up, handled>>

\* The handler returns, or raises, which is suppressed,
Handled(s) ==
  /\ Runs(s, "handle")
  /\ handled' = [handled EXCEPT ![Durable[s]] = @ \union {taken[s]}]
  /\ listener' = [listener EXCEPT ![s] = "ack"]
  /\ UNCHANGED <<jetstream, phase, taken, up>>

\* and the event is acknowledged.
Ack(s) ==
  /\ Runs(s, "ack")
  /\ LET d == Durable[s]
     IN  acked' = [acked EXCEPT ![d] = IF d \in durables THEN @ \union {taken[s]} ELSE @]
  /\ listener' = [listener EXCEPT ![s] = "poll"]
  /\ taken' = [taken EXCEPT ![s] = 0]
  /\ UNCHANGED <<sent, phase, durables, out, up, handled>>

\* unsubscribe() takes the subscription out and cancels its listener,
Unsubscribe(s) ==
  /\ phase[s] = "live"
  /\ phase' = [phase EXCEPT ![s] = "closing"]
  /\ UNCHANGED <<jetstream, listener, taken, up, handled>>

\* then deletes the consumer, with what it knows of acknowledgements, from
\* under every other subscription of the subscriber id; it may fail to.
DeleteConsumer(s) ==
  /\ phase[s] = "closing"
  /\ phase' = [phase EXCEPT ![s] = "closed"]
  /\ listener' = [listener EXCEPT ![s] = "ended"]
  /\ taken' = [taken EXCEPT ![s] = 0]
  /\ LET d == Durable[s]
     IN  \/ /\ durables' = durables \ {d}
            /\ acked' = [acked EXCEPT ![d] = {}]
            /\ out' = [out EXCEPT ![d] = {}]
         \/ UNCHANGED <<durables, acked, out>>
  /\ UNCHANGED <<sent, up, handled>>

\* stop() cancels every listener and drains the connection, which may fail; a
\* subscribe() under way goes on and starts a listener on what is left.
\* start() after it neither connects nor restarts a listener.
Stop ==
  /\ up
  /\ up' = FALSE
  /\ listener' = [s \in Subs |-> IF listener[s] = "none" THEN "none" ELSE "ended"]
  /\ taken' = [s \in Subs |-> 0]
  /\ UNCHANGED <<jetstream, phase, handled>>

Next ==
  \/ Publish \/ Stop
  \/ \E s \in Subs :
       \/ Subscribe(s) \/ Subscribed(s) \/ Unsubscribe(s) \/ DeleteConsumer(s)
       \/ Pull(s) \/ Fail(s) \/ Wake(s) \/ Take(s) \/ Handled(s) \/ Ack(s)
  \/ \E d \in Durables, e \in Events : AckWaitOver(d, e)

Spec == Init /\ [][Next]_vars

-----------------------------------------------------------------------------
(* Properties *)

\* An event is acknowledged only when a handler is done with it: an event whose
\* listener was cancelled or failed before that is handed out again.
AckedAreHandled == \A d \in Durables : acked[d] \subseteq handled[d]
=============================================================================
