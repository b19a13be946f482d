------------------------------- MODULE RedisBus -------------------------------
(***************************************************************************)
(* RedisBusAdapter on one channel: publish, subscribe, unsubscribe and the *)
(* listener task each subscription has.  Redis is external: it delivers a  *)
(* message to the connections subscribed at that moment, and a connection  *)
(* may break, which loses what it had not yet handed over.                 *)
(***************************************************************************)
EXTENDS Naturals, Sequences, SequencesExt

CONSTANTS
  Subs,       \* subscriptions
  MaxEvents,  \* bound: events published
  MaxBreaks   \* bound: broken connections

VARIABLES
  sent,      \* events published, 1..sent
  phase,     \* "none", "opening", "live", "closing" or "closed", per subscription
  linked,    \* Redis has the connection subscribed to the channel
  buffer,    \* delivered to the connection, not yet taken
  listener,  \* "none", "poll", "handle", "broken" or "ended"
  calls,     \* history: the events the handler was called with
  since,     \* history: the events published before subscribe() returned
  breaks     \* history: how often the connection broke

vars == <<sent, phase, linked, buffer, listener, calls, since, breaks>>

Events == 1..MaxEvents

TypeOK ==
  /\ sent \in 0..MaxEvents
  /\ phase \in [Subs -> {"none", "opening", "live", "closing", "closed"}]
  /\ linked \in [Subs -> BOOLEAN]
  /\ buffer \in [Subs -> Seq(Events)]
  /\ listener \in [Subs -> {"none", "poll", "handle", "broken", "ended"}]
  /\ calls \in [Subs -> Seq(Events)]
  /\ since \in [Subs -> 0..MaxEvents]
  /\ breaks \in [Subs -> 0..MaxBreaks]

Init ==
  /\ sent = 0
  /\ phase = [s \in Subs |-> "none"]
  /\ linked = [s \in Subs |-> FALSE]
  /\ buffer = [s \in Subs |-> <<>>]
  /\ listener = [s \in Subs |-> "none"]
  /\ calls = [s \in Subs |-> <<>>]
  /\ since = [s \in Subs |-> 0]
  /\ breaks = [s \in Subs |-> 0]

\* publish(): Redis hands the message to every subscribed connection.
Publish ==
  /\ sent < MaxEvents
  /\ sent' = sent + 1
  /\ buffer' = [s \in Subs |-> IF linked[s] THEN Append(buffer[s], sent + 1) ELSE buffer[s]]
  /\ UNCHANGED <<phase, linked, listener, calls, since, breaks>>

\* subscribe() is called and awaits its connection,
Open(s) ==
  /\ phase[s] = "none"
  /\ phase' = [phase EXCEPT ![s] = "opening"]
  /\ UNCHANGED <<sent, linked, buffer, listener, calls, since, breaks>>

\* Redis confirms the channel,
Link(s) ==
  /\ phase[s] = "opening" /\ ~linked[s]
  /\ linked' = [linked EXCEPT ![s] = TRUE]
  /\ UNCHANGED <<sent, phase, buffer, listener, calls, since, breaks>>

\* and the subscription is entered, its listener started, its id returned.
Subscribed(s) ==
  /\ phase[s] = "opening" /\ linked[s]
  /\ phase' = [phase EXCEPT ![s] = "live"]
  /\ listener' = [listener EXCEPT ![s] = "poll"]
  /\ since' = [since EXCEPT ![s] = sent]
  /\ UNCHANGED <<sent, linked, buffer, calls, breaks>>

\* A task that unsubscribe() cancelled only runs to its end.
Runs(s, at) == listener[s] = at /\ phase[s] = "live"

\* The listener gets the next message and calls the handler.
Take(s) ==
  /\ Runs(s, "poll") /\ buffer[s] # <<>>
  /\ calls' = [calls EXCEPT ![s] = Append(@, Head(buffer[s]))]
  /\ buffer' = [buffer EXCEPT ![s] = Tail(@)]
  /\ listener' = [listener EXCEPT ![s] = "handle"]
  /\ UNCHANGED <<sent, phase, linked, since, breaks>>

\* The handler returns, or raises, which is suppressed.
Handled(s) ==
  /\ Runs(s, "handle")
  /\ listener' = [listener EXCEPT ![s] = "poll"]
  /\ UNCHANGED <<sent, phase, linked, buffer, calls, since, breaks>>

\* The connection breaks.
Break(s) ==
  /\ linked[s] /\ phase[s] = "live"
  /\ breaks[s] < MaxBreaks
  /\ breaks' = [breaks EXCEPT ![s] = @ + 1]
  /\ linked' = [linked EXCEPT ![s] = FALSE]
  /\ buffer' = [buffer EXCEPT ![s] = <<>>]
  /\ UNCHANGED <<sent, phase, listener, calls, since>>

\* get_message raises on a broken connection, and so does a message that is
\* no envelope on a sound one: the listener sleeps for a second.
Fail(s) ==
  /\ Runs(s, "poll")
  /\ listener' = [listener EXCEPT ![s] = "broken"]
  /\ UNCHANGED <<sent, phase, linked, buffer, calls, since, breaks>>

\* Mutant of Resubscribe: back to polling without subscribing again.
ResubscribeSkipped(s) ==
  /\ Runs(s, "broken")
  /\ listener' = [listener EXCEPT ![s] = "poll"]
  /\ UNCHANGED <<sent, phase, linked, buffer, calls, since, breaks>>

\* Subscribed again, or the attempt fails, which is suppressed.
Resubscribe(s) ==
  /\ Runs(s, "broken")
  /\ listener' = [listener EXCEPT ![s] = "poll"]
  /\ \E ok \in BOOLEAN : linked' = [linked EXCEPT ![s] = @ \/ ok]
  /\ UNCHANGED <<sent, phase, buffer, calls, since, breaks>>

\* unsubscribe() takes the subscription out and cancels the listener, which
\* ends at its await; a second call finds no subscription and returns.
Unsubscribe(s) ==
  /\ phase[s] = "live"
  /\ phase' = [phase EXCEPT ![s] = "closing"]
  /\ UNCHANGED <<sent, linked, buffer, listener, calls, since, breaks>>

ListenerEnds(s) ==
  /\ phase[s] = "closing" /\ listener[s] # "ended"
  /\ listener' = [listener EXCEPT ![s] = "ended"]
  /\ UNCHANGED <<sent, phase, linked, buffer, calls, since, breaks>>

\* Then the connection is unsubscribed and closed.
Close(s) ==
  /\ phase[s] = "closing" /\ listener[s] = "ended"
  /\ phase' = [phase EXCEPT ![s] = "closed"]
  /\ linked' = [linked EXCEPT ![s] = FALSE]
  /\ buffer' = [buffer EXCEPT ![s] = <<>>]
  /\ UNCHANGED <<sent, listener, calls, since, breaks>>

Next ==
  \/ Publish
  \/ \E s \in Subs :
       \/ Open(s) \/ Link(s) \/ Subscribed(s)
       \/ Take(s) \/ Handled(s) \/ Fail(s) \/ Resubscribe(s)
       \/ Break(s)
       \/ Unsubscribe(s) \/ ListenerEnds(s) \/ Close(s)

\* The loop runs the listeners; get_message on a broken connection raises; an
\* attempt to subscribe that is repeated for ever succeeds once.
Fairness ==
  \A s \in Subs :
    /\ WF_vars(Take(s)) /\ WF_vars(Handled(s)) /\ WF_vars(Resubscribe(s))
    /\ SF_vars(Resubscribe(s) /\ linked'[s])
    /\ WF_vars(~linked[s] /\ Fail(s))

Spec == Init /\ [][Next]_vars /\ Fairness

-----------------------------------------------------------------------------
(* Properties. *)

\* A handler is called in publication order and at most once per event, over
\* broken connections, new subscriptions and malformed messages.
CalledInOrder ==
  \A s \in Subs : \A i, k \in DOMAIN calls[s] : i < k => calls[s][i] < calls[s][k]

\* While its connection holds, a subscription misses nothing published after
\* subscribe() returned: it was handed over or waits.
NothingMissed ==
  \A s \in Subs :
    phase[s] = "live" /\ breaks[s] = 0 =>
      \A e \in (since[s] + 1)..sent : e \in ToSet(calls[s] \o buffer[s])

\* A subscription that stays is subscribed again after every break.
Reconnects ==
  \A s \in Subs : phase[s] = "live" ~> linked[s] \/ phase[s] # "live"
=============================================================================
