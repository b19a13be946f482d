------------------------------ MODULE MemoryBus ------------------------------
(***************************************************************************)
(* One event type of the in-process event bus (MemoryBusAdapter): a        *)
(* bounded asyncio.Queue, the subscriptions, the consumer tasks that empty *)
(* the queue and the handler tasks they spawn.  Event types share only the *)
(* dict of subscriptions, which every use filters by type.                 *)
(*                                                                         *)
(* The code between two awaits is one action.  The lock is never held      *)
(* across an await, so taking it never waits and is not modelled.          *)
(***************************************************************************)
EXTENDS Naturals, Sequences, SequencesExt, FiniteSets

CONSTANTS
  Events,    \* event ids, each published once
  Subs,      \* subscription ids (uuid4, never drawn twice)
  MaxQueue   \* max_queue_size

ConstantsOK == MaxQueue \in Nat \ {0}

VARIABLES
  queue,      \* _queues[event_type]
  blocked,    \* events whose publish() awaits a free slot
  subs,       \* _subscriptions, in the dict's order
  consumers,  \* number of _consume tasks: one per subscribe() call, for ever
  ready,      \* handler tasks created and not yet run, in the loop's order
  running,    \* handler tasks suspended in their handler
  accepted,   \* history: the events put in the queue, in order
  started,    \* history: per subscription, the events its handler got, in order
  used        \* history: the ids drawn so far (events and subscriptions)

tasks   == <<ready, running, started>>
vars    == <<queue, blocked, subs, consumers, ready, running, accepted, started, used>>

Tasks == Subs \X Events

TypeOK ==
  /\ queue \in Seq(Events)
  /\ blocked \subseteq Events
  /\ subs \in Seq(Subs)
  /\ consumers \in Nat
  /\ ready \in Seq(Tasks)
  /\ running \subseteq Tasks
  /\ accepted \in Seq(Events)
  /\ started \in [Subs -> Seq(Events)]
  /\ used \subseteq Events \cup Subs

Init ==
  /\ queue = <<>>
  /\ blocked = {}
  /\ subs = <<>>
  /\ consumers = 0
  /\ ready = <<>>
  /\ running = {}
  /\ accepted = <<>>
  /\ started = [s \in Subs |-> <<>>]
  /\ used = {}

-----------------------------------------------------------------------------
Full == Len(queue) >= MaxQueue

Enqueue(e) ==
  /\ queue' = Append(queue, e)
  /\ accepted' = Append(accepted, e)

\* publish() with room in the queue: put() does not wait, even when others do.
Publish(e) ==
  /\ e \notin used
  /\ ~Full
  /\ Enqueue(e)
  /\ used' = used \cup {e}
  /\ UNCHANGED <<blocked, subs, consumers, tasks>>

\* publish() into a full queue awaits a slot,
PublishWaits(e) ==
  /\ e \notin used
  /\ Full
  /\ blocked' = blocked \cup {e}
  /\ used' = used \cup {e}
  /\ UNCHANGED <<queue, subs, consumers, tasks, accepted>>

\* Mutant of Put: a woken publisher does not look again.
PutBlindly(e) ==
  /\ e \in blocked
  /\ Enqueue(e)
  /\ blocked' = blocked \ {e}
  /\ UNCHANGED <<subs, consumers, tasks, used>>

\* takes one when it is woken and finds one,
Put(e) ==
  /\ e \in blocked
  /\ ~Full
  /\ Enqueue(e)
  /\ blocked' = blocked \ {e}
  /\ UNCHANGED <<subs, consumers, tasks, used>>

\* or is cancelled by its caller.
CancelPublish(e) ==
  /\ e \in blocked
  /\ blocked' = blocked \ {e}
  /\ UNCHANGED <<queue, subs, consumers, tasks, accepted, used>>

\* subscribe(): every call starts one more consumer.
Subscribe(s) ==
  /\ s \notin used
  /\ subs' = Append(subs, s)
  /\ consumers' = consumers + 1
  /\ used' = used \cup {s}
  /\ UNCHANGED <<queue, blocked, tasks, accepted>>

\* Mutants of Unsubscribe: one consumer stops with it; all of them do.
UnsubscribeStopsOne(s) ==
  /\ s \in ToSet(subs)
  /\ subs' = RemoveFirst(subs, s)
  /\ consumers' = consumers - 1
  /\ UNCHANGED <<queue, blocked, tasks, accepted, used>>

UnsubscribeStopsAll(s) ==
  /\ s \in ToSet(subs)
  /\ subs' = RemoveFirst(subs, s)
  /\ consumers' = 0
  /\ UNCHANGED <<queue, blocked, tasks, accepted, used>>

\* unsubscribe(): the consumers and the tasks already created go on.
Unsubscribe(s) ==
  /\ s \in ToSet(subs)
  /\ subs' = RemoveFirst(subs, s)
  /\ UNCHANGED <<queue, blocked, consumers, tasks, accepted, used>>

\* One turn of any consumer: get() and _dispatch_handlers, which creates one
\* task per subscription of the moment.  With none, the event is dropped.
Consume ==
  /\ consumers > 0
  /\ queue # <<>>
  /\ queue' = Tail(queue)
  /\ ready' = ready \o [i \in DOMAIN subs |-> <<subs[i], Head(queue)>>]
  /\ UNCHANGED <<blocked, subs, consumers, running, accepted, started, used>>

\* The event loop runs the oldest new task: its handler is called.
StartHandler ==
  /\ ready # <<>>
  /\ LET t == Head(ready) IN
       /\ running' = running \cup {t}
       /\ started' = [started EXCEPT ![t[1]] = Append(@, t[2])]
  /\ ready' = Tail(ready)
  /\ UNCHANGED <<queue, blocked, subs, consumers, accepted, used>>

\* The handler returns, raises or times out: _run_handler swallows all three.
EndHandler(t) ==
  /\ t \in running
  /\ running' = running \ {t}
  /\ UNCHANGED <<queue, blocked, subs, consumers, ready, started, accepted, used>>

Next ==
  \/ \E e \in Events : Publish(e) \/ PublishWaits(e) \/ Put(e) \/ CancelPublish(e)
  \/ \E s \in Subs : Subscribe(s) \/ Unsubscribe(s)
  \/ Consume
  \/ StartHandler
  \/ \E t \in Tasks : EndHandler(t)

Spec == Init /\ [][Next]_vars

\* The event loop runs every task that is not waiting.  A publisher woken by
\* a free slot may find it taken again, so it needs strong fairness; a handler
\* may take as long as it likes up to its timeout.
Fairness ==
  /\ WF_vars(Consume)
  /\ WF_vars(StartHandler)
  /\ \A e \in Events : SF_vars(Put(e))
  /\ \A t \in Tasks : WF_vars(EndHandler(t))

FairSpec == Spec /\ Fairness

-----------------------------------------------------------------------------
(* Properties. *)

IsSubsequence(s, t) ==
  \E f \in [DOMAIN s -> DOMAIN t] :
    /\ \A i \in DOMAIN s : s[i] = t[f[i]]
    /\ \A i, k \in DOMAIN s : i < k => f[i] < f[k]

\* However many consumers compete for the queue and however late the loop runs
\* the tasks, a handler is called in the order the events entered the queue,
\* at most once per event; and competing publishers, woken ones included,
\* never overfill the queue, which holds what was accepted last.
InOrderOnce ==
  /\ \A s \in Subs : IsSubsequence(started[s], accepted)
  /\ Len(queue) <= MaxQueue
  /\ IsSuffix(queue, accepted)

\* A subscription that stays gets every event queued while it is there.
Delivered(s, e) == e \in ToSet(started[s])

QueuedIsDelivered ==
  \A s \in Subs, e \in Events :
    s \in ToSet(subs) /\ e \in ToSet(queue) ~> Delivered(s, e) \/ s \notin ToSet(subs)

\* Once somebody subscribed, no publisher blocks for ever: handlers run in
\* tasks of their own, so even a handler that publishes cannot stop the
\* consumers, and consumers outlive the subscriptions.
SubscribedPublishReturns ==
  \A e \in Events : consumers > 0 /\ e \in blocked ~> e \notin blocked
=============================================================================
