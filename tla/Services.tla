------------------------------- MODULE Services -------------------------------
(***************************************************************************)
(* Components with processes, callbacks and timers, side by side: a        *)
(* behaviour exercises one of them, the others stay as they are, so that   *)
(* the state spaces add up and do not multiply.  The orchestrator's        *)
(* variables and properties are Bootstrap's own.                           *)
(***************************************************************************)
EXTENDS Bootstrap, Sequences

CONSTANTS
  NServices, ServiceNames, Unknown,                \* Health
  Jobs, Reporters, Listers, NoJob,            \* SaqQueue
  RedisSubs, MaxRedisEvents, MaxBreaks,       \* RedisBus
  NatsSubs, NatsIds, MaxNatsEvents,           \* NatsBus
  Posts, Sockets, Rate,                       \* BusServer
  NRules, Callers, NChannels, Selections, Throttle, MaxTime, \* AlertDispatch
  Threads, NoLock, MaxCalls                   \* RedisCache

\* The numbers are numbers, and rules name configured channels.
ASSUME ServicesOK ==
  /\ {NServices, MaxRedisEvents, MaxBreaks, MaxNatsEvents, Rate, NRules, NChannels,
      Throttle, MaxTime, MaxCalls} \subseteq Nat
  /\ Selections \subseteq SUBSET (1..NChannels)

VARIABLES
  part,
  name, condition, result, pos, verdict, answered,
  saqStatus, known, registry, report, listing,
  sent, phase, linked, buffer, listener, calls, since, breaks,
  natsSent, natsPhase, natsListener, taken, durables, out, acked, up, handled,
  opinion, left, step, open, subscribed, published, denied, cut,
  now, registered, wanted, lastFired, line, alertEvent, todo, channel, alert, begun, tried,
  connected, cached, table, holder, mine, at, made

\* A subscriber id is the set of the subscriptions that were made with it.
Durable == [s \in NatsSubs |-> CHOOSE id \in NatsIds : s \in id]

H == INSTANCE Health WITH Names <- ServiceNames, N <- NServices
Q == INSTANCE SaqQueue
B == INSTANCE RedisBus WITH Subs <- RedisSubs, MaxEvents <- MaxRedisEvents
T == INSTANCE NatsBus WITH Subs <- NatsSubs, MaxEvents <- MaxNatsEvents,
                           sent <- natsSent, phase <- natsPhase, listener <- natsListener
W == INSTANCE BusServer
A == INSTANCE AlertDispatch WITH event <- alertEvent
R == INSTANCE RedisCache

Parts == {"bootstrap", "health", "saq", "redis bus", "nats bus", "server", "alert", "redis cache"}

bootstrapVars == vars
healthVars == <<name, condition, result, pos, verdict, answered>>
saqVars == <<saqStatus, known, registry, report, listing>>
redisBusVars == <<sent, phase, linked, buffer, listener, calls, since, breaks>>
natsBusVars == <<natsSent, natsPhase, natsListener, taken, durables, out, acked, up, handled>>
serverVars == <<opinion, left, step, open, subscribed, published, denied, cut>>
alertVars == <<now, registered, wanted, lastFired, line, alertEvent, todo, channel, alert, begun, tried>>
redisCacheVars == <<connected, cached, table, holder, mine, at, made>>

allVars ==
  <<part, bootstrapVars, healthVars, saqVars, redisBusVars, natsBusVars, serverVars, alertVars,
    redisCacheVars>>

\* The cache's connection and the services' names differ only where they are
\* exercised.
InitAll ==
  /\ part \in Parts
  /\ part = "redis cache" \/ connected = TRUE
  /\ part = "health" \/ name = [s \in 1..NServices |-> CHOOSE n \in ServiceNames : TRUE]
  /\ Init /\ H!Init /\ Q!Init /\ B!Init /\ T!Init /\ W!Init /\ A!Init /\ R!Init

\* The components a behaviour is not about.
Idle(p, v) == part # p => UNCHANGED v

NextAny ==
  /\ UNCHANGED part
  /\ \/ part = "bootstrap" /\ Next
     \/ part = "health" /\ H!Next
     \/ part = "saq" /\ Q!Next
     \/ part = "redis bus" /\ B!Next
     \/ part = "nats bus" /\ T!Next
     \/ part = "server" /\ W!Next
     \/ part = "alert" /\ A!Next
     \/ part = "redis cache" /\ R!Next
  /\ Idle("bootstrap", bootstrapVars)
  /\ Idle("health", healthVars)
  /\ Idle("saq", saqVars)
  /\ Idle("redis bus", redisBusVars)
  /\ Idle("nats bus", natsBusVars)
  /\ Idle("server", serverVars)
  /\ Idle("alert", alertVars)
  /\ Idle("redis cache", redisCacheVars)

\* The fairness of the components' own specifications: nothing it asks for is
\* enabled in a component's initial state.
SpecAll ==
  /\ InitAll /\ [][NextAny]_allVars
  /\ Fairness /\ B!Fairness /\ W!Fairness /\ A!Fairness /\ R!Fairness

-----------------------------------------------------------------------------
(* Properties: Bootstrap's, and those of the other components, stated and  *)
(* explained in their modules.                                             *)

\* Every component's variables keep their types.
TypesOK ==
  /\ TypeOK /\ H!TypeOK /\ Q!TypeOK /\ B!TypeOK /\ T!TypeOK /\ W!TypeOK /\ A!TypeOK /\ R!TypeOK

\* LifecycleManager: the verdict counts every answer of the call that no later
\* answer of the same name overwrote.
VerdictCoversKept == H!VerdictCoversKept

\* SaQAdapter: a dead letter is listed until Redis drops the job.
DeadAreListed == Q!DeadAreListed

\* The buses: RedisBusAdapter hands over events in order, at most once, without
\* a gap while the connection holds, and NatsBusAdapter tells the server that
\* an event is dealt with only once it is.
EventsAreKept == B!CalledInOrder /\ B!NothingMissed /\ T!AckedAreHandled

\* BusServer: every subscription has a handler that will end it, and what a
\* gate refused goes nowhere.
GatesHold == W!SubscriptionsAreHandled /\ W!RefusedGoesNowhere

\* DispatchAlertAdapter: a rule's alerts keep the throttle interval and are
\* tried on every channel the rule names.
AlertsAreSent == A!ThrottleHolds /\ []A!EveryChannelTried

\* RedisBusAdapter makes a broken subscription again.
Reconnects == B!Reconnects

\* Clients that come and go leave no subscription on the bus, evaluations of
\* alerts get their turn and end, and a get_or_set gives its lock back.
CallsEnd == W!SubscriptionsEnd /\ A!EvaluationEnds /\ R!CallsReturn
=============================================================================
