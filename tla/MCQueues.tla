------------------------------- MODULE MCQueues -------------------------------
(***************************************************************************)
(* What is queued in memory, for model checking: the task queue and the    *)
(* event bus, side by side.  A behaviour exercises one of them; the other  *)
(* stays as it is, so that the state spaces add up and do not multiply.    *)
(***************************************************************************)
EXTENDS TaskQueue, TLC

CONSTANTS
  Parts,                  \* the components that are exercised
  Events, Subs, MaxQueue, \* MemoryBus
  q1, q2, d1, d2

DlqOne == q1 :> d1
DlqTwo == q1 :> d1 @@ q2 :> d2

VARIABLES
  part,
  eventQueue, blocked, subs, consumers, ready, running, accepted, started, used

MB == INSTANCE MemoryBus WITH queue <- eventQueue

ASSUME BusOK == MB!ConstantsOK

busVars == <<eventQueue, blocked, subs, consumers, ready, running, accepted, started, used>>

InitQueues == part \in Parts /\ Init /\ MB!Init

\* Events and subscriptions run out, each being used once: the bus may stop.
NextQueues ==
  /\ UNCHANGED part
  /\ \/ part = "task queue" /\ Next /\ UNCHANGED busVars
     \/ part = "event bus" /\ MB!Next /\ UNCHANGED vars
     \/ part = "event bus" /\ UNCHANGED <<vars, busVars>>

SpecQueues == InitQueues /\ [][NextQueues]_<<part, vars, busVars>>

-----------------------------------------------------------------------------
(* Properties: those of the components, stated and explained there; what   *)
(* must eventually happen, under the component's own fairness.             *)

\* The variables of the task queue and of the bus keep their types.
TypesOK == TypeOK /\ MB!TypeOK

\* MemoryTaskQueueAdapter: polling workers are handed every ready job.
JobsAreServed == part = "task queue" /\ Fairness => ReadyIsServed

\* MemoryBusAdapter: each subscription gets events in order, each once at most.
InOrderOnce == MB!InOrderOnce

\* MemoryBusAdapter: a subscription that stays gets what is queued.
QueuedIsDelivered == part = "event bus" /\ MB!Fairness => MB!QueuedIsDelivered

\* MemoryBusAdapter: once somebody has subscribed, no publisher waits for ever.
SubscribedPublishReturns == part = "event bus" /\ MB!Fairness => MB!SubscribedPublishReturns
=============================================================================
