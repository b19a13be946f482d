----------------------------- MODULE AlertDispatch -----------------------------
(***************************************************************************)
(* DispatchAlertAdapter: coroutines that evaluate events against the rules *)
(* and send alerts over the channels, one evaluation at a time under an    *)
(* asyncio.Lock that is held across the sends.  Sending is external: it    *)
(* takes time and may fail.  Rules are numbered in registration order; one *)
(* registered again keeps its place, and is taken to keep its condition.   *)
(***************************************************************************)
EXTENDS Integers, Sequences, SequencesExt, FiniteSets

CONSTANTS
  NRules,     \* rules, 1..NRules
  Callers,    \* coroutines that evaluate events
  NChannels,  \* channels, 1..NChannels in configuration order
  Selections, \* the sets of channels that rules name
  Throttle,   \* throttle_seconds of every rule
  MaxTime     \* bound: the clock

Rules == 1..NRules
Channels == 1..NChannels
Never == -1

VARIABLES
  now,        \* time.time(), taken not to run backwards
  registered, \* rules registered so far
  wanted,     \* their channels: AlertRule.channels
  lastFired,  \* _last_fired
  line,       \* the lock: its holder, then the callers that wait for it
  event,      \* per caller: the rules its event matches
  todo,       \* of the holder: the rules not yet looked at
  channel,    \* of the holder: the channel it sends to, 0 between two alerts
  alert,      \* of the holder: the rule whose alert it sends
  begun,      \* history: when the last alert of each rule was begun
  tried       \* history: the <<rule, channel>> pairs the holder tried

vars == <<now, registered, wanted, lastFired, line, event, todo, channel, alert, begun, tried>>

TypeOK ==
  /\ now \in 0..MaxTime
  /\ registered \in 0..NRules
  /\ wanted \in [Rules -> SUBSET Channels]
  /\ lastFired \in [Rules -> 0..MaxTime \cup {Never}]
  /\ line \in Seq(Callers) /\ IsInjective(line)
  /\ event \in [Callers -> SUBSET Rules]
  /\ todo \subseteq Rules
  /\ channel \in 0..NChannels
  /\ alert \in 0..NRules
  /\ begun \in [Rules -> 0..MaxTime \cup {Never}]
  /\ tried \subseteq Rules \X Channels

Init ==
  /\ now = 0
  /\ registered = 0
  /\ wanted = [r \in Rules |-> {}]
  /\ lastFired = [r \in Rules |-> Never]
  /\ line = <<>>
  /\ event = [c \in Callers |-> {}]
  /\ todo = {}
  /\ channel = 0
  /\ alert = 0
  /\ begun = [r \in Rules |-> Never]
  /\ tried = {}

Register ==
  /\ registered < NRules
  /\ registered' = registered + 1
  /\ \E s \in Selections : wanted' = [wanted EXCEPT ![registered + 1] = s]
  /\ UNCHANGED <<now, lastFired, line, event, todo, channel, alert, begun, tried>>

\* Whoever comes first in the line looks at the rules registered by then.
Grant(l) ==
  /\ line' = l
  /\ todo' = IF l = <<>> THEN {} ELSE 1..registered
  /\ channel' = 0 /\ alert' = 0 /\ tried' = {}

\* evaluate_and_alert is called with an event that matches the rules m.
Evaluate(c, m) ==
  /\ c \notin ToSet(line)
  /\ event' = [event EXCEPT ![c] = m]
  /\ IF line = <<>> THEN Grant(<<c>>)
     ELSE line' = Append(line, c) /\ UNCHANGED <<todo, channel, alert, tried>>
  /\ UNCHANGED <<now, registered, wanted, lastFired, begun>>

\* Mutant of Throttled: a rule may fire a tick before its interval is over.
ThrottledShort(r) == lastFired[r] # Never /\ now - lastFired[r] < Throttle - 1

Throttled(r) == lastFired[r] # Never /\ now - lastFired[r] < Throttle
Due == {r \in todo \cap event[Head(line)] : ~Throttled(r)}

\* The next rule that matches and is not throttled: the time is entered before
\* the alert is sent, and whether or not any channel takes it.
Fire ==
  /\ line # <<>> /\ channel = 0 /\ Due # {}
  /\ \E r \in Due :
       /\ \A q \in Due : r <= q
       /\ lastFired' = [lastFired EXCEPT ![r] = now]
       /\ begun' = [begun EXCEPT ![r] = now]
       /\ alert' = r
       /\ todo' = {q \in todo : q > r}
  /\ channel' = IF Channels = {} THEN 0 ELSE 1
  /\ UNCHANGED <<now, registered, wanted, line, event, tried>>

\* One channel takes the alert or fails, which is reported and discarded.
Send ==
  /\ channel # 0
  /\ tried' = tried \cup {<<alert, channel>>}
  /\ channel' = IF channel < NChannels THEN channel + 1 ELSE 0
  /\ UNCHANGED <<now, registered, wanted, lastFired, line, event, todo, alert, begun>>

\* No rule is left: the lock goes to the next in line.
Finish ==
  /\ line # <<>> /\ channel = 0 /\ Due = {}
  /\ Grant(Tail(line))
  /\ UNCHANGED <<now, registered, wanted, lastFired, event, begun>>

\* A caller is cancelled, waiting for the lock or for a channel.
Cancel(c) ==
  /\ c \in ToSet(line) /\ (c = Head(line) => channel # 0)
  /\ IF c = Head(line) THEN Grant(Tail(line))
     ELSE line' = RemoveFirst(line, c) /\ UNCHANGED <<todo, channel, alert, tried>>
  /\ UNCHANGED <<now, registered, wanted, lastFired, event, begun>>

Tick ==
  /\ now < MaxTime
  /\ now' = now + 1
  /\ UNCHANGED <<registered, wanted, lastFired, line, event, todo, channel, alert, begun, tried>>

Next ==
  \/ Register
  \/ \E c \in Callers, m \in SUBSET Rules : Evaluate(c, m)
  \/ Fire \/ Send \/ Finish
  \/ \E c \in Callers : Cancel(c)
  \/ Tick

\* The holder runs, and a channel answers within its timeout.
Fairness == WF_vars(Fire \/ Send \/ Finish)

Spec == Init /\ [][Next]_vars /\ Fairness

-----------------------------------------------------------------------------
(* Properties. *)

\* However many coroutines evaluate, however long the sends take and however
\* they end, two alerts of one rule begin at least a throttle interval apart.
ThrottleHolds ==
  [][\A r \in Rules : begun'[r] # begun[r] /\ begun[r] # Never
       => begun'[r] - begun[r] >= Throttle]_vars

\* "Failures in one channel do not prevent delivery to others": an alert whose
\* sending is over has been tried on every channel its rule names, whichever
\* failed and whatever else the lock's holder sent.
EveryChannelTried ==
  channel = 0 /\ alert # 0 => \A c \in wanted[alert] : <<alert, c>> \in tried

\* A caller that waits for the lock gets its turn, and every evaluation ends,
\* also past callers that are cancelled while they hold the lock.
EvaluationEnds ==
  \A c \in Callers : c \in ToSet(line) ~> c \notin ToSet(line)
=============================================================================
