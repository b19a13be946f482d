------------------------------ MODULE BusServer ------------------------------
(***************************************************************************)
(* BusEventServer: the handlers of /publish and /subscribe, each request a *)
(* task of its own that passes one gate after the other.  Managers answer  *)
(* differently from one moment to the next, or not at all; the bus is      *)
(* external here and has modules of its own.                               *)
(***************************************************************************)
EXTENDS Naturals, FiniteSets

CONSTANTS
  Posts,    \* requests to /publish
  Sockets,  \* requests to /subscribe
  Rate      \* requests the rate limiter lets through

VARIABLES
  opinion,    \* what licence and permission manager say: "yes", "no", "unreachable"
  left,       \* what the rate limiter still allows
  step,       \* where the handler of a request is
  open,       \* sockets whose connection is open
  subscribed, \* sockets with a subscription on the bus
  published,  \* requests whose event was published
  denied,     \* history: requests a gate was closed to
  cut         \* history: sockets whose handler was cancelled in a call of the bus

vars == <<opinion, left, step, open, subscribed, published, denied, cut>>

Managers == {"licence", "permission"}
Requests == Posts \union Sockets
Ended == {"answered", "refused"}
Steps == {"auth", "rate", "licence", "body", "permission", "publish", "subscribe", "read", "unsubscribe"}
         \union Ended

TypeOK ==
  /\ opinion \in [Managers -> {"yes", "no", "unreachable"}]
  /\ left \in 0..Rate
  /\ step \in [Requests -> Steps]
  /\ open \subseteq Sockets
  /\ subscribed \subseteq Sockets
  /\ published \subseteq Posts
  /\ denied \subseteq Requests
  /\ cut \subseteq Sockets

Init ==
  /\ opinion = [m \in Managers |-> "yes"]
  /\ left = Rate
  /\ step = [r \in Requests |-> "auth"]
  /\ open = {} /\ subscribed = {}
  /\ published = {}
  /\ denied = {} /\ cut = {}

Goes(r, from, to) == step[r] = from /\ step' = [step EXCEPT ![r] = to]
Refused(r, from) == Goes(r, from, "refused") /\ denied' = denied \union {r}

\* The managers change their minds.
Opine(m, answer) ==
  /\ opinion' = [opinion EXCEPT ![m] = answer]
  /\ UNCHANGED <<left, step, open, subscribed, published, denied, cut>>

-----------------------------------------------------------------------------
\* _validate_request, _validate_ws_token: 401 for anything but a valid token.
Authenticate(r) ==
  /\ \/ Goes(r, "auth", IF r \in Posts THEN "rate" ELSE "licence") /\ UNCHANGED denied
     \/ Refused(r, "auth")
  /\ UNCHANGED <<opinion, left, open, subscribed, published, cut>>

\* 429: what follows may refuse a request that has used the limit up.
RateLimit(r) ==
  /\ \/ left > 0 /\ left' = left - 1 /\ Goes(r, "rate", "licence") /\ UNCHANGED denied
     \/ left = 0 /\ UNCHANGED left /\ Refused(r, "rate")
  /\ UNCHANGED <<opinion, open, subscribed, published, cut>>

\* _check_licence: an unreachable manager allows.  The socket is accepted next.
CheckLicence(r) ==
  /\ \/ /\ opinion["licence"] # "no"
        /\ Goes(r, "licence", IF r \in Posts THEN "body" ELSE "subscribe")
        /\ open' = open \union ({r} \cap Sockets)
        /\ UNCHANGED denied
     \/ opinion["licence"] = "no" /\ Refused(r, "licence") /\ UNCHANGED open
  /\ UNCHANGED <<opinion, left, subscribed, published, cut>>

\* 400 for a body that is no JSON, or has no event_type or payload.
ParseBody(r) ==
  /\ \/ Goes(r, "body", "permission") /\ UNCHANGED denied
     \/ Refused(r, "body")
  /\ UNCHANGED <<opinion, left, open, subscribed, published, cut>>

\* check_permission, which fails open, too.
CheckPermission(r) ==
  /\ \/ opinion["permission"] # "no" /\ Goes(r, "permission", "publish") /\ UNCHANGED denied
     \/ opinion["permission"] = "no" /\ Refused(r, "permission")
  /\ UNCHANGED <<opinion, left, open, subscribed, published, cut>>

\* 202, or the bus raises: 500.
Publish(r) ==
  /\ Goes(r, "publish", "answered")
  /\ published' \in {published, published \union {r}}
  /\ UNCHANGED <<opinion, left, open, subscribed, denied, cut>>

\* bus.subscribe: nothing is awaited between its return and the try.  When it
\* raises, the socket goes down with the handler.
Subscribe(r) ==
  /\ \/ Goes(r, "subscribe", "read") /\ subscribed' = subscribed \union {r} /\ UNCHANGED open
     \/ Goes(r, "subscribe", "answered") /\ open' = open \ {r} /\ UNCHANGED subscribed
  /\ UNCHANGED <<opinion, left, published, denied, cut>>

\* The client closes, or the connection is lost.
Disconnect(r) ==
  /\ r \in open
  /\ open' = open \ {r}
  /\ UNCHANGED <<opinion, left, step, subscribed, published, denied, cut>>

\* Mutant of ReadEnds: the handler returns without its finally clause.
ReadEndsSilently(r) ==
  /\ r \notin open
  /\ Goes(r, "read", "answered")
  /\ UNCHANGED <<opinion, left, open, subscribed, published, denied, cut>>

\* The read loop ends with the connection.
ReadEnds(r) ==
  /\ r \notin open
  /\ Goes(r, "read", "unsubscribe")
  /\ UNCHANGED <<opinion, left, open, subscribed, published, denied, cut>>

\* The server is stopped: the handler is cancelled where it reads, or in a call
\* of the bus, which may have done its work by then.
Cancel(r) ==
  /\ open' = open \ {r}
  /\ \/ Goes(r, "read", "unsubscribe") /\ UNCHANGED <<subscribed, cut>>
     \/ /\ Goes(r, "subscribe", "answered") \/ Goes(r, "unsubscribe", "answered")
        /\ subscribed' \in {subscribed \ {r}, subscribed \union {r}}
        /\ cut' = cut \union {r}
  /\ UNCHANGED <<opinion, left, published, denied>>

\* The finally clause.
Unsubscribe(r) ==
  /\ Goes(r, "unsubscribe", "answered")
  /\ subscribed' = subscribed \ {r}
  /\ UNCHANGED <<opinion, left, open, published, denied, cut>>

Next ==
  \/ \E m \in Managers, answer \in {"yes", "no", "unreachable"} : Opine(m, answer)
  \/ \E r \in Requests : Authenticate(r) \/ CheckLicence(r)
  \/ \E r \in Posts : RateLimit(r) \/ ParseBody(r) \/ CheckPermission(r) \/ Publish(r)
  \/ \E r \in Sockets : Subscribe(r) \/ Disconnect(r) \/ ReadEnds(r) \/ Cancel(r) \/ Unsubscribe(r)

\* A handler goes on when what it awaits is done; a closed connection ends
\* the read.
Fairness == \A r \in Sockets : WF_vars(Subscribe(r)) /\ WF_vars(ReadEnds(r)) /\ WF_vars(Unsubscribe(r))

Spec == Init /\ [][Next]_vars /\ Fairness

-----------------------------------------------------------------------------
(* Properties *)

\* A subscription on the bus belongs to a handler that will end it, unless that
\* handler was cancelled in the very call that makes or ends it.
SubscriptionsAreHandled == \A r \in subscribed \ cut : step[r] \in {"read", "unsubscribe"}

\* It ends after its socket: none is left behind by clients that come and go.
SubscriptionsEnd ==
  \A r \in Sockets : r \in subscribed /\ r \notin open ~> r \notin subscribed \/ r \in cut

\* What a gate refused is neither published nor subscribed, whatever the other
\* gates and the managers that cannot be reached say.
RefusedGoesNowhere == denied \intersect (published \union subscribed) = {}
=============================================================================
