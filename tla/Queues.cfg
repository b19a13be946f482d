CONSTANTS
  Parts = {"task queue", "event bus"}
  q1 = q1
  q2 = q2
  d1 = d1
  d2 = d2
  Nobody = Nobody
  Jobs = {j1, j2}
  Queues = {q1, q2}
  Dlq <- DlqTwo
  Callers = {c1, c2}
  Retries = {0, 2}
  MaxTime = 1
  MaxAttempts = 2
  Events = {e1, e2, e3}
  Subs = {s1, s2}
  MaxQueue = 1
SPECIFICATION SpecQueues
INVARIANTS TypesOK HeldByOne DeadLettersAreExact InOrderOnce
PROPERTIES ImplementsDelivery JobsAreServed QueuedIsDelivered SubscribedPublishReturns
