CONSTANTS
  Parts = {"task queue"}
  q1 = q1
  q2 = q2
  d1 = d1
  d2 = d2
  Nobody = Nobody
  Jobs = {j1, j2}
  Queues = {q1}
  Dlq <- DlqOne
  Callers = {c1}
  Retries = {2}
  MaxTime = 1
  MaxAttempts = 3
  Events = {}
  Subs = {}
  MaxQueue = 1
SPECIFICATION SpecQueues
INVARIANTS PendingIsReachable
