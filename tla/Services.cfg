CONSTANTS
  N = 4
  NServices = 2
  ServiceNames = {unknown, n1, n2}
  Unknown = unknown
  Jobs = {j1, j2}
  Reporters = {c1}
  Listers = {l1}
  NoJob = nojob
  RedisSubs = {s1}
  MaxRedisEvents = 3
  MaxBreaks = 2
  NatsSubs = {s1, s2}
  NatsIds = {{s1, s2}}
  MaxNatsEvents = 2
  Posts = {q1, q2}
  Sockets = {w1}
  Rate = 1
  NRules = 2
  Callers = {c1, c2}
  NChannels = 2
  Selections = {{1}, {1, 2}}
  Throttle = 2
  MaxTime = 3
  Threads = {t1, t2}
  NoLock = nolock
  MaxCalls = 2
SPECIFICATION SpecAll
CHECK_DEADLOCK FALSE
INVARIANTS TypesOK StopsInOrder EveryoneStopped EventsAreKept GatesHold
PROPERTIES ShutdownCompletes VerdictCoversKept DeadAreListed Reconnects AlertsAreSent CallsEnd
