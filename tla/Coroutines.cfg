CONSTANTS
  Parts = {"state machine", "circuit breaker"}
  a = a
  b = b
  z = z
  NoState = NoState
  States = {a, b, z}
  Initial = a
  Handled = {a, b}
  Rules <- Cycle
  Runs = {r1, r2}
  MaxIter = 3
  Strategies = {"stop", "rollback", "retry"}
  Hosts = {h1, h2}
  Requests = {r1, r2, r3}
  Threshold = 2
  RecoveryTimeout = 2
  MaxRetries = 1
SPECIFICATION SpecCoroutines
INVARIANTS TypesOK LogIsPath RunningIsActive CountMatchesState
PROPERTIES RunsEnd OpenCoolsDown Recovers
