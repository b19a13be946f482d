CONSTANTS
  Parts = {"state machine"}
  a = a
  b = b
  z = z
  NoState = NoState
  States = {a, b, z}
  Initial = a
  Handled = {a, b}
  Rules <- Cycle
  Runs = {r1}
  MaxIter = 3
  Strategies = {"rollback"}
  Hosts = {h1}
  Requests = {}
  Threshold = 1
  RecoveryTimeout = 1
  MaxRetries = 0
SPECIFICATION SpecCoroutines
INVARIANTS RollbackReverts
