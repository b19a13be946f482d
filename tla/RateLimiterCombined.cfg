CONSTANTS
  Procs = {p1, p2}
  Shared = TRUE
  MayLose = FALSE
  Kinds = {"bucket"}
  Capacity = 2
  Rate = 1
  Costs = {1}
  MaxTime = 2
  MaxSpent = 20
SPECIFICATION Spec
INVARIANTS CombinedLimit
