CONSTANTS
  Jobs = {j1, j2}
  Reporters = {c1}
  Listers = {l1, l2}
  NoJob = nojob
SPECIFICATION Spec
CHECK_DEADLOCK FALSE
PROPERTIES DeadAreListed
