CONSTANTS
  Callers = {"updater"}
  Channels = {"stable", "beta"}
  MaxVersion = 3
  MaxApplies = 2
SPECIFICATION Spec
INVARIANTS RollbackWorks
