CONSTANTS
  N = 2
  Names = {n1, n2}
  Unknown = unknown
SPECIFICATION Spec
PROPERTIES VerdictCoversAll
