\* An open whose flush fails part-way, then an open that reads the file.
CONSTANTS
  MaxOpens = 2
SPECIFICATION Spec
INVARIANTS
  OnlyWrittenHeader
CHECK_DEADLOCK FALSE
