\* Six opens: one that may write the header and five that read it back.
CONSTANTS
  MaxOpens = 6
SPECIFICATION Spec
INVARIANTS
  TypeOK
  StableHeader
CHECK_DEADLOCK FALSE
