\* The budget of the code, and stores that fill it to within a few characters.
CONSTANTS
  Budget = 12000
  ReadLimit = 4
  CoreLength = 244
  Limit <- Limits
  Offers <- Offered
SPECIFICATION Spec
INVARIANTS
  EveryRecordCounted
  PackedByPriority
\* A bundle is assembled once.
CHECK_DEADLOCK FALSE
