\* The same stores: is a record that was accepted ever given up again.
CONSTANTS
  Budget = 12000
  ReadLimit = 4
  CoreLength = 244
  Limit <- Limits
  Offers <- Offered
SPECIFICATION Spec
PROPERTIES
  AcceptedStays
CHECK_DEADLOCK FALSE
