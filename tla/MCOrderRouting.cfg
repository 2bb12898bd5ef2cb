SPECIFICATION FairSpec
CONSTANTS
  Venues <- MCVenues
  Implemented = {"binance"}
  Slices = 2
  Attempts = 3
  Capacity = 2
  Faults = {"refused", "lost_reply", "cancel"}
INVARIANTS
  BookedWasFilled
  OneFillPerSlice
PROPERTIES
  OrderEnds
\* An order that has ended does nothing more.
CHECK_DEADLOCK FALSE
