SPECIFICATION Spec
CONSTANTS
  Value <- Values
  Number <- Numbers
  MaxItems = 3
INVARIANTS NothingLeftOut LastValueCounts
CHECK_DEADLOCK FALSE
