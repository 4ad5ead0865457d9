CONSTANTS
  Requests <- GetAndList
  MaxRequests = 2
  HeaderSize = 2
  TagSize = 1
  NfoSize = 1
  Sizes <- NoOrTwo
SPECIFICATION Spec
INVARIANT BodyAsAnnounced
CHECK_DEADLOCK FALSE
