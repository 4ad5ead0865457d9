CONSTANTS
  Requests <- AllRequests
  MaxRequests = 3
  HeaderSize = 2
  TagSize = 1
  NfoSize = 1
  Sizes <- NoOrTwo
SPECIFICATION Spec
INVARIANTS TypeOK InStep AnswersInOrder FreshBody
CHECK_DEADLOCK FALSE
