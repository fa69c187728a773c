SPECIFICATION StreamSpec
CONSTANTS
  Batch = 2
  Page = 2
  MaxEvents = 5
  MaxDrops = 2
INVARIANTS
  NothingMissedAtEnd
PROPERTIES
  ExactlyOnceInOrder
  EverythingArrives
