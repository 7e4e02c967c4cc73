SPECIFICATION FairSpec
CONSTANTS
  e1 = e1
  e2 = e2
  d1 = d1
  d2 = d2
  d3 = d3
  Events <- TwoEvents
  Dispatchers <- OneDispatcher
  Configured <- OneDispatcher
  Outbox <- OtherEvent
  Receipts <- OtherEvent
  DiskFaults = FALSE
  MaxRefusals = 0
  MaxCrashes = 1
PROPERTY Settles
