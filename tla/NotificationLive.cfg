SPECIFICATION FairSpec
CONSTANTS
  e1 = e1
  e2 = e2
  d1 = d1
  d2 = d2
  d3 = d3
  Events <- OneEvent
  Dispatchers <- TwoDispatchers
  Configured <- TwoDispatchers
  Outbox = {}
  Receipts = {}
  DiskFaults = FALSE
  MaxRefusals = 1
  MaxCrashes = 0
PROPERTY Settles
