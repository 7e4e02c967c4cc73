SPECIFICATION Spec
CONSTANTS
  e1 = e1
  e2 = e2
  d1 = d1
  d2 = d2
  d3 = d3
  Events <- OneEvent
  Dispatchers <- ThreeDispatchers
  Configured <- TwoDispatchers
  Outbox = {}
  Receipts = {}
  DiskFaults = TRUE
  MaxRefusals = 1
  MaxCrashes = 1
INVARIANT TypeOK
INVARIANT AtMostOnce
INVARIANT RetryIsSafe
INVARIANT ReceiptIsTrue
PROPERTY ImplementsDelivery
