SPECIFICATION FairSpec
CONSTANTS
  q1 = q1  q2 = q2  ann = ann  quad = quad
  Tabs = {tab1, tab2}
  Quotes = {q1, q2}
  Quote <- MCQuote
  Pools = {quad}
  None = None
  MaxKeys = 2
  MaxHolds = 2
  Lifetime = 1
  Capacity = 3
  MaxTime = 2
  Scenarios <- MCScenarios
CHECK_DEADLOCK FALSE
INVARIANTS TypeOK SentToItsBooking RefusedOnlyForBookedQuote
PROPERTIES DeadHoldIsNoticed
