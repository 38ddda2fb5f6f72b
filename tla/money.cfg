SPECIFICATION FairSpec
CONSTANTS
  Totals = {1, 2, 7, 26, 101}
  Deposits = {1, 2500, 3333, 9950, 10000}
  InstalmentDays = {5, 28}
  QuoteDays = {5, 31}
  FinalDueDates = {4, 20, 36, 67, 100, 160}
  Policies <- TwoPolicies
  Notices <- AroundDeparture
  MaxSettled = 2
  None = None
CHECK_DEADLOCK FALSE
INVARIANTS TypeOK QuoteReconciles DueDatesReachDeadline QuoteIsBookable BookingIsPayable ActiveAnswerIsTrue
PROPERTIES RefundReconciles QuoteIsAnswered
