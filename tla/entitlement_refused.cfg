SPECIFICATION Spec
CONSTANTS
  Totals = {10}
  Deposits = {5000}
  InstalmentDays = {5}
  QuoteDays = {5}
  FinalDueDates = {100}
  Policies <- HalfUnitPolicy
  Notices = {1}
  MaxSettled = 1
  None = None
CHECK_DEADLOCK FALSE
INVARIANT ActiveAnswerIsTrue
