SPECIFICATION Spec
CONSTANTS
  Attempts = {a1, a2}
  Initiators = {i1, i2}
  Webhooks = {w1, w2}
  Retries = {r1}
  Callbacks = {}
  Cancellations = {}
  Requesters = {}
  Approvers = {}
  Executors = {}
  MayCrash = FALSE
  None = None
  Subscribed = {"payment.captured", "payment.failed"}
CHECK_DEADLOCK FALSE
SYMMETRY Symmetry
INVARIANTS TypeOK PaidForByProvider SeatOnlyForTimelyMoney ExceptionKeepsItsPayment ConfirmedHasCommitment
PROPERTY CommitmentIsFinal
