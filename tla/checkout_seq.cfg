SPECIFICATION Spec
CONSTANTS
  Attempts = {a1, a2}
  Initiators = {i1}
  Webhooks = {w1, w2}
  Retries = {r1}
  Callbacks = {}
  Cancellations = {n1}
  Requesters = {q1}
  Approvers = {p1, p2}
  Executors = {x1, x2}
  MayCrash = TRUE
  None = None
  Subscribed = {"payment.authorized", "payment.captured", "order.paid", "payment.failed"}
CHECK_DEADLOCK FALSE
SYMMETRY Symmetry
INVARIANTS SettledOnce SeatFollowsBooking GivenBackInOrder OneExecutionPerRefund
PROPERTIES NothingRegresses ImplementsLedger
