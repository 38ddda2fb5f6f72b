SPECIFICATION FairSpec
CONSTANTS
  Attempts = {a1}
  Initiators = {i1}
  Webhooks = {w1, w2}
  Retries = {r1}
  Callbacks = {c1}
  Cancellations = {n1, n2}
  Requesters = {q1, q2}
  Approvers = {p1, p2}
  Executors = {}
  MayCrash = FALSE
  None = None
  Subscribed = {"payment.authorized", "payment.captured", "payment.failed"}
CHECK_DEADLOCK FALSE
PROPERTIES AcceptedPaymentIsAnswered ApplyingEnds
