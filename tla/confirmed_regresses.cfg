SPECIFICATION Spec
CONSTANTS
  Attempts = {a1, a2}
  Initiators = {i1, i2}
  Webhooks = {w1, w2}
  Retries = {}
  Callbacks = {}
  Cancellations = {}
  Requesters = {}
  Approvers = {}
  Executors = {}
  MayCrash = FALSE
  None = None
  Subscribed = {"payment.captured"}
CHECK_DEADLOCK FALSE
PROPERTY ConfirmedStays
