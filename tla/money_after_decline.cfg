SPECIFICATION FairSpec
CONSTANTS
  Attempts = {a1}
  Initiators = {i1}
  Webhooks = {w1}
  Retries = {}
  Callbacks = {}
  Cancellations = {}
  Requesters = {}
  Approvers = {}
  Executors = {}
  MayCrash = FALSE
  None = None
  Subscribed = {"payment.captured", "payment.failed"}
CHECK_DEADLOCK FALSE
PROPERTY MoneyIsAnswered
