----------------------------- MODULE CheckoutSaga -----------------------------
(***************************************************************************)
(* One booking from its payment to its end: the payment endpoints, the     *)
(* confirmation service, the cancellation service and the hold, composed   *)
(* over the tables they share.  A step of one leaves the local state of    *)
(* the others alone.                                                       *)
(***************************************************************************)
EXTENDS PaymentCheckout, CancellationRefund

vars == <<tables, runVars, payVars, cancelVars>>

Init == TablesInit /\ RunsInit /\ PayInit /\ CancelInit

HoldStep == HoldNext /\ UNCHANGED <<runVars, payVars, cancelVars>>
ConfirmationStep == ConfirmationNext /\ UNCHANGED <<payVars, cancelVars>>
PaymentStep == PaymentNext /\ UNCHANGED cancelVars
CancelStep == CancelNext /\ UNCHANGED <<runVars, payVars>>

Next == HoldStep \/ ConfirmationStep \/ PaymentStep \/ CancelStep

Spec == Init /\ [][Next]_vars

(* Requests that are running go on running, and the provider redelivers an
   event until it is answered. *)
Fairness ==
  /\ \A r \in Runs : WF_vars(RunStep(r) /\ UNCHANGED <<payVars, cancelVars>>)
  /\ \A i \in Initiators : WF_vars(InitiationStep(i) /\ UNCHANGED cancelVars)
  /\ \A w \in Webhooks :
       /\ WF_vars(WebhookProject(w) /\ UNCHANGED cancelVars)
       /\ WF_vars((\E e \in sent : WebhookReceive(w, e)) /\ UNCHANGED cancelVars)
  /\ \A p \in Approvers : WF_vars(ApplyStep(p) /\ UNCHANGED <<runVars, payVars>>)
FairSpec == Spec /\ Fairness
-----------------------------------------------------------------------------
(* Types of the tables and of every request's local state. *)
TypeOK == TablesTypeOK /\ RunsTypeOK /\ PayTypeOK /\ CancelTypeOK

Captured(a) == order[a] \in Settlement
PaidFor == {"PaymentSucceeded", "Confirming", "Confirmed", "ConfirmationException", "Cancelled"}

(* No state from PaymentSucceeded on is reached on the strength of anything but
   a settlement event of a payment the provider captured, whatever the order
   of events, however many requests run and wherever they stop. *)
PaidForByProvider ==
  /\ bookingState \in PaidFor => \E a \in Attempts : settledAt[a] # None
  /\ \A a \in Attempts : settledAt[a] # None => settledAt[a] = order[a]

(* A seat is committed only for a payment captured before the hold expired,
   and the attempt it is committed for carries that payment's id. *)
SeatOnlyForTimelyMoney ==
  commitment # None =>
    /\ settledAt[commitment] = "inTime"
    /\ order[commitment] = "inTime"
    /\ paymentId[commitment] = "taken"

(* A booking in ConfirmationException records the payment it is about, settled by
   the provider, which is what the retry endpoint asks for
   (ConfirmationEndpoints.cs:43).  That the retry succeeds is not promised: no
   retry brings back a hold that was lost. *)
ExceptionKeepsItsPayment ==
  bookingState = "ConfirmationException" =>
    settled # None /\ settledAt[settled] # None

(* A booking that is confirmed, or was until it was cancelled, had a seat
   committed for it.  This half survives every race; SeatFollowsBooking adds
   that the seat is released only with the booking. *)
ConfirmedHasCommitment == bookingState \in {"Confirmed", "Cancelled"} => commitment # None

(* VS-10-CONFIRMATION.md:33, retries "cannot duplicate inventory or booking
   effects": a commitment, once made, names the same attempt for ever. *)
CommitmentIsFinal == [][commitment # None => commitment' = commitment]_vars

(* The seat goes where the booking goes.  When initiations do not overlap, a
   confirmed booking keeps its seat and names the attempt the seat was committed
   for, one in ConfirmationException keeps no seat besides the money, and a
   release belongs to a cancelled booking, whatever requests, approvals,
   recoveries and deaths happen. *)
SeatFollowsBooking ==
  /\ bookingState = "Confirmed" => commitment # None /\ settled = commitment /\ releasedBy = None
  /\ bookingState = "ConfirmationException" => commitment = None
  /\ releasedBy # None => bookingState = "Cancelled"

(* VS-09-BOOKING-PAYMENT.md:35, "Terminal states must not regress because of
   duplicate or out-of-order provider events."  Of the attempt: broken by a
   slow initiation, kept when initiations do not overlap. *)
SettledAttemptStays ==
  [][\A a \in Attempts : attemptState[a] = "Succeeded" => attemptState'[a] = "Succeeded"]_vars

(* VS-10-CONFIRMATION.md:26, "A terminal confirmed booking must not regress." *)
ConfirmedStays ==
  [][bookingState = "Confirmed" => bookingState' \in {"Confirmed", "Cancelled"}]_vars

(* A cancelled booking stays cancelled: STATE-MACHINES.md knows no way out of
   Cancelled.  Kept when initiations do not overlap; a confirmation of a second
   settled attempt, working on an old copy, would reopen it. *)
CancelledStays == [][bookingState = "Cancelled" => bookingState' = "Cancelled"]_vars

(* The three together: what ended, ended, whatever order events, requests and
   approvals come in, as long as initiations do not overlap. *)
NothingRegresses == SettledAttemptStays /\ ConfirmedStays /\ CancelledStays

(* VS-09-BOOKING-PAYMENT.md:7, payment "without duplicate financial effects":
   one attempt of the booking at most is ever settled.  Broken by two
   initiations with different keys, kept when they do not overlap. *)
SettledOnce ==
  \A a, b \in Attempts : settledAt[a] # None /\ settledAt[b] # None => a = b

(* A booking whose payment was accepted, and every confirmation begun, comes to
   an answer when initiations do not overlap: no order of webhooks and retries
   leaves it between Confirming and nothing. *)
AcceptedPaymentIsAnswered ==
  bookingState \in {"PaymentSucceeded", "Confirming"} ~>
    bookingState \in {"Confirmed", "ConfirmationException"}

(* VS-10-CONFIRMATION.md:32: money received without a safe seat "becomes
   ConfirmationException; it is never silently discarded". *)
MoneyIsAnswered ==
  \A a \in Attempts : Captured(a) ~>
    bookingState \in {"Confirmed", "ConfirmationException", "Cancelled"}

(* A cancellation gives back in order, over three schemas and any number of
   deaths and recoveries: a refund exists only for the request that cancelled
   the booking and released its seat, and names an attempt that was settled; a
   request is Applied only when all three are done, and stays so. *)
GivenBackInOrder ==
  \A c \in Cancellations :
    /\ refundState[c] # "Absent" => cancelledBy = c /\ releasedBy = c
    /\ refundState[c] \notin {"Absent", "NotRequired"} => settledAt[refundAttempt[c]] # None
    /\ requestState[c] = "Applied" => refundState[c] # "Absent"

(* While the provider is asked to execute a refund nobody else asks for the
   same one: its row is in Processing until the answer is written. *)
OneExecutionPerRefund ==
  /\ \A x \in Executors : executing[x] # None => refundState[executing[x]] = "Processing"
  /\ \A x, y \in Executors : executing[x] = executing[y] /\ executing[x] # None => x = y

(* Requests that were decided and whose approver has not died come to an end:
   completed, recoverable or refused, never left in Applying. *)
ApplyingEnds ==
  \A c \in Cancellations :
    requestState[c] = "Applying" ~> requestState[c] \in {"Applied", "Exception"}

(* The booking as its ledger sees it *)
BookingStatus ==
  CASE bookingState = "ConfirmationException" -> "exception"
    [] bookingState = "Confirmed" -> "confirmed"
    [] bookingState = "Cancelled" -> "cancelled"
    [] OTHER -> "open"

SettledPayments == {a \in Attempts : settledAt[a] # None}

RefundDecision ==
  [c \in Cancellations |->
     IF refundState[c] = "Absent" THEN "none"
     ELSE IF refundState[c] = "NotRequired" THEN "notDue" ELSE "due"]

Book == INSTANCE BookingLedger WITH
  Payments <- Attempts, Requests <- Cancellations, Nobody <- None,
  status <- BookingStatus, paid <- SettledPayments, sold <- commitment,
  endedBy <- cancelledBy, returnedBy <- releasedBy, refund <- RefundDecision

(* VS-10-CONFIRMATION.md:33 and VS-16: payment, seat, confirmation, cancellation,
   return and refund happen once each, in that order and for one payment and one
   request, although three schemas record them in transactions of requests that
   overlap, repeat and die: the checkout implements BookingLedger when initiations
   do not overlap. *)
ImplementsLedger == Book!Ledger
=============================================================================
