----------------------------- MODULE BookingMoney -----------------------------
(***************************************************************************)
(* The money of one booking: quoted, booked, settled, and given back.  The *)
(* quote's schedule becomes the booking's snapshot; what was settled and   *)
(* the policy in force make the entitlement of a cancellation request; the *)
(* refund is authorised later, from that request.  In between, a second    *)
(* payment may settle and the policy be configured anew.                   *)
(***************************************************************************)
EXTENDS QuoteSchedule, CancellationPolicy, Functions

CONSTANTS
  Policies,     \* the sets of windows that may be configured
  Notices,      \* days before departure
  MaxSettled,   \* bound: attempts that settle
  None

ASSUME PolicyAssumption ==
  /\ \A ws \in Policies : ValidWindows(ws)
  /\ Notices \subseteq Int
  /\ MaxSettled \in Nat
  /\ None \notin Nat \cup [settled : Nat, fee : Nat, nonRefundable : Nat, refundable : Nat]

(* A configured list of windows is finite: of those a notice reaches, one has
   the highest threshold. *)
ASSUME GoverningAssumption ==
  \A ws \in Policies, days \in Notices : Reached(ws, days) # {} =>
    \E w \in Reached(ws, days) : \A v \in Reached(ws, days) : w.minimumDays >= v.minimumDays

VARIABLES
  booking,      \* "None", "Refused", "Booked", or "Confirmed" and after
  attempts,     \* how many attempts Succeeded, each of DueNow
  policy,       \* the configured windows
  request,      \* booking_cancellation_requests: at most one, not rejected
  answer,       \* what the last cancellation request was told
  refund        \* refunds: the amount of the request's refund, if there is one

moneyVars == <<booking, attempts, policy, request, answer, refund>>
vars == <<quoteVars, moneyVars>>

Init ==
  /\ QuoteInit
  /\ booking = "None" /\ attempts = 0
  /\ policy \in Policies
  /\ request = None /\ answer = "none" /\ refund = None

(* The snapshot the booking takes of the quote, BookingPolicy.ValidateSnapshot *)
SnapshotValid ==
  /\ quote.total = dueNow + remaining
  /\ \A k \in 1..Len(amounts) : amounts[k] > 0
  /\ SumFunction(amounts) = remaining

CreateBooking ==
  /\ pc = "Done" /\ booking = "None"
  /\ booking' = IF SnapshotValid THEN "Booked" ELSE "Refused"
  /\ UNCHANGED <<quoteVars, attempts, policy, request, answer, refund>>

(* An attempt for DueNow succeeds; the first confirms the booking.  Overlapping
   initiations make a second one possible, at any time. *)
Settle ==
  /\ booking \in {"Booked", "Confirmed", "Cancelled"} /\ dueNow > 0
  /\ attempts < MaxSettled
  /\ booking' = IF booking = "Booked" THEN "Confirmed" ELSE booking
  /\ attempts' = attempts + 1
  /\ UNCHANGED <<quoteVars, policy, request, answer, refund>>

Reconfigure ==
  /\ policy' \in Policies \ {policy}
  /\ UNCHANGED <<quoteVars, booking, attempts, request, answer, refund>>

SettledAmount == attempts * dueNow

(* A row of the request; its columns keep two decimals. *)
Entitlement(w) ==
  LET stored(amount) == RoundedAway(amount, Tenths) IN
  [settled |-> SettledAmount,
   fee |-> PercentageFee(SettledAmount, w),
   nonRefundable |-> stored(NonRefundable(SettledAmount, w)),
   refundable |-> stored(Refundable(SettledAmount, w))]

(* CK_cancellation_requests_Amount_Composition *)
Composes(row) == row.settled = row.fee + row.nonRefundable + row.refundable

(* CreateRequestAsync: whatever the database refuses is answered as an active
   request of the booking.  On the day of departure the time decides. *)
RequestCancellation(days) ==
  /\ booking = "Confirmed"
  /\ \/ /\ request # None
        /\ answer' = "active_cancellation_exists" /\ UNCHANGED request
     \/ /\ request = None /\ days <= 0
        /\ answer' = "departure_started" /\ UNCHANGED request
     \/ /\ request = None /\ days >= 0 /\ Reached(policy, days) = {}
        /\ answer' = "cancellation_window_closed" /\ UNCHANGED request
     \/ /\ request = None /\ days >= 0 /\ Reached(policy, days) # {}
        /\ LET row == Entitlement(Governing(policy, days)) IN
           IF Composes(row)
           THEN request' = row /\ answer' = "created"
           ELSE answer' = "active_cancellation_exists" /\ UNCHANGED request
  /\ UNCHANGED <<quoteVars, booking, attempts, policy, refund>>

(* RejectAsync: a rejected request is history, and another may be made. *)
RejectRequest ==
  /\ request # None /\ booking = "Confirmed"
  /\ request' = None /\ answer' = "none"
  /\ UNCHANGED <<quoteVars, booking, attempts, policy, refund>>

(* Mutant of Reconciled: the settled amount is not looked at again. *)
ReconciledOnce == request.settled >= 0

(* the settled amount, looked at again before the money goes back *)
Reconciled == request.settled = SettledAmount

(* ApplyApprovedAsync cancels the booking and authorises the refund of the
   retained estimate, or leaves the request in Exception, to be recovered and
   applied again. *)
AuthorizeRefund ==
  /\ request # None /\ refund = None
  /\ booking' = "Cancelled"
  /\ refund' = IF Reconciled THEN request.refundable ELSE None
  /\ UNCHANGED <<quoteVars, attempts, policy, request, answer>>

MoneyStep ==
  \/ CreateBooking \/ Settle \/ Reconfigure \/ RejectRequest \/ AuthorizeRefund
  \/ \E days \in Notices : RequestCancellation(days)
Next == (QuoteNext /\ UNCHANGED moneyVars) \/ MoneyStep

Spec == Init /\ [][Next]_vars
FairSpec == Spec /\ WF_vars(QuoteNext /\ UNCHANGED moneyVars)
-----------------------------------------------------------------------------
Row == [settled : Nat, fee : Nat, nonRefundable : Nat, refundable : Nat]

TypeOK ==
  /\ QuoteTypeOK
  /\ booking \in {"None", "Refused", "Booked", "Confirmed", "Cancelled"}
  /\ attempts \in 0..MaxSettled
  /\ policy \in Policies
  /\ request \in Row \cup {None}
  /\ answer \in {"none", "created", "active_cancellation_exists",
                 "departure_started", "cancellation_window_closed"}
  /\ refund \in Nat \cup {None}

(* BookingPolicy.ValidateSnapshot accepts the schedule of every quote whose
   remaining amount exceeds n(n - 1)/2 minor units for n instalments: less, and
   rounding the regular instalment up leaves nothing for the last one. *)
QuoteIsBookable ==
  booking = "Refused" => 2 * remaining <= Len(amounts) * (Len(amounts) - 1)

(* A booking can be paid unless its deposit rounds to nothing, being at most half
   a minor unit: PaymentEndpoints refuses a DueNow of 0, and no other way leads
   out of PendingPayment. *)
BookingIsPayable ==
  booking = "Booked" /\ 2 * (quote.total * quote.deposit) > Whole => dueNow > 0

(* CancellationRefundService.cs:302, "A cancellation request is already active
   for this booking": the customer who is told so has one.  It depends on the
   parts of every entitlement adding up after the columns have rounded them. *)
ActiveAnswerIsTrue == answer = "active_cancellation_exists" => request # None

(* VS-16:120, the entitlement "must reconcile to authoritative booking and
   payment facts": what goes back and what is kept are what was settled, at the
   moment the refund is authorised, whatever settled or was configured since
   the request. *)
RefundReconciles ==
  [][refund = None /\ refund' \in Nat =>
       refund' + request.fee + request.nonRefundable = SettledAmount]_vars

(* Every quote is computed: the loop over the months meets its deadline. *)
QuoteIsAnswered == <>(pc = "Done")
=============================================================================
