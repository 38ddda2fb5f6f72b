-------------------------- MODULE BookingMoneyProofs --------------------------
(***************************************************************************)
(* The money of a booking, for every price, plan and policy.  The composed *)
(* specification implies the calculator's, so what is proved of a quote    *)
(* holds of every booking; an entitlement's parts add up before and, half  *)
(* units apart, after the columns have rounded them; and what is refunded  *)
(* is then what was settled less what is kept.                             *)
(***************************************************************************)
EXTENDS BookingMoney, QuoteScheduleProofs

(* No configured amount ends in exactly half a minor unit. *)
NoHalfUnits == \A ws \in Policies : \A w \in ws : w.nonRefundable % Tenths # 5
-----------------------------------------------------------------------------
(* Every step of a booking's money is a step of the calculator or leaves it. *)
LEMMA MoneyImpliesQuote == Spec => QuoteSpec
<1>1. Init => QuoteInit
  BY DEF Init
<1>2. [Next]_vars => [QuoteNext]_quoteVars
  BY DEF Next, MoneyStep, vars, CreateBooking, Settle, Reconfigure, RejectRequest,
         AuthorizeRefund, RequestCancellation
<1> QED
  BY <1>1, <1>2, PTL DEF Spec, QuoteSpec

LEMMA BookingQuoteInv == Spec => []QuoteInv
  BY MoneyImpliesQuote, QuoteInvariant, PTL

LEMMA RoundedAwayNat ==
  ASSUME NEW a \in Nat, NEW n \in Nat \ {0}
  PROVE  RoundedAway(a, n) \in Nat
<1>1. ASSUME NEW x \in Nat, NEW y \in Nat \ {0} PROVE x \div y \in Nat
  BY <1>1, SMT
<1>2. 2 * a + n \in Nat /\ 2 * n \in Nat \ {0}
  OBVIOUS
<1> QED
  BY <1>1, <1>2 DEF RoundedAway

(* The fee is never more than what was settled. *)
LEMMA FeeBounded ==
  ASSUME NEW settled \in Nat, NEW w \in Window
  PROVE  PercentageFee(settled, w) \in 0..settled
<1>1. w.feeBasisPoints \in 0..BasisPoints
  BY DEF Window
<1>2. BasisPoints \in Nat \ {0}
  BY DEF BasisPoints
<1>3. w.feeBasisPoints \in Nat
  BY <1>1, <1>2
<1>4. ASSUME NEW x \in Nat, NEW y \in Nat PROVE x * y \in Nat
  OBVIOUS
<1>5. RoundedAway(settled * w.feeBasisPoints, BasisPoints) \in Nat
  BY <1>2, <1>3, <1>4, RoundedAwayNat
<1> QED
  BY <1>5 DEF PercentageFee, MinOf

(* What is kept and what is given back are what was settled, to the tenth of a
   minor unit, and neither is negative. *)
LEMMA PartsAddUp ==
  ASSUME NEW settled \in Nat, NEW w \in Window
  PROVE  /\ NonRefundable(settled, w) \in Nat /\ Refundable(settled, w) \in Nat
         /\ settled * Tenths = PercentageFee(settled, w) * Tenths
                                 + NonRefundable(settled, w) + Refundable(settled, w)
<1> DEFINE fee == PercentageFee(settled, w)
<1>1. fee \in 0..settled
  BY FeeBounded
<1>2. w.nonRefundable \in Nat
  BY DEF Window
<1> QED
  BY <1>1, <1>2 DEF NonRefundable, Refundable, MinOf, MaxOf, Tenths

(* A column rounds two parts of a whole number of units apart only when both
   end in half a unit. *)
LEMMA RoundedParts ==
  ASSUME NEW a \in Nat, NEW b \in Nat, NEW k \in Nat, a + b = 10 * k, a % 10 # 5
  PROVE  RoundedAway(a, 10) + RoundedAway(b, 10) = k
  BY SMT DEF RoundedAway

LEMMA GoverningWindow ==
  ASSUME policy \in Policies, NEW days \in Notices, Reached(policy, days) # {}
  PROVE  Governing(policy, days) \in policy /\ Governing(policy, days) \in Window
<1>1. \E w \in Reached(policy, days) :
        \A v \in Reached(policy, days) : w.minimumDays >= v.minimumDays
  BY GoverningAssumption
<1>2. Governing(policy, days) \in Reached(policy, days)
  BY <1>1 DEF Governing
<1>3. Governing(policy, days) \in policy
  BY <1>2 DEF Reached
<1> QED
  BY <1>3, PolicyAssumption DEF ValidWindows

LEMMA EntitlementRow ==
  ASSUME SettledAmount \in Nat, NEW w \in Window
  PROVE  Entitlement(w) \in Row
<1>1. /\ PercentageFee(SettledAmount, w) \in Nat
      /\ NonRefundable(SettledAmount, w) \in Nat /\ Refundable(SettledAmount, w) \in Nat
  BY FeeBounded, PartsAddUp
<1>2. /\ RoundedAway(NonRefundable(SettledAmount, w), Tenths) \in Nat
      /\ RoundedAway(Refundable(SettledAmount, w), Tenths) \in Nat
  BY <1>1, RoundedAwayNat DEF Tenths
<1> QED
  BY <1>1, <1>2 DEF Entitlement, Row

(* Without half units the row of every entitlement satisfies the constraint. *)
LEMMA EntitlementComposes ==
  ASSUME SettledAmount \in Nat, NEW w \in Window, w.nonRefundable % Tenths # 5
  PROVE  Composes(Entitlement(w))
<1> DEFINE fee == PercentageFee(SettledAmount, w)
           kept == NonRefundable(SettledAmount, w)
           back == Refundable(SettledAmount, w)
<1>1. fee \in 0..SettledAmount /\ w.nonRefundable \in Nat
  BY FeeBounded DEF Window
<1>2. kept \in Nat /\ back \in Nat /\ SettledAmount * 10 = fee * 10 + kept + back
  BY PartsAddUp DEF Tenths
<1>3. kept = (SettledAmount - fee) * 10 \/ kept = w.nonRefundable
  BY <1>1 DEF NonRefundable, MinOf, MaxOf, Tenths
<1>4. kept % 10 # 5
  <2> HIDE DEF fee, kept
  <2> QED
    BY <1>1, <1>3 DEF Tenths
<1>5. SettledAmount - fee \in Nat /\ kept + back = 10 * (SettledAmount - fee)
  <2> HIDE DEF fee, kept, back
  <2> QED
    BY <1>1, <1>2
<1>6. RoundedAway(kept, 10) + RoundedAway(back, 10) = SettledAmount - fee
  <2> HIDE DEF fee, kept, back
  <2> QED
    BY <1>2, <1>4, <1>5, RoundedParts
<1>7. RoundedAway(kept, 10) \in Nat /\ RoundedAway(back, 10) \in Nat
  BY <1>2, RoundedAwayNat
<1>8. /\ Entitlement(w).settled = SettledAmount /\ Entitlement(w).fee = fee
      /\ Entitlement(w).nonRefundable = RoundedAway(kept, 10)
      /\ Entitlement(w).refundable = RoundedAway(back, 10)
  BY DEF Entitlement, Tenths
<1> QED
  <2> HIDE DEF fee, kept, back
  <2> QED
    BY <1>1, <1>6, <1>7, <1>8 DEF Composes
-----------------------------------------------------------------------------
(* A settled amount is a whole number of minor units. *)
LEMMA SettledNat == QuoteInv /\ TypeOK => SettledAmount \in Nat
<1> SUFFICES ASSUME QuoteInv, TypeOK PROVE SettledAmount \in Nat
  OBVIOUS
<1>1. dueNow \in Nat /\ attempts \in Nat
  BY PolicyAssumption DEF QuoteInv, QuoteTypeOK, TypeOK
<1>2. ASSUME NEW x \in Nat, NEW y \in Nat PROVE x * y \in Nat
  OBVIOUS
<1> QED
  BY <1>1, <1>2 DEF SettledAmount

MoneyTypeOK ==
  /\ booking \in {"None", "Refused", "Booked", "Confirmed", "Cancelled"}
  /\ attempts \in 0..MaxSettled
  /\ policy \in Policies
  /\ request \in Row \cup {None}
  /\ answer \in {"none", "created", "active_cancellation_exists",
                 "departure_started", "cancellation_window_closed"}
  /\ refund \in Nat \cup {None}

LEMMA MoneyTypesNext ==
  ASSUME QuoteInv, TypeOK, [Next]_vars
  PROVE  MoneyTypeOK'
<1>1. MoneyTypeOK
  BY DEF TypeOK, MoneyTypeOK
<1>2. CASE UNCHANGED moneyVars
  BY <1>1, <1>2 DEF moneyVars, MoneyTypeOK
<1>3. CASE CreateBooking
  BY <1>1, <1>3 DEF MoneyTypeOK, CreateBooking
<1>4. CASE Settle
  BY <1>1, <1>4, PolicyAssumption DEF MoneyTypeOK, Settle
<1>5. CASE Reconfigure
  BY <1>1, <1>5 DEF MoneyTypeOK, Reconfigure
<1>6. CASE RejectRequest
  BY <1>1, <1>6 DEF MoneyTypeOK, RejectRequest
<1>7. CASE AuthorizeRefund
  <2>1. request \in Row
    BY <1>1, <1>7 DEF MoneyTypeOK, AuthorizeRefund
  <2>2. request.refundable \in Nat
    BY <2>1 DEF Row
  <2> QED
    BY <1>1, <1>7, <2>2 DEF MoneyTypeOK, AuthorizeRefund
<1>8. ASSUME NEW days \in Notices, RequestCancellation(days) PROVE MoneyTypeOK'
  <2>1. CASE request' = request
    BY <1>1, <1>8, <2>1 DEF MoneyTypeOK, RequestCancellation
  <2>2. CASE request' # request
    <3>1. Reached(policy, days) # {} /\ request' = Entitlement(Governing(policy, days))
      BY <1>8, <2>2 DEF RequestCancellation
    <3>2. request' \in Row
      BY <1>1, <3>1, GoverningWindow, EntitlementRow, SettledNat DEF MoneyTypeOK
    <3> QED
      BY <1>1, <1>8, <3>2 DEF MoneyTypeOK, RequestCancellation
  <2> QED
    BY <2>1, <2>2
<1> QED
  BY <1>2, <1>3, <1>4, <1>5, <1>6, <1>7, <1>8 DEF Next, MoneyStep, vars, moneyVars

(* The types of a booking's money, the amounts of requests and refunds among
   them, for every total, plan and policy. *)
THEOREM MoneyTypes == Spec => []TypeOK
<1>1. Init => TypeOK
  <2>1. QuoteInit => QuoteTypeOK
    BY InitQuoteInv DEF QuoteInv
  <2> QED
    BY <2>1, PolicyAssumption DEF Init, TypeOK
<1>2. QuoteInv /\ QuoteInv' /\ TypeOK /\ [Next]_vars => TypeOK'
  <2>1. QuoteInv' => QuoteTypeOK'
    BY DEF QuoteInv
  <2> QED
    BY <2>1, MoneyTypesNext DEF TypeOK, MoneyTypeOK
<1> QED
  BY <1>1, <1>2, BookingQuoteInv, PTL DEF Spec
-----------------------------------------------------------------------------
(* A stored entitlement satisfies CK_cancellation_requests_Amount_Composition. *)
RequestComposes == request # None => Composes(request)

LEMMA RequestAddsUp == Spec => []RequestComposes
<1>1. Init => RequestComposes
  BY DEF Init, RequestComposes
<1>2. RequestComposes /\ [Next]_vars => RequestComposes'
  BY DEF RequestComposes, Composes, Next, MoneyStep, vars, moneyVars, CreateBooking, Settle,
         Reconfigure, RejectRequest, AuthorizeRefund, RequestCancellation
<1> QED
  BY <1>1, <1>2, PTL DEF Spec

(* VS-16:120: what goes back and what is kept are what was settled when the
   refund is authorised, for every policy and any number of settlements in
   between, because the settled amount is looked at again. *)
THEOREM RefundsReconcile == Spec => RefundReconciles
<1> DEFINE A == refund = None /\ refund' \in Nat =>
                  refund' + request.fee + request.nonRefundable = SettledAmount
<1>1. TypeOK /\ RequestComposes /\ [Next]_vars => [A]_vars
  <2> SUFFICES ASSUME TypeOK, RequestComposes, [Next]_vars, refund = None, refund' \in Nat
               PROVE  refund' + request.fee + request.nonRefundable = SettledAmount
    OBVIOUS
  <2>1. refund' # refund
    BY PolicyAssumption
  <2>2. AuthorizeRefund
    BY <2>1 DEF Next, MoneyStep, vars, moneyVars, CreateBooking, Settle,
                Reconfigure, RejectRequest, RequestCancellation
  <2>3. refund' = request.refundable /\ request.settled = SettledAmount
    BY <2>1, <2>2 DEF AuthorizeRefund, Reconciled
  <2>4. request \in Row /\ Composes(request)
    BY <2>2 DEF AuthorizeRefund, TypeOK, RequestComposes
  <2>5. request.fee \in Nat /\ request.nonRefundable \in Nat /\ request.refundable \in Nat
    BY <2>4 DEF Row
  <2> QED
    BY <2>3, <2>4, <2>5 DEF Composes
<1> QED
  BY <1>1, MoneyTypes, RequestAddsUp, PTL DEF Spec, RefundReconciles

(* CancellationRefundService.cs:302: where no configured amount ends in half a
   minor unit, who is told that a cancellation is active has one. *)
THEOREM ActiveAnswerHolds ==
  ASSUME NoHalfUnits
  PROVE  Spec => []ActiveAnswerIsTrue
<1>1. Init => ActiveAnswerIsTrue
  BY DEF Init, ActiveAnswerIsTrue
<1>2. QuoteInv /\ TypeOK /\ ActiveAnswerIsTrue /\ [Next]_vars => ActiveAnswerIsTrue'
  <2> SUFFICES ASSUME QuoteInv, TypeOK, ActiveAnswerIsTrue, [Next]_vars
               PROVE  ActiveAnswerIsTrue'
    OBVIOUS
  <2>1. CASE UNCHANGED moneyVars
    BY <2>1 DEF moneyVars, ActiveAnswerIsTrue
  <2>2. CASE CreateBooking \/ Settle \/ Reconfigure \/ RejectRequest \/ AuthorizeRefund
    BY <2>2 DEF ActiveAnswerIsTrue, CreateBooking, Settle, Reconfigure, RejectRequest, AuthorizeRefund
  <2>3. ASSUME NEW days \in Notices, RequestCancellation(days) PROVE ActiveAnswerIsTrue'
    <3>1. ASSUME Reached(policy, days) # {} PROVE Composes(Entitlement(Governing(policy, days)))
      <4> DEFINE w == Governing(policy, days)
      <4>1. policy \in Policies /\ SettledAmount \in Nat
        BY SettledNat DEF TypeOK
      <4>2. w \in policy /\ w \in Window
        BY <3>1, <4>1, GoverningWindow
      <4>3. w.nonRefundable % Tenths # 5
        BY <4>1, <4>2, NoHalfUnits DEF NoHalfUnits
      <4> QED
        BY <4>1, <4>2, <4>3, EntitlementComposes
    <3> QED
      BY <2>3, <3>1 DEF RequestCancellation, ActiveAnswerIsTrue
  <2> QED
    BY <2>1, <2>2, <2>3 DEF Next, MoneyStep, vars, moneyVars
<1> QED
  BY <1>1, <1>2, BookingQuoteInv, MoneyTypes, PTL DEF Spec
-----------------------------------------------------------------------------
(* The initial payment is the whole total or the deposit; a booking is made of a
   quote that is done, and a request of a booking. *)
DueNowIsOwed ==
  /\ pc # "Deposit" => dueNow \in {quote.total, Deposit}
  /\ booking # "None" => pc = "Done"
  /\ request # None => booking # "None"

LEMMA DueNowInvariant == Spec => []DueNowIsOwed
<1>1. Init => DueNowIsOwed
  BY DEF Init, QuoteInit, DueNowIsOwed
<1>2. DueNowIsOwed /\ [Next]_vars => DueNowIsOwed'
  <2> SUFFICES ASSUME DueNowIsOwed, [Next]_vars PROVE DueNowIsOwed'
    OBVIOUS
  <2>1. CASE UNCHANGED quoteVars
    <3>1. (pc # "Deposit" => dueNow \in {quote.total, Deposit})'
      BY <2>1 DEF quoteVars, DueNowIsOwed, Deposit
    <3>2. pc' = pc /\ (booking = "None" /\ booking' # "None" => CreateBooking)
      BY <2>1 DEF DueNowIsOwed, quoteVars, Next, MoneyStep, vars, moneyVars,
         Settle, Reconfigure, RejectRequest, AuthorizeRefund, RequestCancellation
    <3>3. CreateBooking => pc = "Done"
      BY DEF CreateBooking
    <3>4. (request # None => booking # "None")'
      BY DEF DueNowIsOwed, Next, MoneyStep, vars, moneyVars, CreateBooking,
         Settle, Reconfigure, RejectRequest, AuthorizeRefund, RequestCancellation
    <3> QED
      BY <3>1, <3>2, <3>3, <3>4 DEF DueNowIsOwed
  <2>2. CASE QuoteNext /\ UNCHANGED moneyVars
    BY <2>2 DEF DueNowIsOwed, Deposit, moneyVars, QuoteNext, DueInFull, TakeDeposit, NextMonth,
       LastMonth, NextInstalment, Milestone, PayFull, ToPayLater, Scheduled
  <2> QED
    BY <2>1, <2>2 DEF Next, MoneyStep, vars, CreateBooking, Settle, Reconfigure, RejectRequest,
       AuthorizeRefund, RequestCancellation
<1> QED
  BY <1>1, <1>2, PTL DEF Spec

(* Whatever the plan, a booking whose deposit is more than half a minor unit has
   something to pay now, and so a way out of PendingPayment. *)
THEOREM BookingsArePayable == Spec => []BookingIsPayable
<1>1. QuoteInv /\ DueNowIsOwed => BookingIsPayable
  <2> SUFFICES ASSUME QuoteInv, DueNowIsOwed, booking = "Booked",
                      2 * (quote.total * quote.deposit) > Whole
               PROVE  dueNow > 0
    BY DEF BookingIsPayable
  <2>1. quote.total \in Nat \ {0} /\ quote.deposit \in Nat
    BY QuoteFields DEF QuoteInv, QuoteTypeOK
  <2>2. Whole \in Nat \ {0}
    BY DEF Whole
  <2>3. ASSUME NEW x \in Nat, NEW y \in Nat PROVE x * y \in Nat
    OBVIOUS
  <2>4. Deposit > 0
    BY <2>1, <2>2, <2>3, RoundedRatioPositive DEF Deposit
  <2> QED
    BY <2>1, <2>4 DEF DueNowIsOwed
<1> QED
  BY <1>1, BookingQuoteInv, DueNowInvariant, PTL
-----------------------------------------------------------------------------
(* A refusal is final: the quote it was given no longer changes. *)
RefusedSnapshot == booking = "Refused" => pc = "Done" /\ ~SnapshotValid

LEMMA RefusalInvariant == Spec => []RefusedSnapshot
<1>1. Init => RefusedSnapshot
  BY DEF Init, RefusedSnapshot
<1>2. DueNowIsOwed /\ RefusedSnapshot /\ [Next]_vars => RefusedSnapshot'
  <2> SUFFICES ASSUME DueNowIsOwed, RefusedSnapshot, [Next]_vars, booking' = "Refused"
               PROVE  pc' = "Done" /\ ~SnapshotValid'
    BY DEF RefusedSnapshot
  <2>1. CASE QuoteNext /\ UNCHANGED moneyVars
    <3>1. pc = "Done"
      BY <2>1 DEF RefusedSnapshot, moneyVars
    <3> QED
      BY <2>1, <3>1 DEF QuoteNext, DueInFull, TakeDeposit, NextMonth, LastMonth, NextInstalment,
         Milestone, PayFull, ToPayLater, Scheduled
  <2>2. CASE ~(QuoteNext /\ UNCHANGED moneyVars)
    <3>1. UNCHANGED quoteVars
      BY <2>2 DEF Next, MoneyStep, vars, CreateBooking, Settle, Reconfigure, RejectRequest,
         AuthorizeRefund, RequestCancellation
    <3>2. booking = "Refused" \/ (CreateBooking /\ ~SnapshotValid)
      BY <2>2 DEF Next, MoneyStep, vars, moneyVars, CreateBooking, Settle, Reconfigure,
         RejectRequest, AuthorizeRefund, RequestCancellation
    <3>3. pc = "Done" /\ ~SnapshotValid
      BY <3>2 DEF RefusedSnapshot, CreateBooking
    <3> QED
      BY <3>1, <3>3 DEF quoteVars, SnapshotValid
  <2> QED
    BY <2>1, <2>2
<1> QED
  BY <1>1, <1>2, DueNowInvariant, PTL DEF Spec

(* BookingPolicy.ValidateSnapshot refuses no quote that splits more than
   n(n - 1)/2 minor units over n instalments: the schedule of every such quote
   adds up and has no instalment that is nothing or less. *)
THEOREM QuotesAreBookable == Spec => []QuoteIsBookable
<1>1. QuoteInv /\ SplitInv /\ RefusedSnapshot => QuoteIsBookable
  <2> SUFFICES ASSUME QuoteInv, SplitInv, RefusedSnapshot, booking = "Refused",
                      ~(2 * remaining <= Len(amounts) * (Len(amounts) - 1))
               PROVE  FALSE
    BY DEF QuoteIsBookable
  <2>1. pc = "Done" /\ ~SnapshotValid
    BY DEF RefusedSnapshot
  <2>2. quote.total = dueNow + remaining /\ SumFunction(amounts) = remaining
    BY <2>1 DEF QuoteInv, AtDone, SplitInv
  <2>3. 2 * remaining > Len(amounts) * (Len(amounts) - 1)
    <3>1. remaining \in Nat /\ Len(amounts) \in Nat
      BY DEF QuoteInv, QuoteTypeOK
    <3>2. Len(amounts) * (Len(amounts) - 1) \in Int
      BY <3>1
    <3> QED
      BY <3>1, <3>2
  <2> QED
    BY <2>1, <2>2, <2>3 DEF SplitInv, AmountsPositive, SnapshotValid
<1>2. Spec => []SplitInv
  BY MoneyImpliesQuote, SplitInvariant, PTL
<1> QED
  BY <1>1, <1>2, BookingQuoteInv, RefusalInvariant, PTL
=============================================================================
