------------------------- MODULE QuoteScheduleProofs -------------------------
(***************************************************************************)
(* What QuoteScheduleCalculator computes for every total, plan and date.   *)
(* The loop over the months keeps its dates below the next candidate; the  *)
(* loop over the dates ends with all of the remaining amount allocated.    *)
(***************************************************************************)
EXTENDS QuoteSchedule, Functions, FiniteSetTheorems, TLAPS

Rising(dates) ==
  \A k \in 1..Len(dates) :
    /\ quote.date < dates[k] /\ dates[k] <= quote.finalDueDate
    /\ \A j \in 1..(k - 1) : dates[j] < dates[k]

(* the cadence of the months below m is all there *)
Complete(m) ==
  \A l \in Nat :
    l < m /\ quote.date < 31 * l + quote.day /\ 31 * l + quote.day <= quote.finalDueDate =>
      \E k \in 1..Len(dueDates) : dueDates[k] = 31 * l + quote.day

AtDates ==
  pc = "Dates" =>
    /\ quote.date < quote.finalDueDate
    /\ amounts = <<>> /\ allocated = 0
    /\ \A k \in 1..Len(dueDates) : dueDates[k] < Candidate
    /\ Complete(month)

AtAmounts ==
  pc = "Amounts" =>
    /\ dueDates # <<>> /\ dueDates[Len(dueDates)] = quote.finalDueDate
    /\ Len(amounts) = Len(dueDates) => allocated = remaining
    /\ Complete(month + 1) /\ Candidate >= quote.finalDueDate

AtDone ==
  pc = "Done" =>
    /\ allocated = remaining
    /\ dueDates # <<>> => dueDates[Len(dueDates)] = quote.finalDueDate

QuoteInv ==
  /\ QuoteTypeOK
  /\ pc = "Deposit" => dueDates = <<>> /\ amounts = <<>> /\ remaining = 0 /\ allocated = 0 /\ month = 0
  /\ pc # "Deposit" => dueNow + remaining = quote.total
  /\ Rising(dueDates)
  /\ AtDates /\ AtAmounts /\ AtDone
-----------------------------------------------------------------------------
(* RoundMoney of a ratio is a whole amount, and never negative. *)
LEMMA RoundedRatioNat ==
  ASSUME NEW a \in Nat, NEW n \in Nat \ {0}
  PROVE  RoundedRatio(a, n) \in Nat
<1>1. a \div n \in Nat
  BY SMT
<1> QED
  BY <1>1 DEF RoundedRatio

LEMMA QuoteFields ==
  ASSUME quote \in Quotes
  PROVE  /\ quote.total \in Nat \ {0} /\ quote.deposit \in Nat
         /\ quote.day \in 1..28 /\ quote.date \in 1..31 /\ quote.finalDueDate \in Nat
         /\ quote.mode \in QuotePaymentMode
<1>1. /\ quote.total \in Totals /\ quote.deposit \in Deposits
      /\ quote.day \in InstalmentDays /\ quote.date \in QuoteDays
      /\ quote.finalDueDate \in FinalDueDates /\ quote.mode \in QuotePaymentMode
  BY DEF Quotes
<1>2. quote.total \in Nat \ {0} /\ quote.finalDueDate \in Nat
  BY <1>1, QuoteAssumption
<1>3. quote.deposit \in Nat
  <2>1. quote.deposit \in 1..Whole
    BY <1>1, QuoteAssumption
  <2>2. Whole \in Nat
    BY DEF Whole
  <2>3. ASSUME NEW i \in 1..Whole PROVE i \in Nat
    BY <2>2
  <2> QED
    BY <2>1, <2>3
<1>4. quote.day \in 1..28 /\ quote.date \in 1..31
  BY <1>1, QuoteAssumption
<1> QED
  BY <1>1, <1>2, <1>3, <1>4

LEMMA QuoteNaturals ==
  ASSUME quote \in Quotes
  PROVE  /\ quote.total \in Nat /\ quote.day \in Nat
         /\ quote.date \in Nat /\ quote.finalDueDate \in Nat
<1>1. quote.day \in 1..28 /\ quote.date \in 1..31
  BY QuoteFields
<1>2. quote.day \in Nat /\ quote.date \in Nat
  BY <1>1
<1> QED
  BY <1>2, QuoteFields

LEMMA DepositNat == ASSUME quote \in Quotes PROVE Deposit \in Nat
<1>1. quote.total * quote.deposit \in Nat
  <2>1. ASSUME NEW x \in Nat, NEW y \in Nat PROVE x * y \in Nat
    OBVIOUS
  <2> QED
    BY <2>1, QuoteFields
<1> QED
  BY <1>1, RoundedRatioNat DEF Deposit, Whole

(* A date of the cadence, put behind dates that all lie before it. *)
LEMMA CadenceDates ==
  ASSUME QuoteTypeOK, Rising(dueDates), AtDates, pc = "Dates"
  PROVE  /\ Candidate \in Nat
         /\ Cadence \in Seq(Nat) /\ Rising(Cadence)
         /\ \A k \in 1..Len(Cadence) : Cadence[k] <= Candidate
         /\ \A k \in 1..Len(dueDates) : k \in 1..Len(Cadence) /\ Cadence[k] = dueDates[k]
         /\ quote.date < Candidate /\ Candidate <= quote.finalDueDate =>
              \E k \in 1..Len(Cadence) : Cadence[k] = Candidate
<1>1. Candidate \in Nat
  <2>1. quote.day \in 1..28 /\ month \in Nat
    BY QuoteFields DEF QuoteTypeOK
  <2> QED
    BY <2>1 DEF Candidate
<1>2. CASE quote.date < Candidate /\ Candidate <= quote.finalDueDate
  <2>1. Cadence = Append(dueDates, Candidate)
    BY <1>2 DEF Cadence
  <2>2. /\ Cadence \in Seq(Nat) /\ Len(Cadence) = Len(dueDates) + 1
        /\ Cadence[Len(dueDates) + 1] = Candidate
        /\ \A k \in 1..Len(dueDates) : Cadence[k] = dueDates[k]
    BY <1>1, <2>1 DEF QuoteTypeOK
  <2>3. \A k \in 1..Len(dueDates) : dueDates[k] < Candidate /\ dueDates[k] \in Nat
    BY DEF AtDates, QuoteTypeOK
  <2>4. Len(dueDates) \in Nat
    BY DEF QuoteTypeOK
  <2>5. \A k \in 1..Len(Cadence) : Cadence[k] <= Candidate
    BY <1>1, <2>2, <2>3, <2>4
  <2>6. Rising(Cadence)
    BY <1>1, <1>2, <2>2, <2>3, <2>4 DEF Rising
  <2>7. Len(dueDates) + 1 \in 1..Len(Cadence)
    BY <2>2, <2>4
  <2> QED
    BY <1>1, <2>2, <2>4, <2>5, <2>6, <2>7
<1>3. CASE ~(quote.date < Candidate /\ Candidate <= quote.finalDueDate)
  <2>1. Cadence = dueDates
    BY <1>3 DEF Cadence
  <2>2. \A k \in 1..Len(dueDates) : dueDates[k] <= Candidate
    BY <1>1 DEF AtDates, QuoteTypeOK
  <2> QED
    BY <1>1, <1>3, <2>1, <2>2 DEF QuoteTypeOK
<1> QED
  BY <1>2, <1>3

(* The deadline, put behind the cadence unless it is there already. *)
LEMMA DeadlineDates ==
  ASSUME NEW dates \in Seq(Nat), quote \in Quotes, Rising(dates),
         quote.date < quote.finalDueDate
  PROVE  /\ WithDeadline(dates) \in Seq(Nat) /\ WithDeadline(dates) # <<>>
         /\ Rising(WithDeadline(dates))
         /\ WithDeadline(dates)[Len(WithDeadline(dates))] = quote.finalDueDate
         /\ \A k \in 1..Len(dates) :
              k \in 1..Len(WithDeadline(dates)) /\ WithDeadline(dates)[k] = dates[k]
<1> DEFINE final == quote.finalDueDate
<1>1. final \in Nat
  BY QuoteFields
<1>2. CASE dates = <<>> \/ dates[Len(dates)] # final
  <2>1. WithDeadline(dates) = Append(dates, final)
    BY <1>2 DEF WithDeadline
  <2>2. /\ Append(dates, final) \in Seq(Nat) /\ Len(Append(dates, final)) = Len(dates) + 1
        /\ Append(dates, final)[Len(dates) + 1] = final
        /\ \A k \in 1..Len(dates) : Append(dates, final)[k] = dates[k]
    BY <1>1
  <2>3. Len(dates) \in Nat /\ \A k \in 1..Len(dates) : dates[k] \in Nat
    OBVIOUS
  <2>4. \A k \in 1..Len(dates) : dates[k] < final
    <3> SUFFICES ASSUME NEW k \in 1..Len(dates) PROVE dates[k] < final
      OBVIOUS
    <3>1. dates # <<>> /\ Len(dates) \in 1..Len(dates)
      BY <2>3
    <3>2. dates[Len(dates)] < final
      BY <1>1, <1>2, <2>3, <3>1 DEF Rising
    <3>3. k = Len(dates) \/ k \in 1..(Len(dates) - 1)
      BY <2>3
    <3>4. k \in 1..(Len(dates) - 1) => dates[k] < dates[Len(dates)]
      BY <3>1 DEF Rising
    <3> QED
      BY <1>1, <2>3, <3>1, <3>2, <3>3, <3>4
  <2>5. Rising(Append(dates, final))
    BY <1>1, <2>2, <2>3, <2>4 DEF Rising
  <2>6. Append(dates, final) # <<>>
    BY <2>2, <2>3
  <2> QED
    BY <2>1, <2>2, <2>3, <2>5, <2>6
<1>3. CASE ~(dates = <<>> \/ dates[Len(dates)] # final)
  BY <1>3 DEF WithDeadline
<1> QED
  BY <1>2, <1>3
-----------------------------------------------------------------------------
(* One step per statement of the calculator. *)
LEMMA InitQuoteInv == QuoteInit => QuoteInv
<1> SUFFICES ASSUME QuoteInit PROVE QuoteInv
  OBVIOUS
<1>1. QuoteTypeOK
  BY DEF QuoteInit, QuoteTypeOK
<1> QED
  BY <1>1 DEF QuoteInit, QuoteInv, Rising, AtDates, AtAmounts, AtDone

LEMMA DueInFullInv == QuoteInv /\ DueInFull => QuoteInv'
<1> SUFFICES ASSUME QuoteInv, DueInFull PROVE QuoteInv'
  OBVIOUS
<1>1. quote.total \in Nat
  BY QuoteFields DEF QuoteInv, QuoteTypeOK
<1>2. QuoteTypeOK'
  BY <1>1 DEF QuoteInv, QuoteTypeOK, DueInFull
<1>3. remaining = 0 /\ allocated = 0 /\ dueDates = <<>>
  BY DEF QuoteInv, DueInFull
<1> QED
  BY <1>1, <1>2, <1>3 DEF QuoteInv, DueInFull, Rising, AtDates, AtAmounts, AtDone

LEMMA TakeDepositInv == QuoteInv /\ TakeDeposit => QuoteInv'
<1> SUFFICES ASSUME QuoteInv, TakeDeposit PROVE QuoteInv'
  OBVIOUS
<1>1. /\ quote.total \in Nat /\ quote.date \in Nat /\ quote.finalDueDate \in Nat
      /\ quote.day \in Nat /\ Deposit \in Nat
  BY QuoteNaturals, DepositNat DEF QuoteInv, QuoteTypeOK
<1>2. quote.date < quote.finalDueDate /\ quote.total - Deposit \in Nat
  BY <1>1 DEF TakeDeposit, NothingLater
<1>3. QuoteTypeOK'
  BY <1>1, <1>2 DEF QuoteInv, QuoteTypeOK, TakeDeposit
<1>4. dueDates = <<>> /\ amounts = <<>> /\ allocated = 0 /\ month = 0
  BY DEF QuoteInv, TakeDeposit
<1>5. dueNow' + remaining' = quote'.total
  BY <1>1 DEF TakeDeposit
<1>6. AtDates'
  BY <1>2, <1>4 DEF TakeDeposit, AtDates, Complete
<1> QED
  BY <1>3, <1>4, <1>5, <1>6 DEF QuoteInv, TakeDeposit, Rising, AtAmounts, AtDone

(* The month's candidate joins the dates if it lies between quote and deadline:
   the cadence is complete for a month more. *)
LEMMA CadenceComplete ==
  ASSUME QuoteInv, pc = "Dates"
  PROVE  \A l \in Nat :
           l < month + 1 /\ quote.date < 31 * l + quote.day /\ 31 * l + quote.day <= quote.finalDueDate =>
             \E k \in 1..Len(Cadence) : Cadence[k] = 31 * l + quote.day
<1> SUFFICES ASSUME NEW l \in Nat, l < month + 1,
                    quote.date < 31 * l + quote.day, 31 * l + quote.day <= quote.finalDueDate
             PROVE  \E k \in 1..Len(Cadence) : Cadence[k] = 31 * l + quote.day
  OBVIOUS
<1>1. month \in Nat
  BY DEF QuoteInv, QuoteTypeOK
<1>2. CASE l = month
  BY <1>2, CadenceDates DEF QuoteInv, Candidate
<1>3. CASE l < month
  <2>1. PICK k \in 1..Len(dueDates) : dueDates[k] = 31 * l + quote.day
    BY <1>3 DEF QuoteInv, AtDates, Complete
  <2>2. k \in 1..Len(Cadence) /\ Cadence[k] = dueDates[k]
    BY CadenceDates DEF QuoteInv
  <2> QED
    BY <2>1, <2>2
<1> QED
  BY <1>1, <1>2, <1>3

LEMMA NextMonthInv == QuoteInv /\ NextMonth => QuoteInv'
<1> SUFFICES ASSUME QuoteInv, NextMonth PROVE QuoteInv'
  OBVIOUS
<1>1. pc = "Dates" /\ month \in Nat /\ month' = month + 1 /\ dueDates' = Cadence
  BY DEF NextMonth, QuoteInv, QuoteTypeOK
<1>2. quote.day \in Nat /\ quote.date < quote.finalDueDate /\ amounts = <<>> /\ allocated = 0
  BY <1>1, QuoteNaturals DEF QuoteInv, QuoteTypeOK, AtDates
<1>3. QuoteTypeOK'
  <2>1. Cadence \in Seq(Nat) /\ Len(amounts) = 0
    BY <1>1, <1>2, CadenceDates DEF QuoteInv
  <2> QED
    BY <1>1, <2>1 DEF QuoteInv, QuoteTypeOK, NextMonth
<1>4. Rising(dueDates)'
  BY <1>1, CadenceDates DEF QuoteInv, NextMonth, Rising
<1>5. \A k \in 1..Len(Cadence) : Cadence[k] < 31 * (month + 1) + quote.day
  <2> SUFFICES ASSUME NEW k \in 1..Len(Cadence) PROVE Cadence[k] < 31 * (month + 1) + quote.day
    OBVIOUS
  <2>1. Cadence[k] \in Nat /\ Cadence[k] <= Candidate
    BY <1>1, CadenceDates DEF QuoteInv
  <2> QED
    BY <1>1, <1>2, <2>1 DEF Candidate
<1>6. AtDates'
  <2>1. \A k \in 1..Len(dueDates') : dueDates'[k] < Candidate'
    BY <1>1, <1>5 DEF NextMonth, Candidate
  <2>2. Complete(month)'
    BY <1>1, CadenceComplete DEF NextMonth, Complete
  <2> QED
    BY <1>1, <1>2, <2>1, <2>2 DEF NextMonth, AtDates
<1> QED
  BY <1>1, <1>3, <1>4, <1>6 DEF QuoteInv, NextMonth, AtAmounts, AtDone

LEMMA LastMonthInv == QuoteInv /\ LastMonth => QuoteInv'
<1> SUFFICES ASSUME QuoteInv, LastMonth PROVE QuoteInv'
  OBVIOUS
<1>1. pc = "Dates" /\ month' = month /\ dueDates' = WithDeadline(Cadence) /\ quote' = quote
  BY DEF LastMonth
<1>2. /\ quote \in Quotes /\ quote.date < quote.finalDueDate
      /\ Cadence \in Seq(Nat) /\ Rising(Cadence) /\ amounts = <<>> /\ allocated = 0
  BY <1>1, CadenceDates DEF QuoteInv, QuoteTypeOK, AtDates
<1>3. /\ dueDates' \in Seq(Nat) /\ dueDates' # <<>>
      /\ Rising(WithDeadline(Cadence)) /\ dueDates'[Len(dueDates')] = quote.finalDueDate
      /\ \A k \in 1..Len(Cadence) : k \in 1..Len(dueDates') /\ dueDates'[k] = Cadence[k]
  BY <1>1, <1>2, DeadlineDates
<1>4. Len(dueDates') # 0 /\ Len(dueDates') \in Nat /\ Len(amounts) = 0
  BY <1>2, <1>3
<1>5. QuoteTypeOK'
  BY <1>3, <1>4 DEF QuoteInv, QuoteTypeOK, LastMonth
<1>6. Complete(month + 1)'
  <2> SUFFICES ASSUME NEW l \in Nat, l < month + 1,
                      quote.date < 31 * l + quote.day, 31 * l + quote.day <= quote.finalDueDate
               PROVE  \E k \in 1..Len(dueDates') : dueDates'[k] = 31 * l + quote.day
    BY <1>1 DEF Complete
  <2>1. PICK k \in 1..Len(Cadence) : Cadence[k] = 31 * l + quote.day
    BY <1>1, CadenceComplete
  <2> QED
    BY <1>3, <2>1
<1>7. AtAmounts'
  BY <1>1, <1>3, <1>4, <1>6 DEF LastMonth, AtAmounts, Candidate
<1>8. Rising(dueDates)'
  BY <1>1, <1>3 DEF Rising
<1>9. dueNow' + remaining' = quote'.total
  BY <1>1 DEF QuoteInv, LastMonth
<1> QED
  BY <1>5, <1>7, <1>8, <1>9 DEF QuoteInv, LastMonth, AtDates, AtDone

(* The last instalment brings what is allocated up to what remains. *)
LEMMA NextInstalmentInv == QuoteInv /\ NextInstalment => QuoteInv'
<1> SUFFICES ASSUME QuoteInv, NextInstalment PROVE QuoteInv'
  OBVIOUS
<1>1. /\ pc = "Amounts" /\ Len(amounts) < Len(dueDates)
      /\ amounts' = Append(amounts, InstalmentAmount)
      /\ allocated' = allocated + InstalmentAmount
      /\ UNCHANGED <<quote, pc, month, dueDates, dueNow, remaining>>
  BY DEF NextInstalment
<1>2. /\ remaining \in Nat /\ allocated \in Int /\ amounts \in Seq(Int) /\ dueDates \in Seq(Nat)
      /\ Len(amounts) \in Nat /\ Len(dueDates) \in Nat \ {0}
  BY <1>1 DEF QuoteInv, QuoteTypeOK
<1>3. InstalmentAmount \in Int
  <2>1. RoundedRatio(remaining, Len(dueDates)) \in Nat
    BY <1>2, RoundedRatioNat
  <2> QED
    BY <1>2, <2>1 DEF InstalmentAmount
<1>4. amounts' \in Seq(Int) /\ Len(amounts') = Len(amounts) + 1 /\ allocated' \in Int
  BY <1>1, <1>2, <1>3
<1>5. QuoteTypeOK'
  BY <1>1, <1>2, <1>4 DEF QuoteInv, QuoteTypeOK
<1>6. Len(amounts') = Len(dueDates') => allocated' = remaining'
  BY <1>1, <1>2, <1>4 DEF InstalmentAmount
<1>7. Rising(dueDates)'
  BY <1>1 DEF QuoteInv, Rising
<1>8. AtAmounts'
  BY <1>1, <1>6 DEF QuoteInv, AtAmounts, Complete, Candidate
<1> QED
  BY <1>1, <1>5, <1>7, <1>8 DEF QuoteInv, AtDates, AtDone

(* What the end of the loop over the due dates leaves, for every mode. *)
LEMMA ScheduledFacts ==
  ASSUME QuoteInv, NEW mode, Scheduled(mode)
  PROVE  /\ pc' = "Done" /\ quote' = quote /\ month' = month
         /\ dueNow + remaining = quote.total /\ quote.total \in Nat
         /\ allocated = remaining /\ Rising(dueDates)
         /\ dueDates # <<>> /\ dueDates[Len(dueDates)] = quote.finalDueDate
         /\ Len(amounts) = Len(dueDates) /\ Len(dueDates) \in 1..Len(dueDates)
<1>1. pc = "Amounts" /\ Len(amounts) = Len(dueDates) /\ pc' = "Done" /\ quote' = quote /\ month' = month
  BY DEF Scheduled
<1>2. dueDates \in Seq(Nat) /\ dueDates # <<>> /\ quote.total \in Nat
  BY <1>1, QuoteNaturals DEF QuoteInv, QuoteTypeOK, AtAmounts
<1>3. Len(dueDates) \in 1..Len(dueDates)
  BY <1>2
<1> QED
  BY <1>1, <1>2, <1>3 DEF QuoteInv, AtAmounts

LEMMA MilestoneInv == QuoteInv /\ Milestone => QuoteInv'
<1> SUFFICES ASSUME QuoteInv, Milestone PROVE QuoteInv'
  OBVIOUS
<1>1. Scheduled("Milestone") /\ UNCHANGED <<dueDates, amounts, dueNow, remaining, allocated>>
  BY DEF Milestone
<1>2. QuoteTypeOK'
  BY <1>1, ScheduledFacts DEF QuoteInv, QuoteTypeOK
<1>3. Rising(dueDates)'
  BY <1>1, ScheduledFacts DEF Rising
<1> QED
  BY <1>1, <1>2, <1>3, ScheduledFacts DEF QuoteInv, AtDates, AtAmounts, AtDone

LEMMA PayFullInv == QuoteInv /\ PayFull => QuoteInv'
<1> SUFFICES ASSUME QuoteInv, PayFull PROVE QuoteInv'
  OBVIOUS
<1>1. /\ Scheduled("PayFull") /\ dueNow' = quote.total /\ remaining' = 0 /\ allocated' = 0
      /\ dueDates' = <<>> /\ amounts' = <<>>
  BY DEF PayFull
<1>2. QuoteTypeOK'
  BY <1>1, ScheduledFacts DEF QuoteInv, QuoteTypeOK
<1>3. Rising(dueDates)'
  BY <1>1 DEF Rising
<1>4. dueNow' + remaining' = quote'.total
  BY <1>1, ScheduledFacts
<1> QED
  BY <1>1, <1>2, <1>3, <1>4, ScheduledFacts DEF QuoteInv, AtDates, AtAmounts, AtDone

LEMMA ToPayLaterInv == QuoteInv /\ ToPayLater => QuoteInv'
<1> SUFFICES ASSUME QuoteInv, ToPayLater PROVE QuoteInv'
  OBVIOUS
<1>1. /\ Scheduled("PayLater") /\ dueDates' = <<quote.finalDueDate>> /\ amounts' = <<remaining>>
      /\ UNCHANGED <<dueNow, remaining, allocated>>
  BY ScheduledFacts DEF ToPayLater
<1>2. quote.date < quote.finalDueDate /\ quote.finalDueDate \in Nat /\ remaining \in Nat
  <2>1. Len(dueDates) \in 1..Len(dueDates) /\ dueDates[Len(dueDates)] = quote.finalDueDate
    BY <1>1, ScheduledFacts
  <2>2. quote.date < dueDates[Len(dueDates)]
    BY <2>1 DEF QuoteInv, Rising
  <2> QED
    BY <2>1, <2>2, QuoteNaturals DEF QuoteInv, QuoteTypeOK
<1>3. dueDates' \in Seq(Nat) /\ amounts' \in Seq(Int) /\ Len(dueDates') = 1 /\ Len(amounts') = 1
  BY <1>1, <1>2
<1>4. QuoteTypeOK'
  BY <1>1, <1>3, ScheduledFacts DEF QuoteInv, QuoteTypeOK
<1>5. Rising(dueDates)'
  BY <1>1, <1>2, <1>3, ScheduledFacts, QuoteNaturals DEF Rising, QuoteInv, QuoteTypeOK
<1>6. dueDates'[Len(dueDates')] = quote'.finalDueDate
  BY <1>1, <1>3, ScheduledFacts
<1>7. dueNow' + remaining' = quote'.total
  BY <1>1, ScheduledFacts
<1> QED
  BY <1>1, <1>4, <1>5, <1>6, <1>7, ScheduledFacts DEF QuoteInv, AtDates, AtAmounts, AtDone

LEMMA StutterInv == QuoteInv /\ UNCHANGED quoteVars => QuoteInv'
  BY DEF QuoteInv, quoteVars, QuoteTypeOK, Rising, AtDates, AtAmounts, AtDone, Complete, Candidate
-----------------------------------------------------------------------------
(* The strengthening that the calculator's loops maintain. *)
THEOREM QuoteInvariant == QuoteSpec => []QuoteInv
<1>1. QuoteInit => QuoteInv
  BY InitQuoteInv
<1>2. QuoteInv /\ [QuoteNext]_quoteVars => QuoteInv'
  BY DueInFullInv, TakeDepositInv, NextMonthInv, LastMonthInv, NextInstalmentInv,
     MilestoneInv, PayFullInv, ToPayLaterInv, StutterInv DEF QuoteNext
<1> QED
  BY <1>1, <1>2, PTL DEF QuoteSpec

(* VS-07:108, "all amounts reconcile exactly", for every total, plan, quote
   date and mode: whatever RoundMoney does to the deposit and to the regular
   instalment, the last instalment makes up for it. *)
THEOREM ScheduleReconciles == QuoteSpec => []QuoteReconciles
<1>1. QuoteInv => QuoteReconciles
  BY DEF QuoteInv, AtDone, QuoteReconciles
<1> QED
  BY <1>1, QuoteInvariant, PTL

(* VS-07:106-107, for every deadline and cadence day: the due dates rise, end
   on the deadline, and leave out no month of the cadence. *)
THEOREM DatesReachDeadline == QuoteSpec => []DueDatesReachDeadline
<1>1. QuoteInv => DueDatesReachDeadline
  <2> SUFFICES ASSUME QuoteInv PROVE DueDatesReachDeadline
    OBVIOUS
  <2>1. \A k \in 1..Len(dueDates) :
          /\ quote.date < dueDates[k] /\ dueDates[k] <= quote.finalDueDate
          /\ \A j \in 1..(k - 1) : dueDates[j] < dueDates[k]
    BY DEF QuoteInv, Rising
  <2>2. pc = "Amounts" \/ (pc = "Done" /\ dueDates # <<>>) =>
          dueDates # <<>> /\ dueDates[Len(dueDates)] = quote.finalDueDate
    BY DEF QuoteInv, AtAmounts, AtDone
  <2>3. ASSUME pc = "Amounts", NEW m \in 0..(quote.finalDueDate \div 31),
               quote.date < 31 * m + quote.day, 31 * m + quote.day <= quote.finalDueDate
        PROVE  \E k \in 1..Len(dueDates) : dueDates[k] = 31 * m + quote.day
    <3>1. /\ quote.finalDueDate \in Nat /\ quote.day \in Nat /\ month \in Nat
          /\ 31 * month + quote.day >= quote.finalDueDate
      BY <2>3, QuoteNaturals DEF QuoteInv, QuoteTypeOK, AtAmounts, Candidate
    <3>2. quote.finalDueDate \div 31 \in Nat
      BY <3>1
    <3>3. m \in Nat /\ m < month + 1
      BY <2>3, <3>1, <3>2
    <3> QED
      BY <2>3, <3>3 DEF QuoteInv, AtAmounts, Complete
  <2> QED
    BY <2>1, <2>2, <2>3 DEF DueDatesReachDeadline
<1> QED
  BY <1>1, QuoteInvariant, PTL
-----------------------------------------------------------------------------
(* What a sum over a sequence is.  The community modules add the values of a
   finite set's members one after another, each time one that CHOOSE picks; a
   finite set that is wrong about a sum would have a least wrong subset. *)
LEMMA LeastElement ==
  ASSUME NEW T, T \subseteq Nat, T # {}
  PROVE  \E n \in T : \A m \in T : n <= m
<1> DEFINE R == {ij \in Nat \X Nat : ij[1] < ij[2]}
<1>1. IsWellFoundedOn(R, Nat)
  BY NatLessThanWellFounded DEF OpToRel
<1>2. PICK n \in T : \A m \in T : ~ (<<m, n>> \in R)
  <2> HIDE DEF R
  <2> QED
    BY <1>1, WFMin
<1>3. \A m \in T : m \in Nat /\ n \in Nat /\ <<m, n>> \in Nat \X Nat
  OBVIOUS
<1>4. \A m \in T : ~(m < n)
  BY <1>2, <1>3
<1> QED
  BY <1>3, <1>4

(* Among subsets of a finite set one has no proper subset among them. *)
LEMMA LeastSubset ==
  ASSUME NEW S, IsFiniteSet(S), NEW T, T \subseteq SUBSET S, T # {}
  PROVE  \E s \in T : \A r \in T : r \subseteq s => r = s
<1> DEFINE Sizes == {Cardinality(s) : s \in T}
<1>1. \A s \in SUBSET S : IsFiniteSet(s) /\ Cardinality(s) \in Nat
  BY FS_Subset, FS_CardinalityType
<1>2. PICK n \in Sizes : \A m \in Sizes : n <= m
  <2>1. Sizes \subseteq Nat /\ Sizes # {}
    BY <1>1
  <2> HIDE DEF Sizes
  <2> QED
    BY <2>1, LeastElement
<1>3. PICK s \in T : Cardinality(s) = n
  OBVIOUS
<1>4. ASSUME NEW r \in T, r \subseteq s PROVE r = s
  <2>1. IsFiniteSet(s) /\ Cardinality(r) <= Cardinality(s) /\ Cardinality(s) <= Cardinality(r)
    BY <1>1, <1>2, <1>3, <1>4, FS_Subset
  <2> QED
    BY <1>1, <1>4, <2>1, FS_Subset
<1> QED
  BY <1>4

(* g adds up the values of f over every subset of S *)
Picked(s) == CHOOSE x \in s : TRUE
SumStep(g, f, s) == IF s = {} THEN 0 ELSE f[Picked(s)] + g[s \ {Picked(s)}]
Sums(g, f, S) == \A s \in SUBSET S : g[s] = SumStep(g, f, s)

LEMMA PickedIn == ASSUME NEW s, s # {} PROVE Picked(s) \in s
BY DEF Picked

LEMMA SumsExist ==
  ASSUME NEW S, IsFiniteSet(S), NEW f
  PROVE  \E g : g = [s \in SUBSET S |-> SumStep(g, f, s)]
<1> DEFINE Upto(n) == \E g : \A s \in SUBSET S : Cardinality(s) <= n => g[s] = SumStep(g, f, s)
           Missing == {n \in Nat : ~Upto(n)}
<1>1. \A s \in SUBSET S : /\ IsFiniteSet(s) /\ Cardinality(s) \in Nat
                          /\ Cardinality(s) = 0 <=> s = {}
                          /\ Cardinality(s) <= Cardinality(S)
  BY FS_Subset, FS_CardinalityType, FS_EmptySet
<1>2. \A s \in SUBSET S : s # {} => Cardinality(s \ {Picked(s)}) = Cardinality(s) - 1
  BY <1>1, PickedIn, FS_RemoveElement
<1>3. Upto(0)
  <2> DEFINE g == [s \in SUBSET S |-> 0]
  <2>1. \A s \in SUBSET S : Cardinality(s) <= 0 => g[s] = SumStep(g, f, s)
    BY <1>1 DEF SumStep
  <2> QED
    BY <2>1
<1>4. ASSUME NEW n \in Nat, Upto(n) PROVE Upto(n + 1)
  <2> PICK g : \A s \in SUBSET S : Cardinality(s) <= n => g[s] = SumStep(g, f, s)
    BY <1>4
  <2> DEFINE h == [s \in SUBSET S |-> IF Cardinality(s) <= n THEN g[s] ELSE SumStep(g, f, s)]
  <2>1. ASSUME NEW s \in SUBSET S, Cardinality(s) <= n + 1 PROVE h[s] = SumStep(h, f, s)
    <3>1. CASE s = {}
      BY <1>1, <3>1 DEF SumStep
    <3>2. CASE s # {}
      <4> DEFINE r == s \ {Picked(s)}
      <4>1. r \in SUBSET S /\ Cardinality(r) <= n
        BY <1>1, <1>2, <2>1, <3>2
      <4>2. h[r] = g[r]
        BY <4>1
      <4>3. SumStep(h, f, s) = SumStep(g, f, s)
        BY <4>2 DEF SumStep
      <4>4. h[s] = SumStep(g, f, s)
        OBVIOUS
      <4> QED
        BY <4>3, <4>4
    <3> QED
      BY <3>1, <3>2
  <2> HIDE DEF h
  <2> QED
    BY <2>1
<1>5. Missing = {}
  <2> SUFFICES ASSUME Missing # {} PROVE FALSE
    OBVIOUS
  <2>1. PICK n \in Missing : \A m \in Missing : n <= m
    <3>1. Missing \subseteq Nat
      OBVIOUS
    <3> HIDE DEF Missing
    <3> QED
      BY <3>1, LeastElement
  <2>2. n \in Nat /\ ~Upto(n)
    OBVIOUS
  <2> HIDE DEF Upto
  <2>3. n # 0
    BY <1>3, <2>2
  <2>4. n - 1 \in Nat /\ n - 1 \notin Missing
    BY <2>1, <2>2, <2>3
  <2>5. Upto(n - 1)
    BY <2>4
  <2> QED
    BY <1>4, <2>2, <2>4, <2>5
<1>6. PICK g : \A s \in SUBSET S : g[s] = SumStep(g, f, s)
  <2>1. Upto(Cardinality(S))
    <3> HIDE DEF Upto
    <3> QED
      BY <1>1, <1>5
  <2> QED
    BY <1>1, <2>1
<1> DEFINE h == [s \in SUBSET S |-> g[s]]
<1>7. \A s \in SUBSET S : SumStep(h, f, s) = SumStep(g, f, s)
  BY DEF SumStep
<1>8. h = [s \in SUBSET S |-> SumStep(h, f, s)]
  BY <1>6, <1>7
<1> QED
  BY <1>8

(* What the community modules sum up is such a g's value for the whole set. *)
LEMMA SumOf ==
  ASSUME NEW S, IsFiniteSet(S), NEW f
  PROVE  \E g : Sums(g, f, S) /\ SumFunctionOnSet(f, S) = g[S]
<1> DEFINE g == CHOOSE g : g = [s \in SUBSET S |-> SumStep(g, f, s)]
<1>1. g = [s \in SUBSET S |-> SumStep(g, f, s)]
  BY SumsExist
<1>2. SumFunctionOnSet(f, S) = g[S]
  BY Zenon DEF SumFunctionOnSet, FoldFunctionOnSet, MapThenFoldSet, SumStep, Picked
<1>3. Sums(g, f, S)
  <2> HIDE DEF g
  <2> QED
    BY <1>1 DEF Sums
<1> QED
  BY <1>2, <1>3

(* It does not matter which value is added first. *)
LEMMA SumsAny ==
  ASSUME NEW S, IsFiniteSet(S), NEW f, \A x \in S : f[x] \in Int, NEW g, Sums(g, f, S)
  PROVE  \A s \in SUBSET S : g[s] \in Int /\ \A x \in s : g[s] = f[x] + g[s \ {x}]
<1> DEFINE Right(s) == g[s] \in Int /\ \A x \in s : g[s] = f[x] + g[s \ {x}]
           Wrong == {s \in SUBSET S : ~Right(s)}
<1>1. ASSUME NEW s \in SUBSET S, \A r \in SUBSET S : r \subseteq s /\ r # s => Right(r)
      PROVE  Right(s)
  <2>1. CASE s = {}
    <3>1. g[s] = 0
      BY <2>1 DEF Sums, SumStep
    <3> QED
      BY <2>1, <3>1
  <2>2. CASE s # {}
    <3> DEFINE p == Picked(s)
               r == s \ {p}
    <3>1. p \in s /\ g[s] = f[p] + g[r]
      BY <2>2, PickedIn DEF Sums, SumStep
    <3> HIDE DEF p
    <3>2. r \in SUBSET S /\ Right(r) /\ f[p] \in Int
      BY <1>1, <3>1
    <3>3. ASSUME NEW x \in s, x # p PROVE g[s] = f[x] + g[s \ {x}]
      <4> DEFINE t == s \ {x}
                 u == r \ {x}
      <4>1. /\ t \in SUBSET S /\ Right(t) /\ p \in t /\ x \in r
            /\ u \in SUBSET S /\ Right(u) /\ t \ {p} = u
        BY <1>1, <3>1, <3>3
      <4>2. g[r] = f[x] + g[u] /\ g[t] = f[p] + g[u] /\ g[u] \in Int
        BY <3>2, <4>1
      <4>3. f[x] \in Int
        OBVIOUS
      <4> HIDE DEF t, u, r, Right
      <4> DEFINE gu == g[u]
                 fx == f[x]
                 fp == f[p]
      <4>4. g[s] = fp + (fx + gu) /\ g[t] = fp + gu
        BY <3>1, <4>2
      <4>5. gu \in Int /\ fx \in Int /\ fp \in Int
        BY <3>2, <4>2, <4>3
      <4> HIDE DEF gu, fx, fp
      <4>6. g[s] = fx + g[t]
        BY <4>4, <4>5
      <4> QED
        BY <4>6 DEF fx, t
    <3>4. g[s] \in Int
      <4>1. g[r] \in Int
        BY <3>2
      <4> HIDE DEF r
      <4> QED
        BY <3>1, <3>2, <4>1
    <3>5. \A x \in s : g[s] = f[x] + g[s \ {x}]
      BY <3>1, <3>3
    <3> QED
      BY <3>4, <3>5
  <2> QED
    BY <2>1, <2>2
<1>2. ASSUME Wrong # {} PROVE FALSE
  <2>1. PICK s \in Wrong : \A r \in Wrong : r \subseteq s => r = s
    <3>1. Wrong \subseteq SUBSET S
      OBVIOUS
    <3> HIDE DEF Wrong
    <3> QED
      BY <1>2, <3>1, LeastSubset
  <2> HIDE DEF Right
  <2>2. s \in SUBSET S /\ ~Right(s)
    OBVIOUS
  <2> QED
    BY <1>1, <2>1, <2>2
<1> QED
  BY <1>2

(* Two that add up values that agree, agree. *)
LEMMA SumsAgree ==
  ASSUME NEW S, IsFiniteSet(S), NEW f, NEW e, \A x \in S : f[x] = e[x],
         NEW g, Sums(g, f, S), NEW h, Sums(h, e, S)
  PROVE  g[S] = h[S]
<1> DEFINE Wrong == {s \in SUBSET S : g[s] # h[s]}
<1>1. ASSUME NEW s \in SUBSET S, \A r \in SUBSET S : r \subseteq s /\ r # s => g[r] = h[r]
      PROVE  g[s] = h[s]
  <2>1. CASE s = {}
    BY <2>1 DEF Sums, SumStep
  <2>2. CASE s # {}
    <3>1. Picked(s) \in s
      BY <2>2, PickedIn
    <3> QED
      BY <1>1, <2>2, <3>1 DEF Sums, SumStep
  <2> QED
    BY <2>1, <2>2
<1>2. ASSUME Wrong # {} PROVE FALSE
  <2>1. PICK s \in Wrong : \A r \in Wrong : r \subseteq s => r = s
    <3>1. Wrong \subseteq SUBSET S
      OBVIOUS
    <3> HIDE DEF Wrong
    <3> QED
      BY <1>2, <3>1, LeastSubset
  <2> QED
    BY <1>1, <2>1
<1> QED
  BY <1>2

LEMMA SumEmpty == SumFunction(<<>>) = 0
<1>1. DOMAIN <<>> = {} /\ IsFiniteSet({})
  BY FS_EmptySet
<1>2. PICK g : Sums(g, <<>>, {}) /\ SumFunctionOnSet(<<>>, {}) = g[{}]
  BY <1>1, SumOf
<1> QED
  BY <1>1, <1>2 DEF SumFunction, Sums, SumStep

LEMMA SumAppend ==
  ASSUME NEW a \in Seq(Int), NEW x \in Int
  PROVE  SumFunction(a) \in Int /\ SumFunction(Append(a, x)) = SumFunction(a) + x
<1> DEFINE n == Len(a)
           b == Append(a, x)
           S == 1..n
           R == 1..(n + 1)
<1>1. /\ n \in Nat /\ DOMAIN a = S /\ DOMAIN b = R
      /\ \A k \in S : a[k] \in Int /\ b[k] = a[k]
      /\ b[n + 1] = x /\ \A k \in R : b[k] \in Int
  OBVIOUS
<1>2. IsFiniteSet(S) /\ IsFiniteSet(R)
  <2>1. n \in Int /\ n + 1 \in Int /\ 1 \in Int
    BY <1>1
  <2> HIDE DEF n
  <2> QED
    BY <2>1, FS_Interval
<1>3. S \subseteq R /\ R \ {n + 1} = S /\ n + 1 \in R
  <2> HIDE DEF n
  <2> QED
    BY <1>1
<1> HIDE DEF n, b, S, R
<1>4. PICK g : Sums(g, a, S) /\ SumFunctionOnSet(a, S) = g[S]
  BY <1>2, SumOf
<1>5. PICK h : Sums(h, b, R) /\ SumFunctionOnSet(b, R) = h[R]
  BY <1>2, SumOf
<1>8. h[R] = x + h[S] /\ h[S] \in Int
  <2>1. \A s \in SUBSET R : h[s] \in Int /\ \A k \in s : h[s] = b[k] + h[s \ {k}]
    BY <1>1, <1>2, <1>5, SumsAny
  <2>2. h[R] = b[n + 1] + h[R \ {n + 1}]
    BY <1>3, <2>1
  <2> QED
    BY <1>1, <1>3, <2>1, <2>2
<1>6. g[S] = h[S]
  <2>1. Sums(h, b, S)
    BY <1>3, <1>5 DEF Sums
  <2> QED
    BY <1>1, <1>2, <1>4, <2>1, SumsAgree
<1>7. SumFunction(a) = g[S] /\ SumFunction(b) = h[R]
  BY <1>1, <1>4, <1>5 DEF SumFunction
<1> QED
  BY <1>6, <1>7, <1>8 DEF b
-----------------------------------------------------------------------------
(* How the remaining amount is split: by the regular instalment, and the last
   one takes what is left. *)
Regular == RoundedRatio(remaining, Len(dueDates))

AmountsPositive ==
  2 * remaining > Len(amounts) * (Len(amounts) - 1) =>
    \A k \in 1..Len(amounts) : amounts[k] > 0

SplitInv ==
  /\ SumFunction(amounts) = allocated
  /\ pc \in {"Dates", "Amounts"} => remaining > 0
  /\ pc = "Amounts" =>
       /\ \A k \in 1..Len(amounts) :
            amounts[k] = IF k = Len(dueDates)
                         THEN remaining - (Len(dueDates) - 1) * Regular ELSE Regular
       /\ Len(amounts) < Len(dueDates) => allocated = Len(amounts) * Regular
  /\ pc = "Done" => AmountsPositive

LEMMA ProductNat == ASSUME NEW x \in Nat, NEW y \in Nat PROVE x * y \in Nat
OBVIOUS

(* More than half a minor unit does not round to nothing. *)
LEMMA RoundedRatioPositive ==
  ASSUME NEW a \in Nat, NEW n \in Nat \ {0}, 2 * a > n
  PROVE  RoundedRatio(a, n) > 0
<1>1. a \div n \in Nat /\ a % n \in Nat /\ a = n * (a \div n) + (a % n)
  BY SMT
<1>2. CASE a \div n = 0
  <2>1. a % n = a
    BY <1>1, <1>2
  <2> QED
    BY <1>2, <2>1 DEF RoundedRatio
<1>3. CASE a \div n # 0
  BY <1>1, <1>3 DEF RoundedRatio
<1> QED
  BY <1>2, <1>3

(* Rounding to the nearest adds at most half a minor unit. *)
LEMMA RoundedRatioBound ==
  ASSUME NEW a \in Nat, NEW n \in Nat \ {0}
  PROVE  2 * (n * RoundedRatio(a, n)) <= 2 * a + n
<1> DEFINE q == a \div n
           r == a % n
<1>1. q \in Nat /\ r \in Nat /\ a = n * q + r
  BY SMT
<1>2. n * (q + 1) = n * q + n /\ n * q \in Nat
  BY <1>1
<1>3. CASE RoundedRatio(a, n) = q
  <2> HIDE DEF q, r
  <2> QED
    BY <1>1, <1>2, <1>3
<1>4. CASE RoundedRatio(a, n) # q
  <2>1. RoundedRatio(a, n) = q + 1 /\ 2 * r >= n
    BY <1>1, <1>4 DEF RoundedRatio
  <2> HIDE DEF q, r
  <2> QED
    BY <1>1, <1>2, <2>1
<1> QED
  BY <1>3, <1>4

(* The last of n instalments is positive if more than n(n - 1)/2 minor units
   are split: rounding up takes at most half a unit from it n - 1 times. *)
LEMMA LastInstalment ==
  ASSUME NEW a \in Nat, NEW n \in Nat \ {0}, 2 * a > n * (n - 1)
  PROVE  a - (n - 1) * RoundedRatio(a, n) > 0
<1> DEFINE reg == RoundedRatio(a, n)
           last == a - (n - 1) * reg
<1>1. reg \in Nat /\ 2 * (n * reg) <= 2 * a + n
  BY RoundedRatioNat, RoundedRatioBound
<1> HIDE DEF reg
<1>2. n * reg \in Nat /\ n - 1 \in Nat /\ (n - 1) * reg \in Nat
  BY <1>1, ProductNat
<1>3. (n - 1) * (2 * (n * reg)) <= (n - 1) * (2 * a + n)
  <2>1. ASSUME NEW x \in Nat, NEW y \in Nat, NEW c \in Nat, x <= y PROVE c * x <= c * y
    BY <2>1
  <2> QED
    BY <1>1, <1>2, <2>1
<1>4. n * (2 * last) = 2 * (n * a) - (n - 1) * (2 * (n * reg))
  BY <1>1
<1>5. (n - 1) * (2 * a + n) = 2 * (n * a) - 2 * a + n * (n - 1)
  OBVIOUS
<1>6. n * (2 * last) > 0
  <2>1. n * a \in Nat /\ n * (n - 1) \in Nat /\ (n - 1) * (2 * (n * reg)) \in Nat
    BY <1>2, ProductNat
  <2> QED
    BY <1>3, <1>4, <1>5, <2>1
<1>7. last \in Int
  BY <1>2
<1> HIDE DEF last
<1>8. last > 0
  <2>1. ASSUME last <= 0 PROVE n * (2 * last) <= 0
    BY <1>7, <2>1
  <2> QED
    BY <1>6, <1>7, <2>1
<1> QED
  BY <1>8 DEF last, reg

(* Every instalment of a schedule that has all of them is positive. *)
LEMMA AllPositive ==
  ASSUME QuoteInv, SplitInv, pc = "Amounts", Len(amounts) = Len(dueDates)
  PROVE  AmountsPositive
<1> DEFINE n == Len(dueDates)
<1>1. /\ remaining \in Nat /\ remaining > 0 /\ n \in Nat \ {0}
      /\ \A k \in 1..n : amounts[k] = IF k = n THEN remaining - (n - 1) * Regular ELSE Regular
  BY DEF QuoteInv, QuoteTypeOK, AtAmounts, SplitInv
<1> SUFFICES ASSUME 2 * remaining > n * (n - 1), NEW k \in 1..n PROVE amounts[k] > 0
  BY DEF AmountsPositive
<1> HIDE DEF n
<1>2. CASE k = n
  BY <1>1, <1>2, LastInstalment DEF Regular, n
<1>3. CASE k # n
  <2>1. n > 1 /\ n - 1 \in Nat
    BY <1>1, <1>3
  <2>2. n * (n - 1) >= n
    <3>1. ASSUME NEW x \in Nat, NEW y \in Nat, y >= 1 PROVE x * y >= x
      BY <3>1
    <3> QED
      BY <1>1, <2>1, <3>1
  <2>3. 2 * remaining > n
    <3>1. n * (n - 1) \in Nat
      BY <1>1, <2>1, ProductNat
    <3> QED
      BY <1>1, <2>2, <3>1
  <2> QED
    BY <1>1, <1>3, <2>3, RoundedRatioPositive DEF Regular, n
<1> QED
  BY <1>2, <1>3

LEMMA NextInstalmentSplit == QuoteInv /\ SplitInv /\ NextInstalment => SplitInv'
<1> SUFFICES ASSUME QuoteInv, SplitInv, NextInstalment PROVE SplitInv'
  OBVIOUS
<1> DEFINE n == Len(dueDates)
           m == Len(amounts)
<1>1. /\ pc = "Amounts" /\ m < n
      /\ amounts' = Append(amounts, InstalmentAmount) /\ allocated' = allocated + InstalmentAmount
      /\ UNCHANGED <<quote, pc, month, dueDates, dueNow, remaining>>
  BY DEF NextInstalment
<1>2. /\ remaining \in Nat /\ remaining > 0 /\ n \in Nat \ {0} /\ m \in Nat
      /\ amounts \in Seq(Int) /\ allocated \in Int
  BY <1>1 DEF QuoteInv, QuoteTypeOK, SplitInv
<1>3. Regular \in Nat /\ m * Regular \in Nat
  BY <1>2, RoundedRatioNat, ProductNat DEF Regular
<1>4. /\ InstalmentAmount = IF m + 1 = n THEN remaining - (n - 1) * Regular ELSE Regular
      /\ allocated = m * Regular
  <2>1. allocated = m * Regular
    BY <1>1 DEF SplitInv
  <2>2. m + 1 = n => m = n - 1
    BY <1>2
  <2> HIDE DEF m, n
  <2> QED
    BY <2>1, <2>2 DEF InstalmentAmount, Regular, m, n
<1>5. InstalmentAmount \in Int
  <2>1. m + 1 = n => m * Regular = (n - 1) * Regular
    <3>1. m + 1 = n => m = n - 1
      BY <1>2
    <3> HIDE DEF m, n
    <3> QED
      BY <3>1
  <2> HIDE DEF m, n
  <2> QED
    BY <1>2, <1>3, <1>4, <2>1
<1>6. /\ Len(amounts') = m + 1 /\ amounts'[m + 1] = InstalmentAmount
      /\ \A k \in 1..m : amounts'[k] = amounts[k]
  BY <1>1, <1>2, <1>5
<1>7. SumFunction(amounts') = allocated'
  BY <1>1, <1>2, <1>5, SumAppend DEF SplitInv
<1>8. \A k \in 1..m :
        amounts[k] = IF k = n THEN remaining - (n - 1) * Regular ELSE Regular
  BY <1>1 DEF SplitInv
<1>9. \A k \in 1..(m + 1) :
        amounts'[k] = IF k = n THEN remaining - (n - 1) * Regular ELSE Regular
  <2> SUFFICES ASSUME NEW k \in 1..(m + 1)
               PROVE  amounts'[k] = IF k = n THEN remaining - (n - 1) * Regular ELSE Regular
    OBVIOUS
  <2> HIDE DEF m, n
  <2>1. k = m + 1 \/ k \in 1..m
    BY <1>2
  <2> QED
    BY <1>4, <1>6, <1>8, <2>1
<1>10. m + 1 < n => allocated' = (m + 1) * Regular
  <2>1. (m + 1) * Regular = m * Regular + Regular
    <3> HIDE DEF m
    <3> QED
      BY <1>2, <1>3
  <2> HIDE DEF m, n
  <2> QED
    BY <1>1, <1>2, <1>4, <2>1
<1>11. Regular' = Regular
  BY <1>1 DEF Regular
<1> QED
  BY <1>1, <1>2, <1>6, <1>7, <1>9, <1>10, <1>11 DEF SplitInv

LEMMA SplitNext == QuoteInv /\ SplitInv /\ [QuoteNext]_quoteVars => SplitInv'
<1> SUFFICES ASSUME QuoteInv, SplitInv, [QuoteNext]_quoteVars PROVE SplitInv'
  OBVIOUS
<1>1. CASE DueInFull
  <2>1. amounts' = <<>> /\ allocated' = 0 /\ remaining' = 0 /\ pc' = "Done"
    BY <1>1 DEF QuoteInv, DueInFull
  <2> QED
    BY <2>1, SumEmpty DEF SplitInv, AmountsPositive
<1>2. CASE TakeDeposit
  <2>1. /\ amounts' = <<>> /\ allocated' = 0 /\ remaining' = quote.total - Deposit /\ pc' = "Dates"
        /\ ~(quote.total - Deposit <= 0)
    BY <1>2 DEF QuoteInv, TakeDeposit, NothingLater
  <2>2. quote.total \in Nat /\ Deposit \in Nat
    BY QuoteNaturals, DepositNat DEF QuoteInv, QuoteTypeOK
  <2>3. remaining' > 0
    BY <2>1, <2>2
  <2> QED
    BY <2>1, <2>3, SumEmpty DEF SplitInv
<1>3. CASE NextMonth
  BY <1>3 DEF SplitInv, NextMonth
<1>4. CASE LastMonth
  <2>1. amounts' = <<>> /\ allocated' = 0 /\ pc' = "Amounts" /\ remaining' = remaining /\ pc = "Dates"
    BY <1>4 DEF QuoteInv, AtDates, LastMonth
  <2>2. Regular' \in Nat
    <3>1. QuoteInv'
      BY <1>4, LastMonthInv
    <3>2. remaining' \in Nat /\ Len(dueDates') \in Nat \ {0}
      BY <2>1, <3>1 DEF QuoteInv, QuoteTypeOK, AtAmounts
    <3> QED
      BY <3>2, RoundedRatioNat DEF Regular
  <2>3. Len(amounts') = 0
    BY <2>1
  <2>4. 0 * Regular' = 0
    <3>1. ASSUME NEW x \in Nat PROVE 0 * x = 0
      OBVIOUS
    <3> QED
      BY <2>2, <3>1
  <2> QED
    BY <2>1, <2>3, <2>4, SumEmpty DEF SplitInv
<1>5. CASE NextInstalment
  BY <1>5, NextInstalmentSplit
<1>6. CASE Milestone
  <2>1. /\ pc = "Amounts" /\ Len(amounts) = Len(dueDates) /\ pc' = "Done"
        /\ UNCHANGED <<amounts, remaining, allocated>>
    BY <1>6 DEF Milestone, Scheduled
  <2> QED
    BY <2>1, AllPositive DEF SplitInv, AmountsPositive
<1>7. CASE PayFull
  <2>1. amounts' = <<>> /\ allocated' = 0 /\ pc' = "Done"
    BY <1>7 DEF PayFull, Scheduled
  <2> QED
    BY <2>1, SumEmpty DEF SplitInv, AmountsPositive
<1>8. CASE ToPayLater
  <2>1. /\ amounts' = <<remaining>> /\ pc' = "Done" /\ pc = "Amounts"
        /\ UNCHANGED <<remaining, allocated>> /\ allocated = remaining
    BY <1>8, ScheduledFacts DEF ToPayLater, Scheduled
  <2>2. remaining \in Nat /\ remaining > 0
    BY <2>1 DEF QuoteInv, QuoteTypeOK, SplitInv
  <2>3. SumFunction(amounts') = remaining
    <3>1. <<>> \in Seq(Int) /\ amounts' = Append(<<>>, remaining) /\ remaining \in Int
      BY <2>1, <2>2
    <3>2. SumFunction(amounts') = SumFunction(<<>>) + remaining
      BY <3>1, SumAppend
    <3> QED
      BY <2>2, <3>2, SumEmpty
  <2> QED
    BY <2>1, <2>2, <2>3 DEF SplitInv, AmountsPositive
<1>9. CASE UNCHANGED quoteVars
  BY <1>9 DEF quoteVars, SplitInv, AmountsPositive, Regular
<1> QED
  BY <1>1, <1>2, <1>3, <1>4, <1>5, <1>6, <1>7, <1>8, <1>9 DEF QuoteNext

(* The instalments add up to what has been allocated, and all of them are
   positive unless rounding up leaves nothing for the last one. *)
THEOREM SplitInvariant == QuoteSpec => []SplitInv
<1>1. QuoteInit => SplitInv
  BY SumEmpty DEF QuoteInit, SplitInv
<1> QED
  BY <1>1, SplitNext, QuoteInvariant, PTL DEF QuoteSpec
=============================================================================
